--------------------------- MODULE ServiceBoundary ---------------------------
(***************************************************************************)
(* The synchronous path of ApplicationService.execute in                   *)
(* services/facade.py for requests that write: the idempotency table of    *)
(* services/idempotency.py, create_project of services/projects.py, and    *)
(* the chained audit file of services/audit.py.                            *)
(*                                                                         *)
(* A call is one request of the same principal for the operation           *)
(* project.create, handled by one server thread; a client that repeats a   *)
(* request makes another call.  A thread may die between any two steps and *)
(* SQLite then frees the lock it held.  A request body is a project name   *)
(* and a domain pack; its digest is the body itself.                       *)
(***************************************************************************)
EXTENDS Naturals, Sequences, SequencesExt, FiniteSets

CONSTANTS
    Calls,   \* requests in flight or answered
    Keys,    \* values of the Idempotency-Key header
    Names,   \* project names
    Packs,   \* exact domain pack versions
    None,
    Garbled  \* a line of the audit file that is no record

Outcomes == {"SUCCEEDED", "FAILED", "IDEMPOTENCY_CONFLICT", "RECOVERY_REQUIRED",
             "AUDIT_RECOVERY_REQUIRED", "INTERNAL_ERROR"}

\* A record of the audit file; prev is the line whose hash it carries.
Lines == [call : Calls, outcome : Outcomes, prev : Nat]

ASSUME BoundaryAssumption == /\ None \notin Keys \cup Packs \cup Calls \cup Outcomes
                             /\ Garbled \notin Lines

VARIABLES
    call,      \* the server thread of each call
    requests,  \* the requests table of the idempotency store
    entered,   \* history: how often the action was entered under each key
    dirs,      \* the names whose workspace directory exists and is not empty
    projects,  \* the project catalog: name -> the pack it is bound to, or None
    founder,   \* history: the call that put the name in the catalog
    locks,     \* the metadata locks of the catalog and of the audit file
    log,       \* the lines of audit.jsonl
    cut        \* the last line is a whole record without its newline

svars == <<call, requests, entered, dirs, projects, founder, locks, log, cut>>

Bodies == Names \X Packs

Name(c) == call[c].body[1]
Pack(c) == call[c].body[2]
Key(c) == call[c].key

At(c, pc) == call[c].pc = pc

Goto(c, pc) == call' = [call EXCEPT ![c].pc = pc]

\* The action or the table settled the outcome of the call; pc comes next.
Settle(c, outcome, pc) ==
    call' = [call EXCEPT ![c].outcome = outcome, ![c].pc = pc]

\* Where the outcome of the action goes: into the row of its key, if it has one.
Return(c, outcome) == Settle(c, outcome, IF Key(c) = None THEN "audit" ELSE "finish")

NoRequest == [digest |-> None, status |-> "ABSENT"]

SInit ==
    /\ call = [c \in Calls |-> [pc |-> "new", key |-> None, body |-> None,
                                outcome |-> None, prev |-> 0, audited |-> FALSE]]
    /\ requests = [k \in Keys |-> NoRequest]
    /\ entered = [k \in Keys |-> 0]
    /\ dirs = {}
    /\ projects = [n \in Names |-> None]
    /\ founder = [n \in Names |-> None]
    /\ locks = [catalog |-> None, audit |-> None]
    /\ log = <<>>
    /\ cut = FALSE

-----------------------------------------------------------------------------
(* IdempotencyStore.execute.                                               *)

Receive(c, k, b) ==
    /\ At(c, "new")
    /\ call' = [call EXCEPT ![c].key = k, ![c].body = b,
                            ![c].pc = IF k = None THEN "create" ELSE "intent"]
    /\ UNCHANGED <<requests, entered, dirs, projects, founder, locks, log, cut>>

\* Fault: a request that failed before is tried again.
AnsweredUnlessFailed(row) == row.status \in {"RECOVERY_REQUIRED", "SUCCEEDED"}

Answered(row) == row.status # "ABSENT"

\* The first call under a key commits its intent before it enters the action.
RecordIntent(c) ==
    /\ At(c, "intent")
    /\ ~Answered(requests[Key(c)])
    /\ requests' = [requests EXCEPT ![Key(c)] =
                      [digest |-> call[c].body, status |-> "RECOVERY_REQUIRED"]]
    /\ Goto(c, "create")
    /\ UNCHANGED <<entered, dirs, projects, founder, locks, log, cut>>

\* Fault: the digest is not compared, and a key answers any body sent under it.
SavedOutcomeOfKey(c) == requests[Key(c)].status

\* A later call is answered from the row: its saved outcome, a conflict when the
\* body differs, or RECOVERY_REQUIRED while the first call has not finished.
SavedOutcome(c) ==
    IF requests[Key(c)].digest # call[c].body THEN "IDEMPOTENCY_CONFLICT"
                                              ELSE requests[Key(c)].status

AnswerSaved(c) ==
    /\ At(c, "intent")
    /\ Answered(requests[Key(c)])
    /\ Settle(c, SavedOutcome(c), "audit")
    /\ UNCHANGED <<requests, entered, dirs, projects, founder, locks, log, cut>>

Finish(c) ==
    /\ At(c, "finish")
    /\ requests' = [requests EXCEPT ![Key(c)].status = call[c].outcome]
    /\ Goto(c, "audit")
    /\ UNCHANGED <<entered, dirs, projects, founder, locks, log, cut>>

-----------------------------------------------------------------------------
(* create_project, under the lock of the catalog.                          *)

EnterCreate(c) ==
    /\ At(c, "create")
    /\ locks.catalog = None
    /\ locks' = [locks EXCEPT !.catalog = c]
    /\ entered' = IF Key(c) = None THEN entered ELSE [entered EXCEPT ![Key(c)] = @ + 1]
    /\ Goto(c, "inside")
    /\ UNCHANGED <<requests, dirs, projects, founder, log, cut>>

\* The name is in the catalog: its project is returned, unless another pack is asked
\* or its workspace does not pass inspection any more.
FindExisting(c) ==
    /\ At(c, "inside")
    /\ projects[Name(c)] # None
    /\ \/ projects[Name(c)] = Pack(c) /\ Return(c, "SUCCEEDED")
       \/ Return(c, "FAILED")
    /\ locks' = [locks EXCEPT !.catalog = None]
    /\ UNCHANGED <<requests, entered, dirs, projects, founder, log, cut>>

\* initialize_workspace renames a complete directory into place, and init_registry
\* works inside it.
Initialise(c) ==
    /\ At(c, "inside")
    /\ projects[Name(c)] = None /\ Name(c) \notin dirs
    /\ dirs' = dirs \cup {Name(c)}
    /\ Goto(c, "save")
    /\ UNCHANGED <<requests, entered, projects, founder, locks, log, cut>>

\* A directory left by an earlier attempt is refused; otherwise an error comes
\* before the rename or after it, in the registry or the final inspection.
InitialiseFails(c) ==
    /\ At(c, "inside")
    /\ projects[Name(c)] = None
    /\ dirs' \in {dirs, dirs \cup {Name(c)}}
    /\ Return(c, "FAILED")
    /\ locks' = [locks EXCEPT !.catalog = None]
    /\ UNCHANGED <<requests, entered, projects, founder, log, cut>>

Founded(c) ==
    /\ projects' = [projects EXCEPT ![Name(c)] = Pack(c)]
    /\ founder' = [founder EXCEPT ![Name(c)] = c]

Save(c) ==
    /\ At(c, "save")
    /\ Founded(c)
    /\ Return(c, "SUCCEEDED")
    /\ locks' = [locks EXCEPT !.catalog = None]
    /\ UNCHANGED <<requests, entered, dirs, log, cut>>

\* An OSError of the save is no ServiceBoundaryError: whether or not the new
\* catalog took effect, the row keeps RECOVERY_REQUIRED and nothing is audited.
SaveFails(c) ==
    /\ At(c, "save")
    /\ Founded(c) \/ UNCHANGED <<projects, founder>>
    /\ Settle(c, "INTERNAL_ERROR", "reply")
    /\ locks' = [locks EXCEPT !.catalog = None]
    /\ UNCHANGED <<requests, entered, dirs, log, cut>>

-----------------------------------------------------------------------------
(* AuditLog.append, under the lock of the audit file.                      *)

DamagedTail == \E i \in DOMAIN log : i = Len(log) /\ log[i] = Garbled

ReadTail(c) ==
    /\ At(c, "audit")
    /\ locks.audit = None
    /\ ~DamagedTail
    /\ locks' = [locks EXCEPT !.audit = c]
    /\ call' = [call EXCEPT ![c].pc = "append", ![c].prev = Len(log)]
    /\ UNCHANGED <<requests, entered, dirs, projects, founder, log, cut>>

\* Fault: the error of the audit file is swallowed.
RefuseTailQuietly(c) ==
    /\ At(c, "audit")
    /\ locks.audit = None
    /\ DamagedTail
    /\ Goto(c, "reply")
    /\ UNCHANGED <<requests, entered, dirs, projects, founder, locks, log, cut>>

\* A damaged tail is refused, for a success and for the BLOCKED record of an error
\* alike: the call is answered with 503, whatever its action did.
RefuseTail(c) ==
    /\ At(c, "audit")
    /\ locks.audit = None
    /\ DamagedTail
    /\ Settle(c, "AUDIT_RECOVERY_REQUIRED", "reply")
    /\ UNCHANGED <<requests, entered, dirs, projects, founder, locks, log, cut>>

Line(c) == [call |-> c, outcome |-> call[c].outcome, prev |-> call[c].prev]

\* The next record after a line without newline continues that line and spoils it.
With(line) == IF cut THEN Append(Front(log), Garbled) ELSE Append(log, line)

AppendLine(c) ==
    /\ At(c, "append")
    /\ log' = With(Line(c))
    /\ cut' = FALSE
    /\ call' = [call EXCEPT ![c].pc = "reply", ![c].audited = TRUE]
    /\ locks' = [locks EXCEPT !.audit = None]
    /\ UNCHANGED <<requests, entered, dirs, projects, founder>>

\* Part of the record reached the file: less than a record, or all but its newline.
PartOf(c) ==
    \/ log' = With(Garbled) /\ cut' = FALSE
    \/ ~cut /\ log' = Append(log, Line(c)) /\ cut' = TRUE

\* The disk is full.
AppendFails(c) ==
    /\ At(c, "append")
    /\ PartOf(c) \/ UNCHANGED <<log, cut>>
    /\ Settle(c, "INTERNAL_ERROR", "reply")
    /\ locks' = [locks EXCEPT !.audit = None]
    /\ UNCHANGED <<requests, entered, dirs, projects, founder>>

-----------------------------------------------------------------------------
Reply(c) ==
    /\ At(c, "reply")
    /\ Goto(c, "replied")
    /\ UNCHANGED <<requests, entered, dirs, projects, founder, locks, log, cut>>

\* The 30 seconds of metadata_lock pass: sqlite3.OperationalError, no audit.
LockTimeout(c) ==
    /\ \/ At(c, "create") /\ locks.catalog # None
       \/ At(c, "audit") /\ locks.audit # None
    /\ Settle(c, "INTERNAL_ERROR", "reply")
    /\ UNCHANGED <<requests, entered, dirs, projects, founder, locks, log, cut>>

\* The 30 seconds of the idempotency table pass: what the row says is left as it is.
TableTimeout(c) ==
    /\ At(c, "intent") \/ At(c, "finish")
    /\ Settle(c, "INTERNAL_ERROR", "reply")
    /\ UNCHANGED <<requests, entered, dirs, projects, founder, locks, log, cut>>

\* The process dies, in the middle of a write or not.
Die(c) ==
    /\ call[c].pc \notin {"new", "replied", "dead"}
    /\ (At(c, "append") /\ PartOf(c)) \/ UNCHANGED <<log, cut>>
    /\ locks' = [l \in DOMAIN locks |-> IF locks[l] = c THEN None ELSE locks[l]]
    /\ Goto(c, "dead")
    /\ UNCHANGED <<requests, entered, dirs, projects, founder>>

SNext ==
    \E c \in Calls :
        \/ \E k \in Keys \cup {None}, b \in Bodies : Receive(c, k, b)
        \/ RecordIntent(c) \/ AnswerSaved(c) \/ Finish(c)
        \/ EnterCreate(c) \/ FindExisting(c) \/ Initialise(c) \/ InitialiseFails(c)
        \/ Save(c) \/ SaveFails(c)
        \/ ReadTail(c) \/ RefuseTail(c) \/ AppendLine(c) \/ AppendFails(c)
        \/ Reply(c) \/ LockTimeout(c) \/ TableTimeout(c) \/ Die(c)

SSpec == SInit /\ [][SNext]_svars

-----------------------------------------------------------------------------
(* Properties.                                                             *)

Threads ==
    [pc : {"new", "intent", "create", "inside", "save", "finish", "audit", "append",
           "reply", "replied", "dead"},
     key : Keys \cup {None}, body : Bodies \cup {None}, outcome : Outcomes \cup {None},
     prev : Nat, audited : BOOLEAN]

Rows == [digest : Bodies \cup {None},
         status : {"ABSENT", "RECOVERY_REQUIRED", "SUCCEEDED", "FAILED"}]

\* The shape of every variable.
STypeOK ==
    /\ call \in [Calls -> Threads]
    /\ requests \in [Keys -> Rows]
    /\ entered \in [Keys -> Nat]
    /\ dirs \subseteq Names
    /\ projects \in [Names -> Packs \cup {None}]
    /\ founder \in [Names -> Calls \cup {None}]
    /\ locks \in [catalog : Calls \cup {None}, audit : Calls \cup {None}]
    /\ log \in Seq(Lines \cup {Garbled})
    /\ cut \in BOOLEAN

Replied(c, outcome) == At(c, "replied") /\ call[c].outcome = outcome

\* However often a request is repeated under one key, at the same time or after
\* the first thread died in the middle, its action is entered once.
EnteredOnce == \A k \in Keys : entered[k] <= 1

\* One key and one body never get two different verdicts, in whatever order the
\* calls are received, finish, time out or die.
AnswersAgree ==
    \A c, d \in Calls :
        ~ /\ Key(c) # None /\ Key(c) = Key(d) /\ call[c].body = call[d].body
          /\ Replied(c, "SUCCEEDED") /\ Replied(d, "FAILED")

\* An answer is true when the client reads it: a success names a project that is in
\* the catalog with the pack asked for, and a failure is never the answer to a
\* request that founded a project, nor to a repetition of one.
AnswersAreTrue ==
    \A c \in Calls :
        /\ Replied(c, "SUCCEEDED") => projects[Name(c)] = Pack(c)
        /\ Replied(c, "FAILED") =>
             \A n \in Names : founder[n] # None =>
                 founder[n] # c /\ (Key(c) # None => Key(founder[n]) # Key(c))

\* A verdict reaches the client only after its record is in the audit file, and
\* the record is found there as long as the whole file verifies.
AuditedBeforeReply ==
    \A c \in Calls : Replied(c, "SUCCEEDED") \/ Replied(c, "FAILED") =>
        /\ call[c].audited
        /\ \/ \E i \in DOMAIN log : log[i] = Garbled
           \/ \E i \in DOMAIN log : log[i] = Line(c)

\* The records form one chain up to the first damaged line, and nothing is ever
\* written behind a damaged line.
AuditChain ==
    \A i \in DOMAIN log :
        IF log[i] = Garbled THEN i = Len(log) ELSE log[i].prev = i - 1
=============================================================================
