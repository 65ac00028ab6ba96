------------------------------ MODULE Uploads ------------------------------
(***************************************************************************)
(* Receiving an upload (services/uploads.py) and reading it again in the   *)
(* job (services/sources.py, load_upload).  Requests run side by side; the *)
(* blob, its description and the job are three writes under one metadata   *)
(* lock, and a request may raise or its process die in between.  An upload *)
(* stands for the digest of bytes, owner, name and media type.             *)
(***************************************************************************)
EXTENDS Naturals, FiniteSets

CONSTANTS
  Requests,   \* requests of one principal, each made once
  Blobs,      \* uploads
  Keys,       \* idempotency keys
  MaxCrashes, \* bound: processes that die
  MaxErrors,  \* bound: errors after a write that is not undone
  Nobody

VARIABLES
  stage,     \* where each request is
  asked,     \* upload and key of each request
  partials,  \* requests whose temporary file exists
  created,   \* requests that put the blob in place themselves
  blobs,     \* uploads whose bytes are in place
  records,   \* uploads whose description is in place
  holder,    \* request that holds the metadata lock, or Nobody
  jobs,      \* accepted jobs: key, upload and state
  live,      \* is the principal's credential in force?
  mishaps    \* deaths and such errors so far

uvars == <<stage, asked, partials, created, blobs, records, holder, jobs, live, mishaps>>

Stages == {"new", "receiving", "locked", "placed", "described", "accepted", "done", "dead"}
Inside == {"locked", "placed", "described", "accepted"}
Offer == [upload : Blobs, key : Keys]
Jobs == [key : Keys, upload : Blobs, state : {"QUEUED", "SUCCEEDED", "FAILED"}]

ASSUME UploadAssumption ==
  /\ MaxCrashes \in Nat /\ MaxErrors \in Nat
  /\ Nobody \notin Requests /\ Nobody \notin Offer

UInit ==
  /\ stage = [r \in Requests |-> "new"] /\ asked = [r \in Requests |-> Nobody]
  /\ partials = {} /\ created = {} /\ blobs = {} /\ records = {}
  /\ holder = Nobody /\ jobs = {} /\ live = TRUE
  /\ mishaps = [deaths |-> 0, errors |-> 0]

Moves(r, here, there) == stage[r] = here /\ stage' = [stage EXCEPT ![r] = there]

Upload(r) == asked[r].upload

\* A temporary file is made, and the bytes come in.
Receive(r, u, k) ==
  /\ live /\ Moves(r, "new", "receiving")
  /\ asked' = [asked EXCEPT ![r] = [upload |-> u, key |-> k]]
  /\ partials' = partials \cup {r}
  /\ UNCHANGED <<created, blobs, records, holder, jobs, live, mishaps>>

\* All bytes are there, the credential is looked up again, the lock is taken.
Enter(r) ==
  /\ live /\ holder = Nobody /\ Moves(r, "receiving", "locked")
  /\ holder' = r
  /\ UNCHANGED <<asked, partials, created, blobs, records, jobs, live, mishaps>>

\* Too large, empty, disconnected, or the credential is gone.
Abandon(r) ==
  /\ Moves(r, "receiving", "done")
  /\ partials' = partials \ {r}
  /\ UNCHANGED <<asked, created, blobs, records, holder, jobs, live, mishaps>>

Missing(u) == u \notin blobs

Place(r) ==
  /\ Moves(r, "locked", "placed")
  /\ IF Missing(Upload(r))
       THEN /\ blobs' = blobs \cup {Upload(r)}
            /\ partials' = partials \ {r}
            /\ created' = created \cup {r}
       ELSE UNCHANGED <<blobs, partials, created>>
  /\ UNCHANGED <<asked, records, holder, jobs, live, mishaps>>

Describe(r) ==
  /\ Moves(r, "placed", "described")
  /\ records' = records \cup {u \in {Upload(r)} : r \in created}
  /\ UNCHANGED <<asked, partials, created, blobs, holder, jobs, live, mishaps>>

\* The end of a request, whatever it was: the temporary file goes, and the lock.
Leave(r, there) ==
  /\ stage' = [stage EXCEPT ![r] = there]
  /\ partials' = partials \ {r}
  /\ holder' = Nobody

Keyed(r) == {j \in jobs : j.key = asked[r].key}

\* service.execute: a key that is known answers with its job.
AcceptUpload(r) ==
  /\ stage[r] = "described" /\ live
  /\ \A j \in Keyed(r) : j.upload = Upload(r)
  /\ jobs' = IF Keyed(r) # {} THEN jobs
             ELSE jobs \cup {[key |-> asked[r].key, upload |-> Upload(r), state |-> "QUEUED"]}
  /\ stage' = [stage EXCEPT ![r] = "accepted"]
  /\ UNCHANGED <<asked, partials, created, blobs, records, holder, live, mishaps>>

Answer(r) ==
  /\ stage[r] = "accepted" /\ Leave(r, "done")
  /\ UNCHANGED <<asked, created, blobs, records, jobs, live, mishaps>>

\* Fault: what is in place is removed whoever put it there.
DiscardAlways(r) ==
  /\ blobs' = blobs \ {Upload(r)}
  /\ records' = records \ {Upload(r)}

\* What the request put in place is removed.
DiscardUpload(r) ==
  /\ blobs' = blobs \ {u \in {Upload(r)} : r \in created}
  /\ records' = records \ {u \in {Upload(r)} : r \in created}

\* service.execute raises: the key is another request's, the credential is
\* gone, or the store cannot be written.
RefuseUpload(r) ==
  /\ stage[r] = "described" /\ DiscardUpload(r) /\ Leave(r, "done")
  /\ UNCHANGED <<asked, created, jobs, live, mishaps>>

\* service.execute raises after the job was committed, when it reads it back.
RaiseLate(r) ==
  /\ stage[r] = "accepted" /\ mishaps.errors < MaxErrors /\ DiscardUpload(r) /\ Leave(r, "done")
  /\ mishaps' = [mishaps EXCEPT !.errors = @ + 1]
  /\ UNCHANGED <<asked, created, jobs, live>>

\* The description cannot be written; the bytes stay.
WriteFails(r) ==
  /\ stage[r] = "placed" /\ r \in created /\ mishaps.errors < MaxErrors /\ Leave(r, "done")
  /\ mishaps' = [mishaps EXCEPT !.errors = @ + 1]
  /\ UNCHANGED <<asked, created, blobs, records, jobs, live>>

\* The process dies: the lock goes with it, files stay as they are.
ProcessDies(r) ==
  /\ stage[r] \notin {"new", "done", "dead"} /\ mishaps.deaths < MaxCrashes
  /\ stage' = [stage EXCEPT ![r] = "dead"]
  /\ holder' = IF holder = r THEN Nobody ELSE holder
  /\ mishaps' = [mishaps EXCEPT !.deaths = @ + 1]
  /\ UNCHANGED <<asked, partials, created, blobs, records, jobs, live>>

InPlace(u) == u \in blobs \cap records

\* source.register in the job.
Load(j) ==
  /\ j.state = "QUEUED"
  /\ jobs' = (jobs \ {j}) \cup {[j EXCEPT !.state = IF InPlace(j.upload) THEN "SUCCEEDED" ELSE "FAILED"]}
  /\ UNCHANGED <<stage, asked, partials, created, blobs, records, holder, live, mishaps>>

Revoke ==
  /\ live /\ live' = FALSE
  /\ UNCHANGED <<stage, asked, partials, created, blobs, records, holder, jobs, mishaps>>

UNext ==
  \/ \E r \in Requests :
       \/ \E u \in Blobs, k \in Keys : Receive(r, u, k)
       \/ Enter(r) \/ Abandon(r) \/ Place(r) \/ Describe(r)
       \/ AcceptUpload(r) \/ Answer(r) \/ RefuseUpload(r) \/ WriteFails(r) \/ RaiseLate(r) \/ ProcessDies(r)
  \/ \E j \in jobs : Load(j)
  \/ Revoke

USpec == UInit /\ [][UNext]_uvars

-----------------------------------------------------------------------------
(* Properties.                                                             *)

\* Type correctness: the lock is held by the one request that is inside, and
\* a key has one job.
UTypeOK ==
  /\ stage \in [Requests -> Stages] /\ asked \in [Requests -> Offer \cup {Nobody}]
  /\ \A r \in Requests : stage[r] \in Inside <=> holder = r
  /\ jobs \subseteq Jobs /\ \A i, j \in jobs : i.key = j.key => i = j
  /\ created \cup partials \subseteq Requests /\ blobs \cup records \subseteq Blobs
  /\ mishaps \in [deaths : 0..MaxCrashes, errors : 0..MaxErrors]

\* No process died, and every error was one that is undone.
Undisturbed == mishaps.deaths = 0 /\ mishaps.errors = 0

\* "HTTP disconnect never cancels a previously accepted durable job"
\* (services/uploads.py:57-58): what an accepted job is going to read is there,
\* whichever request brought it and however the others end.
AcceptedIsReadable ==
  \A j \in jobs : j.state # "FAILED" /\ (j.state = "QUEUED" => InPlace(j.upload))

\* "Incomplete .part files are removed" (services/uploads.py:58), and so are
\* the bytes of a request that was refused: when all requests are over, what is
\* there belongs to an accepted job.
NothingLeftOver ==
  (\A r \in Requests : stage[r] \in {"new", "done"}) =>
    /\ partials = {}
    /\ blobs = records
    /\ \A u \in blobs : \E j \in jobs : j.upload = u

\* Uploads whose bytes are there and whose description is missing, while no
\* request is at work on them.
Orphans == {u \in blobs \ records : holder = Nobody}

\* What a death or an error between the two writes leaves behind is final: no later
\* request for the same upload mends it.
OrphanIsFinal == \A u \in Blobs : [](u \in Orphans => [](u \in blobs \ records))

\* What an accepted job is going to read is there, and what belongs to no job
\* is not, unless a process dies or a write fails: what is left behind then is
\* never mended (services/uploads.py).
UploadsAreKept ==
  /\ [](UTypeOK /\ (Undisturbed => AcceptedIsReadable /\ NothingLeftOver))
  /\ OrphanIsFinal
=============================================================================
