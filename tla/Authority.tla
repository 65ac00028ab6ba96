------------------------------ MODULE Authority ------------------------------
(***************************************************************************)
(* What durable execution promises to a client of the service, whatever    *)
(* the number of workers, attempts, crashes and retries behind it:         *)
(*                                                                         *)
(*  - each job changes the authority of its project at most once, in one   *)
(*    step that moves the revision by one;                                 *)
(*  - only a job that is still open does so;                               *)
(*  - "succeeded" is answered only for a job that did, "failed" only for a *)
(*    job that did not and then never will, and both answers are final;    *)
(*  - "cancelled" may be answered for a job that had already published:    *)
(*    cancelling never takes a result back, and reading the job again      *)
(*    corrects the answer.                                                 *)
(***************************************************************************)
EXTENDS Naturals

CONSTANTS Jobs, Projects, ProjectOf

VARIABLES
    exists,    \* the projects that have been created
    applied,   \* the jobs whose result is part of the published authority
    rev,       \* the authority revision of each project
    answer     \* what a client is told of each job

avars == <<exists, applied, rev, answer>>

AInit ==
    /\ exists = {}
    /\ applied = {}
    /\ rev = [p \in Projects |-> 0]
    /\ answer = [j \in Jobs |-> "open"]

Found(p) ==
    /\ p \notin exists
    /\ exists' = exists \cup {p}
    /\ UNCHANGED <<applied, rev, answer>>

Publish(j) ==
    /\ ProjectOf[j] \in exists
    /\ answer[j] = "open"
    /\ j \notin applied
    /\ applied' = applied \cup {j}
    /\ rev' = [rev EXCEPT ![ProjectOf[j]] = @ + 1]
    /\ UNCHANGED <<exists, answer>>

Succeed(j) ==
    /\ j \in applied
    /\ answer[j] \in {"open", "cancelled"}
    /\ answer' = [answer EXCEPT ![j] = "succeeded"]
    /\ UNCHANGED <<exists, applied, rev>>

FailOpen(j) ==
    /\ j \notin applied
    /\ answer[j] = "open"
    /\ answer' = [answer EXCEPT ![j] = "failed"]
    /\ UNCHANGED <<exists, applied, rev>>

CancelOpen(j) ==
    /\ answer[j] = "open"
    /\ answer' = [answer EXCEPT ![j] = "cancelled"]
    /\ UNCHANGED <<exists, applied, rev>>

ANext ==
    \/ \E p \in Projects : Found(p)
    \/ \E j \in Jobs : Publish(j) \/ Succeed(j) \/ FailOpen(j) \/ CancelOpen(j)

ASpec == AInit /\ [][ANext]_avars
=============================================================================
