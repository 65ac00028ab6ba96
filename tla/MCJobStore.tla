----------------------------- MODULE MCJobStore -----------------------------
(***************************************************************************)
(* Instance for TLC of the job store alone, with two workers and keyed and *)
(* legacy requests, and of a worker process on the same store that carries *)
(* out module jobs beside a tool that edits workspaces in place.           *)
(*                                                                         *)
(* A behaviour exercises one of the parts.  In the module part no job is   *)
(* retried, nobody cancels or loses a credential, and no request has a key:*)
(* the store part and the instances of FencedExecution cover these.        *)
(***************************************************************************)
EXTENDS FencedExecution, TLC

CONSTANTS Parts,      \* parts to exercise
          MaxGranted  \* bound on the tokens granted to a job in the module part

VARIABLES part

OneWorker == [w \in Procs |-> CHOOSE i \in Workers : TRUE]

OneProject == [j \in Jobs |-> CHOOSE p \in Projects : TRUE]

OnePrincipal == [j \in Jobs |-> CHOOSE c \in Principals : TRUE]

MCInit == part \in Parts /\ Init

StoreStep == part = "store" /\ JNext /\ UNCHANGED evars

ModuleStep ==
    /\ part = "module"
    /\ Next
    /\ \A j \in Jobs : jobs'[j].token <= MaxGranted /\ jobs'[j].scope = None
    /\ UNCHANGED <<cancelled, cred>>

MCNext == (StoreStep \/ ModuleStep) /\ UNCHANGED part

MCSpec == MCInit /\ [][MCNext]_<<part, vars>>
=============================================================================
