-------------------------- MODULE FencedRefinement --------------------------
(***************************************************************************)
(* FencedExecution implements Authority.  applied is read off the published*)
(* workspaces themselves, not off the receipts: a result that is in no     *)
(* published tree was not applied.  Only session and business state, which *)
(* a tool outside the service may take away afterwards, is not looked for. *)
(***************************************************************************)
EXTENDS FencedExecution

Founded == {p \in Projects : Handle(p) # NoProject}

Applied == {j \in Jobs : /\ Handle(ProjectOf[j]) # NoProject
                         /\ IF j \in ModuleJobs THEN Committed(j)
                            ELSE j \in trees[Handle(ProjectOf[j]).root]}

Revision == [p \in Projects |-> Handle(p).rev]

Answers == [FAILED |-> "failed", SUCCEEDED |-> "succeeded", CANCELLED |-> "cancelled"]

Answer == [j \in Jobs |-> IF jobs[j].status \in Terminal THEN Answers[jobs[j].status]
                                                          ELSE "open"]

A == INSTANCE Authority WITH exists <- Founded, applied <- Applied,
                             rev <- Revision, answer <- Answer

\* Every behaviour of the workers, their crashes and the clients is one of the
\* abstract authority: the guarantees of Authority.tla hold of the code.
ImplementsAuthority == A!ASpec

\* Seen through the job table alone, the workers and clients only ever perform
\* the store's own transactions, so what holds of every caller of the store holds
\* of the composed system.
ImplementsJobStore == JSpec
=============================================================================
