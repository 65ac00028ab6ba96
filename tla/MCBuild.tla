------------------------------ MODULE MCBuild ------------------------------
(***************************************************************************)
(* Instance for TLC of what is built, recorded and delivered: the semantic *)
(* build, the step audit of an attempt, the live runner, the delivery of   *)
(* trajectories and the export of batches.                                 *)
(*                                                                         *)
(* The parts share no variable: a behaviour exercises one and leaves the   *)
(* others at their initial states.                                         *)
(***************************************************************************)
EXTENDS SemanticBuild, StepAudit, BatchExport, TrajectoryDelivery, TLC

CONSTANTS b1, b2, confirmation, reviewlog, snapshot, smoke1, pilot1, full1, na1, rev1, rev2, s1, s2,
          run1, run2, v1, v2, t1, t2, w1, w2, i1, i2, x1, x2, d1, d2, d3, e1, e2,
          Parts   \* parts to exercise

VARIABLES
  part,
  dir, row, attempts, response, sent, orphans, sup, killed, unsent   \* live runner

build == bvars
audit == avars
live == <<dir, row, attempts, response, sent, orphans, sup, killed, unsent>>
delivery == dvars
batch == evars

\* In a project the review log is in artifacts/reviews, the confirmed package in
\* artifacts/confirmed, and the plugin snapshots in artifacts/builds/ingestion/<run>;
\* later runs sort before or after the first one, packages between them and the log.
MCHome == confirmation :> 4 @@ reviewlog :> 7 @@ snapshot :> 2

\* One plan and edits that are put back, or two plans and one edit.
Replanned == INSTANCE SemanticBuild WITH MaxEdits <- 1, MaxPlans <- 2, RunPlaces <- {1}

\* One row of each phase, the last planned for two calls and one that does not
\* apply; or two revisions of one row.
MCPhases == smoke1 :> 1 @@ pilot1 :> 2 @@ full1 :> 3 @@ na1 :> 3
MCCaps == smoke1 :> 1 @@ pilot1 :> 1 @@ full1 :> 2 @@ na1 :> 0

Budget == INSTANCE LiveRunner
  WITH Revision <- {rev1}, Supervisor <- {s1, s2}, Slot <- {smoke1, pilot1, full1, na1},
       PhaseOf <- MCPhases, Cap <- MCCaps, MaxCalls <- 4, MaxTokens <- 7, Reserve <- 2, Usage <- {1, 3},
       MaxDeaths <- 2, MaxFaults <- 0, deaths <- killed, faults <- unsent

Revisions == INSTANCE LiveRunner
  WITH Revision <- {rev1, rev2}, Supervisor <- {s1}, Slot <- {smoke1},
       PhaseOf <- smoke1 :> 1, Cap <- smoke1 :> 2, MaxCalls <- 3, MaxTokens <- 5, Reserve <- 2,
       Usage <- {1, 3}, MaxDeaths <- 1, MaxFaults <- 0, deaths <- killed, faults <- unsent

Untouched == INSTANCE LiveRunner
  WITH Revision <- {rev1}, Supervisor <- {s1}, Slot <- {smoke1, pilot1, full1, na1},
       PhaseOf <- MCPhases, Cap <- MCCaps, MaxCalls <- 4, MaxTokens <- 8, Reserve <- 2, Usage <- {1, 3},
       MaxDeaths <- 0, MaxFaults <- 0, deaths <- killed, faults <- unsent

MCInit ==
  /\ part \in Parts
  /\ BInit /\ AInit /\ DInit /\ EInit
  /\ CASE part = "budget" -> Budget!Init
       [] part = "revisions" -> Revisions!Init
       [] OTHER -> Untouched!Init

BuildStep == part = "build" /\ BNext /\ UNCHANGED <<audit, live, delivery, batch>>

ReplanStep == part = "replan" /\ Replanned!BNext /\ UNCHANGED <<audit, live, delivery, batch>>

AuditStep == part = "audit" /\ ANext /\ UNCHANGED <<build, live, delivery, batch>>

BudgetStep == part = "budget" /\ Budget!Next /\ UNCHANGED <<build, audit, delivery, batch>>

RevisionsStep == part = "revisions" /\ Revisions!Next /\ UNCHANGED <<build, audit, delivery, batch>>

UntouchedStep == part = "untouched" /\ Untouched!Next /\ UNCHANGED <<build, audit, delivery, batch>>

DeliveryStep == part = "delivery" /\ DNext /\ UNCHANGED <<build, audit, live, batch>>

ExportsStep == part = "exports" /\ ENext /\ UNCHANGED <<build, audit, live, delivery>>

MCNext ==
  /\ \/ BuildStep \/ ReplanStep \/ AuditStep \/ BudgetStep \/ RevisionsStep
     \/ UntouchedStep \/ DeliveryStep \/ ExportsStep
  /\ UNCHANGED part

MCSpec == MCInit /\ [][MCNext]_<<part, build, audit, live, delivery, batch>>

-----------------------------------------------------------------------------
(* Properties of the parts.                                                *)

\* No more is charged than was authorised, in phases, whoever is killed and
\* whichever revision asks; after an overrun nothing is sent, and a row is ended
\* by the process that runs it (ontology_io/live_runner.py, live_budget.py).
BudgetHolds ==
  /\ [](part = "budget" => Budget!TypeOK /\ Budget!WithinBudget /\ Budget!SentIsCharged /\ Budget!PhasesInOrder)
  /\ [](part = "revisions" => Revisions!WithinBudget)
  /\ [](part = "untouched" => Untouched!SnapshotAccepts)
  /\ [][part = "revisions" => Revisions!OverrunIsLast]_live
  /\ [][part = "budget" => Budget!EndsItsRow]_live
=============================================================================
