---------------------------- MODULE MCIngestion ----------------------------
(***************************************************************************)
(* Instance for TLC of what happens between people, plugins and other      *)
(* servers: ingestion plans and runs, the sessions of a browser, the       *)
(* deployment of a package to a graph server and the assessment of a case  *)
(* by the rules.                                                           *)
(*                                                                         *)
(* The parts share no variable: a behaviour exercises one and leaves the   *)
(* others at their initial states.                                         *)
(***************************************************************************)
EXTENDS IngestionPlans, BrowserSession, GraphImport, RuleEvaluation, TLC

CONSTANTS p1, p2, detector, parser, other, normalizer, evaluator, s1, s2, r1, r2,
          Parts   \* parts to exercise

VARIABLES part

MCProviders == {detector, parser, other, normalizer, evaluator}
MCBuiltin == MCProviders \ {other}
MCRole == detector :> "detect" @@ parser :> "parse" @@ other :> "parse"
          @@ normalizer :> "normalize" @@ evaluator :> "quality"

\* Another parser of the same priority for one of the two media types.
MCReads == [x \in MCProviders |-> IF x = other THEN {"text"} ELSE {"text", "markdown"}]
MCRank == [x \in MCProviders |-> 1]

MCMedia == s1 :> "text" @@ s2 :> "markdown"
MCContent == s1 :> "bytes" @@ s2 :> "bytes"

\* One process and the same bytes under two media types: one blob.
Batch == INSTANCE IngestionPlans
  WITH Procs <- {p1}, Sources <- {s1, s2}

\* A process that lives on after an operation.
Worker == INSTANCE IngestionPlans
  WITH LongLived <- TRUE, Procs <- {p1}, MaxFaults <- 0, MaxEdits <- 2

\* Beside two tabs of one browser with a request each, one tab with two under way.
Alone == INSTANCE BrowserSession
  WITH Tabs <- {"t1"}, Slots <- {1, 2}, MaxSessions <- 3, Kinds <- {"poll", "read", "write", "session"}

\* Two rules, of which one is amended at time 3, in a catalog as it should be,
\* one whose windows touch, one with a gap and one turned round.
Version(rule, v, from, to, bound) ==
  [rule |-> rule, version |-> v, from |-> from, to |-> to, type |-> rule, kind |-> "min", bound |-> bound]

Contract ==
  [rule |-> "contract", version |-> 1, from |-> 0, to |-> 9, type |-> "contract", kind |-> "ended", bound |-> 0]

MCCatalogs ==
  {{Contract, Version("porting", 1, f[1], f[2], 1), Version("porting", 2, f[3], 9, 2)} :
     f \in {<<0, 2, 3>>, <<0, 3, 3>>, <<0, 1, 3>>, <<3, 2, 4>>}}

\* Of each type one that is good for a while and one of smaller value or with
\* another status.
MCPieces ==
  <<[type |-> "porting", valid |-> TRUE, until |-> 2, value |-> 1],
    [type |-> "porting", valid |-> FALSE, until |-> 9, value |-> 2],
    [type |-> "porting", valid |-> TRUE, until |-> 9, value |-> 2],
    [type |-> "contract", valid |-> TRUE, until |-> 3, value |-> 2],
    [type |-> "contract", valid |-> TRUE, until |-> 4, value |-> 3]>>

Permit(status, until) == [status |-> status, until |-> until]

MCPermits == {Nothing, Permit("VALID", 2), Permit("VALID", 9), Permit("REVOKED", 9), Permit("EXPIRED", 9)}

MCAgreements ==
  {Nothing, [signed |-> TRUE, effective |-> 2], [signed |-> TRUE, effective |-> 4], [signed |-> FALSE, effective |-> 4]}

MCInit ==
  /\ part \in Parts
  /\ PInit /\ GInit
  /\ IF part = "alone" THEN Alone!BInit ELSE BInit
  /\ RInit
  /\ part = "rules" \/ (auth = Nothing /\ agreement = Nothing /\ catalog = CHOOSE c \in MCCatalogs : TRUE)

PlansStep == part = "plans" /\ PNext /\ UNCHANGED <<bvars, gvars, rvars>>

BatchStep == part = "batch" /\ Batch!PNext /\ UNCHANGED <<bvars, gvars, rvars>>

WorkerStep == part = "worker" /\ Worker!PNext /\ UNCHANGED <<bvars, gvars, rvars>>

TabsStep == part = "tabs" /\ BNext /\ UNCHANGED <<pvars, gvars, rvars>>

AloneStep == part = "alone" /\ Alone!BNext /\ UNCHANGED <<pvars, gvars, rvars>>

GraphStep == part = "graph" /\ GNext /\ UNCHANGED <<pvars, bvars, rvars>>

RulesStep == part = "rules" /\ RNext /\ UNCHANGED <<pvars, bvars, gvars>>

MCNext ==
  /\ PlansStep \/ BatchStep \/ WorkerStep \/ TabsStep \/ AloneStep \/ GraphStep \/ RulesStep
  /\ UNCHANGED part

MCSpec == MCInit /\ [][MCNext]_<<part, pvars, bvars, gvars, rvars>>
=============================================================================
