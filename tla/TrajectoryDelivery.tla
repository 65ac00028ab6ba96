------------------------- MODULE TrajectoryDelivery -------------------------
(***************************************************************************)
(* The delivery of recorded runs and of their reviews out of a project        *)
(* (services/ontology_traces.py, services/handoff.py,                         *)
(* modeling/delivery/evolution.py): a batch holds at most one run and the      *)
(* reviews that were asked for or are about that run; three kinds of files in  *)
(* the project's ledger keep a run, a review and a batch name to one delivery. *)
(*                                                                         *)
(* Jobs work on a private copy of the project and are committed only when no   *)
(* other job was committed since (module FencedExecution).                    *)
(*                                                                         *)
(* Left out: the traces themselves and their validation (every run is a        *)
(* complete live one), reviews that are synthetic (never delivered), and the   *)
(* rights of the caller.                                                     *)
(***************************************************************************)
EXTENDS Integers, Sequences

CONSTANTS Run, Review, Batches, Worker,
          MaxExports,   \* bound: the exports committed
          Unset

VARIABLES version,  \* the committed revision of the project
          review,   \* the reviews on file: the run, and the export that named it (0: none)
          key,      \* the ledger of deliveries, by run, review and batch
          exported, \* the committed exports, in order
          copy      \* the private copy of each worker

dvars == <<version, review, key, exported, copy>>

Key == Run \union Review \union Batches
Files == [batch : Batches, runs : SUBSET Run, reviews : SUBSET Review]
OnFile == [run : Run, export : 0..MaxExports]
Copy == [version : Nat, review : [Review -> OnFile \union {Unset}],
         key : [Key -> Files \union {Unset}], out : Files \union {Unset}]

ASSUME DeliveryAssumption == MaxExports \in Nat /\ Unset \notin Files /\ Unset \notin Copy

DTypeOK ==
  /\ version \in Nat
  /\ review \in [Review -> OnFile \union {Unset}]
  /\ key \in [Key -> Files \union {Unset}]
  /\ exported \in Seq(Files)
  /\ copy \in [Worker -> Copy \union {Unset}]

DInit ==
  /\ version = 0
  /\ review = [v \in Review |-> Unset]
  /\ key = [k \in Key |-> Unset]
  /\ exported = <<>>
  /\ copy = [w \in Worker |-> Unset]

----------------------------------------------------------------------------
(* submit_review: about a run whose trace is here, or about a run of an export  *)
(* that was committed.                                                       *)
RunsOf(exports) == UNION {exported[i].runs : i \in exports}

RowOf(r, i) == [run |-> r, export |-> i]

Submit(w, v, r, i) ==
  /\ review[v] = Unset
  /\ i \in 0..Len(exported)
  /\ i > 0 => r \in exported[i].runs
  /\ copy[w] = Unset
  /\ copy' = [copy EXCEPT ![w] =
       [version |-> version, review |-> [review EXCEPT ![v] = RowOf(r, i)],
        key |-> key, out |-> Unset]]
  /\ UNCHANGED <<version, review, key, exported>>

(* selected_reviews: those asked for, and those about the run; the exports that  *)
(* were named, by the caller or by a review, say which runs are known.         *)
Selected(runs, asked) ==
  {v \in Review : review[v] # Unset /\ (v \in asked \/ review[v].run \in runs)}

Known(reviews, named) == RunsOf(named \union ({review[v].export : v \in reviews} \ {0}))

(* Fault: the reviews are not entered in the ledger. *)
KeysOfRuns(files) == files.runs \union {files.batch}

(* commit_batch: a key of the ledger is new or says the very same.             *)
Keys(files) == files.runs \union files.reviews \union {files.batch}

ExportBatch(w, b, runs, asked, named) ==
  LET reviews == Selected(runs, asked)
      files == [batch |-> b, runs |-> runs, reviews |-> reviews]
  IN /\ \A v \in reviews : review[v].run \in runs \union Known(reviews, named)
     /\ \A k \in Keys(files) : key[k] \in {Unset, files}
     /\ copy[w] = Unset
     /\ copy' = [copy EXCEPT ![w] =
          [version |-> version, review |-> review, out |-> files,
           key |-> [k \in Key |-> IF k \in Keys(files) THEN files ELSE key[k]]]]
     /\ UNCHANGED <<version, review, key, exported>>

(* The copy is published if it was made of the committed revision.             *)
Fresh(w) == copy[w].version = version

Publish(w) ==
  /\ copy[w] # Unset /\ Fresh(w)
  /\ Len(exported) < MaxExports \/ copy[w].out = Unset
  /\ version' = version + 1
  /\ review' = copy[w].review
  /\ key' = copy[w].key
  /\ exported' = IF copy[w].out = Unset THEN exported ELSE Append(exported, copy[w].out)
  /\ copy' = [copy EXCEPT ![w] = Unset]

(* The job fails, or is refused as stale: the copy is thrown away.             *)
Discard(w) ==
  /\ copy[w] # Unset
  /\ copy' = [copy EXCEPT ![w] = Unset]
  /\ UNCHANGED <<version, review, key, exported>>

OnFileNow == {v \in Review : review[v] # Unset}

DNext ==
  \E w \in Worker :
    \/ \E v \in Review, r \in Run, i \in 0..MaxExports : Submit(w, v, r, i)
    \/ \E b \in Batches, runs \in {{}} \union {{r} : r \in Run}, asked \in SUBSET OnFileNow,
          named \in SUBSET DOMAIN exported : ExportBatch(w, b, runs, asked, named)
    \/ Publish(w)
    \/ Discard(w)

DSpec == DInit /\ [][DNext]_dvars

----------------------------------------------------------------------------
(* A run, a review and the name of a batch are each part of one delivery: what   *)
(* is exported twice is exported with the same contents (commit_batch).         *)
OneDelivery ==
  \A i, k \in DOMAIN exported :
    \/ exported[i].batch = exported[k].batch
    \/ exported[i].runs \intersect exported[k].runs # {}
    \/ exported[i].reviews \intersect exported[k].reviews # {}
    => exported[i] = exported[k]

(* Who receives the batches in order can resolve every review: its run is in the *)
(* same batch or in an earlier one (known_export_runs, validate_batch).         *)
ReviewsResolve ==
  \A i \in DOMAIN exported : \A v \in exported[i].reviews :
    \E k \in 1..i : review[v].run \in exported[k].runs

(* A review that was accepted stays, whatever was exported meanwhile.          *)
ReviewsStay == [][\A v \in Review : review[v] # Unset => review'[v] = review[v]]_dvars

(* A run is delivered once under one name, and what a review names is there and *)
(* stays (services/ontology_traces.py).                                      *)
DeliveredOnce == [](DTypeOK /\ OneDelivery /\ ReviewsResolve) /\ ReviewsStay
=============================================================================
