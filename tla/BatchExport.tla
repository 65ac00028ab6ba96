----------------------------- MODULE BatchExport -----------------------------
(***************************************************************************)
(* The export of a batch of runs and reviews to a local delivery directory    *)
(* (modeling/delivery/evolution.py: export_batch, exchange_io.py:             *)
(* write_directory, used by the delivery command line).  Batches beside each  *)
(* other share a ledger; the directory is written inside the transaction of    *)
(* the ledger, and an exporter may be killed between any two steps.            *)
(*                                                                         *)
(* Left out: what the files say, which is validated before; the run and review  *)
(* tables of the ledger are one here, for items.                             *)
(***************************************************************************)
EXTENDS Integers, FiniteSets

CONSTANTS Item,      \* runs and reviews
          Digest,    \* the contents an item may have
          Dest,      \* the directories beside each other
          Exporter,  \* the processes
          MaxDeaths, \* bound: processes killed
          Nothing

VARIABLES batches,  \* the contents of each directory, or Nothing
          reserved, \* the lock file of each directory
          ledger,  \* where each item was delivered, and with which digest
          writer,  \* who is in the transaction of the ledger
          exp,     \* what each exporter is doing
          deaths

evars == <<batches, reserved, ledger, writer, exp, deaths>>

Batch == [Item -> Digest \union {Nothing}]
Entry == [dest : Dest, digest : Digest]
Export == [at : {"checked", "reserved", "renamed", "written"}, dest : Dest, files : Batch]

ASSUME ExportAssumption == MaxDeaths \in Nat /\ Nothing \notin Digest \union Batch \union Entry \union Exporter \union Export

ETypeOK ==
  /\ batches \in [Dest -> Batch \union {Nothing}]
  /\ reserved \in [Dest -> BOOLEAN]
  /\ ledger \in [Item -> Entry \union {Nothing}]
  /\ writer \in Exporter \union {Nothing}
  /\ exp \in [Exporter -> Export \union {Nothing}]
  /\ deaths \in 0..MaxDeaths

EInit ==
  /\ batches = [d \in Dest |-> Nothing]
  /\ reserved = [d \in Dest |-> FALSE]
  /\ ledger = [i \in Item |-> Nothing]
  /\ writer = Nothing
  /\ exp = [e \in Exporter |-> Nothing]
  /\ deaths = 0

Members(files) == {i \in Item : files[i] # Nothing}

(* An item that was delivered is delivered again to the same directory and with  *)
(* the same digest, or not at all.                                            *)
Deliverable(d, files) ==
  \A i \in Members(files) : ledger[i] \in {Nothing, [dest |-> d, digest |-> files[i]]}

(* Fault: a directory that exists is taken for the batch. *)
ReplayableAnyway(d, files) == batches[d] = Nothing \/ Members(files) # {}

Replayable(d, files) == batches[d] \in {Nothing, files}

(* BEGIN IMMEDIATE, the check of the ledger, and a directory that exists must be   *)
(* the very same batch; otherwise the export is refused and nothing changes.     *)
Begin(e, d, files) ==
  /\ exp[e] = Nothing /\ writer = Nothing
  /\ Deliverable(d, files)
  /\ Replayable(d, files)
  /\ writer' = e
  /\ exp' = [exp EXCEPT ![e] = [at |-> IF batches[d] = Nothing THEN "checked" ELSE "written", dest |-> d, files |-> files]]
  /\ UNCHANGED <<batches, reserved, ledger, deaths>>

Go(e, at) == exp' = [exp EXCEPT ![e].at = at]
At(e, at) == exp[e] # Nothing /\ exp[e].at = at

(* write_directory: the lock file beside the directory is made, the files are    *)
(* staged and the staging directory is renamed, and the lock file removed.      *)
Lock(e) ==
  /\ At(e, "checked") /\ ~reserved[exp[e].dest]
  /\ reserved' = [reserved EXCEPT ![exp[e].dest] = TRUE]
  /\ Go(e, "reserved")
  /\ UNCHANGED <<batches, ledger, writer, deaths>>

Rename(e) ==
  /\ At(e, "reserved")
  /\ batches' = [batches EXCEPT ![exp[e].dest] = exp[e].files]
  /\ Go(e, "renamed")
  /\ UNCHANGED <<reserved, ledger, writer, deaths>>

Unlock(e) ==
  /\ At(e, "renamed")
  /\ reserved' = [reserved EXCEPT ![exp[e].dest] = FALSE]
  /\ Go(e, "written")
  /\ UNCHANGED <<batches, ledger, writer, deaths>>

(* An error while the files are staged removes the lock file, and a lock file that *)
(* somebody left refuses the export; either way the transaction is rolled back.   *)
Abandon(e) ==
  /\ \/ At(e, "checked") /\ reserved[exp[e].dest] /\ UNCHANGED reserved
     \/ At(e, "reserved") /\ reserved' = [reserved EXCEPT ![exp[e].dest] = FALSE]
  /\ exp' = [exp EXCEPT ![e] = Nothing] /\ writer' = Nothing
  /\ UNCHANGED <<batches, ledger, deaths>>

(* INSERT OR IGNORE for every item, and the transaction is committed.            *)
Entered(e) ==
  [i \in Item |-> IF i \in Members(exp[e].files) /\ ledger[i] = Nothing
                  THEN [dest |-> exp[e].dest, digest |-> exp[e].files[i]] ELSE ledger[i]]

Enter(e) ==
  /\ At(e, "written")
  /\ ledger' = Entered(e)
  /\ exp' = [exp EXCEPT ![e] = Nothing] /\ writer' = Nothing
  /\ UNCHANGED <<batches, reserved, deaths>>

Die(e) ==
  /\ exp[e] # Nothing /\ deaths < MaxDeaths
  /\ deaths' = deaths + 1
  /\ exp' = [exp EXCEPT ![e] = Nothing] /\ writer' = Nothing
  /\ UNCHANGED <<batches, reserved, ledger>>

ENext ==
  \E e \in Exporter :
    \/ \E d \in Dest, files \in Batch : Begin(e, d, files)
    \/ Lock(e)
    \/ Rename(e)
    \/ Unlock(e)
    \/ Abandon(e)
    \/ Enter(e)
    \/ Die(e)

ESpec == EInit /\ [][ENext]_evars

----------------------------------------------------------------------------
(* What the ledger says of an item is what the directory holds, and no other     *)
(* contents of that item were ever delivered there; also after a kill.           *)
Recorded ==
  \A i \in Item : ledger[i] # Nothing => batches[ledger[i].dest] # Nothing /\ batches[ledger[i].dest][i] = ledger[i].digest

(* An item is in one directory only, and therefore with one digest: nothing is     *)
(* copied into a second batch and counted twice (export_batch).                 *)
OneDestination ==
  \A i \in Item : Cardinality({d \in Dest : batches[d] # Nothing /\ batches[d][i] # Nothing}) <= 1

(* While an export is being written every item of a finished one is in the ledger:  *)
(* without a kill there is no directory the ledger does not know.               *)
EveryDirectoryKnown ==
  writer = Nothing => \A d \in Dest : batches[d] # Nothing =>
    \A i \in Members(batches[d]) : ledger[i] = [dest |-> d, digest |-> batches[d][i]]

(* An item is delivered to one directory and every directory is known to the       *)
(* ledger, as long as no exporter is killed; the ledger is right also then.       *)
LedgerIsTrue == ETypeOK /\ Recorded /\ (deaths = 0 => OneDestination /\ EveryDirectoryKnown)
=============================================================================
