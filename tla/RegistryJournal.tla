--------------------------- MODULE RegistryJournal ---------------------------
(***************************************************************************)
(* The lifecycle registry: a record (and, for a package, its stored tree)  *)
(* is written first, and then registered by an event.  Under the registry  *)
(* lock the event file, the head, the snapshot and the head that names the *)
(* snapshot are four writes, each of them atomic.  The process may die     *)
(* between any two, or a write may fail.                                   *)
(*                                                                         *)
(* A hash is a number that no other event file has (the event's time of    *)
(* observation is part of what is hashed); the identity of an event is its *)
(* item and its position.                                                  *)
(***************************************************************************)
EXTENDS Naturals, FiniteSets, Sequences

CONSTANTS
  Procs,      \* processes that use one registry directory
  Items,      \* what can be registered
  Imports,    \* the items that are packages
  VersionOf,  \* the name and version of each package
  None,
  MaxEvents,  \* bound: event files ever written
  MaxFaults   \* bound: deaths and failed writes

VARIABLES
  events,     \* the files of events/
  head,       \* state/registry-head.json
  snap,       \* state/registry-snapshot.json
  records,    \* items whose record file exists
  stored,     \* packages whose tree and archive exist
  lock,       \* holder of the flock on lifecycle-registry.lock
  step,       \* what each process has done of its registration
  item,       \* and what it registers
  nextHash,   \* the next unused hash
  acked,      \* events whose append_event has returned
  faults

disk == <<events, head, snap, records, stored>>
vars == <<events, head, snap, records, stored, lock, step, item, nextHash, acked, faults>>

NoSnap == [count |-> 0, hash |-> 0, rows |-> {}]
Steps == {"idle", "begun", "stored", "saved", "locked", "event", "head", "snapshot"}

JInit ==
  /\ events = {} /\ head = [count |-> 0, hash |-> 0, snap |-> NoSnap] /\ snap = NoSnap
  /\ records = {} /\ stored = {} /\ lock = None
  /\ step = [p \in Procs |-> "idle"] /\ item = [p \in Procs |-> None]
  /\ nextHash = 1 /\ acked = {} /\ faults = 0

-----------------------------------------------------------------------------
(* What replay and verify_registry accept.                                 *)

\* The files form one chain, one file for each position, and the head is its end.
Replays ==
  /\ head.count = Cardinality(events)
  /\ \A k \in 1..head.count : \E e \in events :
       /\ e.seq = k
       /\ IF k = 1 THEN e.prev = 0 ELSE \E d \in events : d.seq = k - 1 /\ e.prev = d.hash
  /\ \E e \in events \cup {[seq |-> 0, hash |-> 0]} : e.seq = head.count /\ e.hash = head.hash

\* An item whose record is gone is projected as the bare payload of its event.
Projection == {<<e.item, e.item \in records>> : e \in events}

Linked == head.snap = snap /\ snap.count = head.count /\ snap.hash = head.hash

Verifies == Replays /\ Linked /\ \A e \in events : e.item \in records

-----------------------------------------------------------------------------
(* import_package's checks, and the registration of every other record.    *)

Registered == {i \in Imports : <<i, TRUE>> \in snap.rows}

\* The conflicts are looked for in the snapshot, and before the lock is taken.
Acceptable(i) ==
  /\ i \notin stored
  /\ \A j \in Registered : i # j /\ VersionOf[i] # VersionOf[j]

Begin(p) ==
  /\ step[p] = "idle"
  /\ \E i \in Items :
       /\ i \in Imports => Acceptable(i)
       /\ item' = [item EXCEPT ![p] = i]
       /\ step' = [step EXCEPT ![p] = IF i \in Imports THEN "begun" ELSE "stored"]
  /\ UNCHANGED <<disk, lock, nextHash, acked, faults>>

\* copytree: it fails when the directory appeared since it was looked for.
Store(p) ==
  /\ step[p] = "begun" /\ item[p] \notin stored
  /\ stored' = stored \cup {item[p]}
  /\ step' = [step EXCEPT ![p] = "stored"]
  /\ UNCHANGED <<events, head, snap, records, lock, item, nextHash, acked, faults>>

SaveRecord(p) ==
  /\ step[p] = "stored"
  /\ records' = records \cup {item[p]}
  /\ step' = [step EXCEPT ![p] = "saved"]
  /\ UNCHANGED <<events, head, snap, stored, lock, item, nextHash, acked, faults>>

Acquire(p) ==
  /\ step[p] = "saved" /\ lock = None
  /\ lock' = p
  /\ step' = [step EXCEPT ![p] = "locked"]
  /\ UNCHANGED <<disk, item, nextHash, acked, faults>>

NewEvent(p) == [seq |-> head.count + 1, item |-> item[p], prev |-> head.hash, hash |-> nextHash]

Collides(p) == \E e \in events : e.seq = head.count + 1 /\ e.item = item[p]

WriteEvent(p) ==
  /\ step[p] = "locked" /\ ~Collides(p) /\ nextHash <= MaxEvents
  /\ events' = events \cup {NewEvent(p)}
  /\ nextHash' = nextHash + 1
  /\ step' = [step EXCEPT ![p] = "event"]
  /\ UNCHANGED <<head, snap, records, stored, lock, item, acked, faults>>

\* Fault: the head names an earlier event of the same item.
MineAnywhere(p) == CHOOSE e \in events : e.item = item[p]

\* The event that p has just written.
Mine(p) == CHOOSE e \in events : e.item = item[p] /\ \A d \in events : d.item = e.item => d.hash <= e.hash

WriteHead(p) ==
  /\ step[p] = "event"
  /\ head' = [head EXCEPT !.count = Mine(p).seq, !.hash = Mine(p).hash]
  /\ step' = [step EXCEPT ![p] = "head"]
  /\ UNCHANGED <<events, snap, records, stored, lock, item, nextHash, acked, faults>>

\* rebuild_snapshot replays the whole log first.
WriteSnapshot(p) ==
  /\ step[p] = "head" /\ Replays
  /\ snap' = [count |-> head.count, hash |-> head.hash, rows |-> Projection]
  /\ step' = [step EXCEPT ![p] = "snapshot"]
  /\ UNCHANGED <<events, head, records, stored, lock, item, nextHash, acked, faults>>

Done(p) ==
  /\ step' = [step EXCEPT ![p] = "idle"]
  /\ item' = [item EXCEPT ![p] = None]
  /\ lock' = IF lock = p THEN None ELSE lock

LinkHead(p) ==
  /\ step[p] = "snapshot"
  /\ head' = [head EXCEPT !.snap = snap]
  /\ acked' = acked \cup {e \in events : e.hash = head.hash}
  /\ Done(p)
  /\ UNCHANGED <<events, snap, records, stored, nextHash, faults>>

-----------------------------------------------------------------------------
(* Errors and deaths.                                                      *)

\* An import takes back what it wrote; every other operation leaves its record.
Undo(p) ==
  /\ records' = IF item[p] \in Imports /\ step[p] \notin {"begun", "stored"} THEN records \ {item[p]} ELSE records
  /\ stored' = IF item[p] \in Imports THEN stored \ {item[p]} ELSE stored
  /\ Done(p)
  /\ UNCHANGED <<events, head, snap, nextHash, acked>>

\* The program's own refusals: a busy lock, a file that is there, a log that does not replay.
Refused(p) ==
  /\ \/ step[p] = "begun" /\ item[p] \in stored
     \/ step[p] = "saved" /\ lock # None
     \/ step[p] = "locked" /\ Collides(p)
     \/ step[p] = "head" /\ ~Replays
  /\ Undo(p)
  /\ UNCHANGED faults

\* A write fails.  Under the lock the error is turned into "registry is busy".
WriteFails(p) ==
  /\ step[p] # "idle" /\ faults < MaxFaults
  /\ Undo(p)
  /\ faults' = faults + 1

\* Death: the flock is released, nothing else is undone.
Die(p) ==
  /\ step[p] # "idle" /\ faults < MaxFaults
  /\ Done(p)
  /\ faults' = faults + 1
  /\ UNCHANGED <<disk, nextHash, acked>>

Next == \E p \in Procs :
  \/ Begin(p) \/ Store(p) \/ SaveRecord(p) \/ Acquire(p)
  \/ WriteEvent(p) \/ WriteHead(p) \/ WriteSnapshot(p) \/ LinkHead(p)
  \/ Refused(p) \/ WriteFails(p) \/ Die(p)

Spec == JInit /\ [][Next]_vars

-----------------------------------------------------------------------------
(* Properties.                                                             *)

Event == [seq : 1..MaxEvents, item : Items, prev : 0..MaxEvents, hash : 1..MaxEvents]

\* Type correctness; the holder of the lock is the process inside append_event.
TypeOK ==
  /\ events \subseteq Event /\ acked \subseteq Event
  /\ head.count \in 0..MaxEvents /\ head.hash \in 0..MaxEvents
  /\ records \subseteq Items /\ stored \subseteq Imports
  /\ step \in [Procs -> Steps] /\ item \in [Procs -> Items \cup {None}]
  /\ \A p \in Procs : (lock = p) <=> (step[p] \in {"locked", "event", "head", "snapshot"})

\* An event file that no head names, and that nobody is about to name: a death
\* or a failed write between the two.
Orphaned == Cardinality(events) > head.count + (IF \E p \in Procs : step[p] = "event" THEN 1 ELSE 0)

\* append_event, "recovery still fails closed if a process dies mid-write"
\* (events.py:49-51): a registry that verifies has every event whose append
\* was ever acknowledged, each with the record and the package it announces.
VerifiedIsComplete ==
  Verifies => \A e \in acked : /\ e \in events /\ e.item \in records
                               /\ e.item \in Imports => e.item \in stored

\* No two packages of a registry that verifies share a name and version
\* (import_package, PACKAGE_VERSION_CONTENT_CONFLICT).
\* The code does not keep it: TLC refutes it (README.md, "Statements TLC refutes").
OneContentPerVersion ==
  Verifies => \A d, e \in events :
    {d.item, e.item} \subseteq Imports /\ d.item # e.item => VersionOf[d.item] # VersionOf[e.item]

\* An orphan is never adopted and never overwritten: from then on no append
\* is acknowledged and nothing verifies, whatever is retried.
OrphanIsFinal == [][Orphaned => ~Verifies /\ Orphaned' /\ acked' = acked]_vars

\* Every other interruption heals: the next append that is acknowledged
\* leaves a log that replays and a head that names the snapshot of it.
AckHeals == [][acked' # acked => Replays' /\ Linked']_vars

\* The chain that ends at the head, as a sequence of items.
Committed ==
  LET Named(h) == CHOOSE e \in events \cup {[seq |-> 0, item |-> None, prev |-> 0, hash |-> 0]} : e.hash = h
      hashAt[k \in 0..head.count] ==
        IF k = head.count THEN head.hash ELSE Named(hashAt[k + 1]).prev
  IN [k \in 1..head.count |-> Named(hashAt[k]).item]

AckedLength ==
  IF acked = {} THEN 0 ELSE CHOOSE n \in {e.seq : e \in acked} : \A e \in acked : e.seq <= n

AbstractLog == INSTANCE AppendLog WITH log <- Committed, acked <- AckedLength

\* Whatever dies, fails or races, the chain behind the head is an append-only log.
RefinesAppendLog == AbstractLog!Spec
==============================================================================
