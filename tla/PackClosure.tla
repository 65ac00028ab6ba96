------------------------------ MODULE PackClosure ------------------------------
(***************************************************************************)
(* The exact dependency closure of domain packs: the registry, which scans *)
(* the pack directories once and keeps the paths it found                  *)
(* (domain_packs/registry.py), and the walk that resolves, verifies and    *)
(* labels with a depth what a project needs (domain_packs/resolver.py),    *)
(* with the lock of each pack (domain_packs/locking.py).  Other people     *)
(* edit packs and write their locks while the walk is under way.           *)
(*                                                                         *)
(* A place is a directory of packs: the current one of an id, or one of    *)
(* the version archive, whose name fixes the version.  The content of a    *)
(* pack is the number of the edit that made it: two contents of a place    *)
(* are equal when the digest of the pack is.                               *)
(***************************************************************************)
EXTENDS Naturals, Sequences, SequencesExt, Functions

CONSTANTS
  Ids,          \* the ids of packs, numbers for the order they are sorted in
  Versions,     \* the versions, numbers too
  Places,       \* the directories, <<id, version or Current>>
  Current,      \* marks the directory of an id that is not archived
  InitialPacks, \* the sets of packs to start from: functions from Places
  Projects,     \* what a project may ask for: sets of <<id, version>>
  MaxTouches,   \* edits of packs and locks while the registry lives
  Absent        \* no pack at a place, no scan yet

VARIABLES
  disk,     \* what is on disk: [version, needs, content, lock] or Absent
  touches,  \* the edits made
  roots,    \* what the project asks for
  entries,  \* the paths the registry keeps
  phase,    \* "idle", "walking", "accepted" or "refused"
  stack,    \* the packs under visit, each with what is left of its needs
  selected, \* the version chosen for an id
  resolved, \* the packs read, by the key they were asked for
  depths    \* the label of each key

walk == <<roots, entries, phase, stack, selected, resolved, depths>>

pvars == <<disk, touches, walk>>

Key == Ids \X Versions

KeyOf(n) == <<n.id, n.version>>

\* A manifest that is valid names a version once (domain_packs/validation.py).
Unique(needs) == \A m, n \in needs : KeyOf(m) = KeyOf(n) => m = n

Dependency == [id : Ids, version : Versions, content : Nat]

Pack == [version : Versions, needs : SUBSET Dependency, content : Nat, lock : Nat]

ASSUME PackAssumption ==
  /\ Ids \subseteq Nat /\ Versions \subseteq Nat /\ MaxTouches \in Nat
  /\ Absent \notin Nat /\ Absent \notin Key
  /\ \A p \in Places : p[1] \in Ids
  /\ Projects \subseteq SUBSET Key
  /\ \A d \in InitialPacks :
       d \in [Places -> Pack \cup {Absent}] /\ \A p \in Places : d[p] # Absent => Unique(d[p].needs)

NoKeys == [x \in {} |-> 0]

\* @@ with the new pair first.
Put(f, k, v) == [x \in DOMAIN f \cup {k} |-> IF x = k THEN v ELSE f[x]]

ValueAt(f, k, otherwise) == IF k \in DOMAIN f THEN f[k] ELSE otherwise

KeyAt(p) == <<p[1], disk[p].version>>

Occupied == {p \in Places : disk[p] # Absent}

\* An archived pack has the version of its directory, and no two
\* directories hold the same id and version.
Scannable ==
  /\ \A p \in Occupied : p[2] # Current => disk[p].version = p[2]
  /\ \A p, q \in Occupied : KeyAt(p) = KeyAt(q) => p = q

Entries == [k \in {KeyAt(p) : p \in Occupied} |-> CHOOSE p \in Occupied : KeyAt(p) = k]

\* What is read at the path of a key: the key it was asked for is not
\* compared with the manifest that is read.
ReadAt(p) == [key |-> KeyAt(p), needs |-> disk[p].needs, content |-> disk[p].content]

Readable(k) ==
  /\ k \in DOMAIN entries
  /\ disk[entries[k]] # Absent
  /\ disk[entries[k]].lock = disk[entries[k]].content

Wanted(k) == [id |-> k[1], version |-> k[2], content |-> Absent]

\* Needs are declared in the order of their ids and versions.
Before(m, n) == m.id < n.id \/ (m.id = n.id /\ m.version < n.version)

First(needs) == CHOOSE n \in needs : \A m \in needs \ {n} : Before(n, m)

Top == Last(stack)

UnderVisit == {stack[i].key : i \in DOMAIN stack}

PInit ==
  /\ disk \in InitialPacks /\ touches = 0 /\ roots \in Projects
  /\ entries = Absent /\ phase = "idle" /\ stack = <<>>
  /\ selected = NoKeys /\ resolved = NoKeys /\ depths = NoKeys

--------------------------------------------------------------------------------
\* The first look at the entries scans every directory; later ones do not.
Scan ==
  /\ phase = "idle"
  /\ IF Scannable
     THEN /\ entries' = Entries /\ phase' = "walking"
          /\ stack' = <<[key |-> Absent, left |-> {Wanted(k) : k \in roots}]>>
     ELSE phase' = "refused" /\ UNCHANGED <<entries, stack>>
  /\ UNCHANGED <<disk, touches, roots, selected, resolved, depths>>

Walking == phase = "walking" /\ stack # <<>> /\ Top.left # {}

Need == First(Top.left)

Depth == Len(stack) - 1

Conflicts(n) == ValueAt(selected, n.id, n.version) # n.version

Cyclic(n) == KeyOf(n) \in UnderVisit

Refuse ==
  /\ phase' = "refused"
  /\ UNCHANGED <<disk, touches, roots, entries, stack, selected, resolved, depths>>

\* Another version of the same id, or a key that is being visited.
Contradict ==
  /\ Walking /\ (Conflicts(Need) \/ Cyclic(Need))
  /\ Refuse

\* The deepest visit of a key so far labels it.
Deepest(k) == IF Depth > ValueAt(depths, k, 0) THEN Depth ELSE ValueAt(depths, k, 0)

Labelled(n) ==
  /\ Walking /\ ~Conflicts(n) /\ ~Cyclic(n)
  /\ selected' = Put(selected, n.id, n.version)
  /\ depths' = Put(depths, KeyOf(n), Deepest(KeyOf(n)))

\* Fault: what was read is compared with nothing.
MatchesAlways(n) == TRUE

\* What was read has the content the need was declared with.
Matches(n) == n.content = Absent \/ resolved[KeyOf(n)].content = n.content

Drop(s, n) == [s EXCEPT ![Len(s)].left = @ \ {n}]

\* A key that was resolved before is not visited again: what hangs on it
\* keeps its label.
VisitAgain ==
  /\ Walking
  /\ KeyOf(Need) \in DOMAIN resolved
  /\ Labelled(Need)
  /\ IF Matches(Need)
     THEN stack' = Drop(stack, Need) /\ UNCHANGED phase
     ELSE phase' = "refused" /\ UNCHANGED stack
  /\ UNCHANGED <<disk, touches, roots, entries, resolved>>

\* The pack is read at the path of the scan, validated, and its lock
\* verified; then its own needs are visited.
Visit ==
  /\ Walking
  /\ KeyOf(Need) \notin DOMAIN resolved
  /\ Labelled(Need)
  /\ IF Readable(KeyOf(Need))
     THEN LET pack == ReadAt(entries[KeyOf(Need)])
          IN /\ resolved' = Put(resolved, KeyOf(Need), pack)
             /\ stack' = Append(stack, [key |-> KeyOf(Need), left |-> pack.needs])
             /\ UNCHANGED phase
     ELSE phase' = "refused" /\ UNCHANGED <<resolved, stack>>
  /\ UNCHANGED <<disk, touches, roots, entries>>

\* Everything a pack needs has been visited: its caller compares its content.
Return ==
  /\ phase = "walking" /\ Len(stack) > 1 /\ Top.left = {}
  /\ LET below == Front(stack)
         n == First(Last(below).left)
     IN IF Matches(n)
        THEN stack' = Drop(below, n) /\ UNCHANGED phase
        ELSE phase' = "refused" /\ UNCHANGED stack
  /\ UNCHANGED <<disk, touches, roots, entries, selected, resolved, depths>>

Accept ==
  /\ phase = "walking" /\ Len(stack) = 1 /\ Top.left = {}
  /\ phase' = "accepted"
  /\ UNCHANGED <<disk, touches, roots, entries, stack, selected, resolved, depths>>

--------------------------------------------------------------------------------
\* Somebody touches the pack of a directory: its version, or what is in it.
Edit(p, v) ==
  /\ touches < MaxTouches /\ disk[p] # Absent
  /\ touches' = touches + 1
  /\ disk' = [disk EXCEPT ![p] = [@ EXCEPT !.version = v, !.content = touches + 1]]
  /\ UNCHANGED walk

\* kg-mnp domain-pack lock: the lock of the pack is written again.
LockPack(p) ==
  /\ touches < MaxTouches /\ disk[p] # Absent
  /\ touches' = touches + 1
  /\ disk' = [disk EXCEPT ![p].lock = disk[p].content]
  /\ UNCHANGED walk

Ended == phase \in {"accepted", "refused"} /\ UNCHANGED pvars

PNext ==
  \/ Scan \/ Contradict \/ VisitAgain \/ Visit \/ Return \/ Accept
  \/ \E p \in Places, v \in Versions : Edit(p, v)
  \/ \E p \in Places : LockPack(p)
  \/ Ended

PSpec == PInit /\ [][PNext]_pvars

--------------------------------------------------------------------------------
(* What an accepted closure promises. *)

PTypeOK ==
  /\ disk \in [Places -> Pack \cup {Absent}]
  /\ touches \in 0..MaxTouches /\ roots \in Projects
  /\ phase \in {"idle", "walking", "accepted", "refused"}
  /\ entries = Absent \/ (DOMAIN entries \subseteq Key /\ Range(entries) \subseteq Places)
  /\ DOMAIN selected \subseteq Ids /\ Range(selected) \subseteq Versions
  /\ DOMAIN resolved \subseteq DOMAIN depths /\ DOMAIN depths \subseteq Key /\ Range(depths) \subseteq Nat
  /\ \A i \in DOMAIN stack : stack[i].key \in Key \cup {Absent}

\* A set of keys that lacks nothing its packs need.
Closed(keys, needs) == \A k \in keys \cap DOMAIN needs : \A n \in needs[k] : KeyOf(n) \in keys

\* What can be reached from a set of keys along the needs of some packs.
Reach(start, needs) ==
  LET all == start \cup {KeyOf(n) : n \in UNION Range(needs)}
  IN {k \in all : \A keys \in SUBSET all : start \subseteq keys /\ Closed(keys, needs) => k \in keys}

\* Every need is met with the content it names, one version is chosen of an
\* id, and nothing needs itself.
Consistent(keys, needs, content) ==
  /\ keys \subseteq DOMAIN needs
  /\ \A k \in keys, l \in keys : k[1] = l[1] => k = l
  /\ \A k \in keys : k \notin Reach({KeyOf(n) : n \in needs[k]}, needs)
  /\ \A k \in keys : \A n \in needs[k] : KeyOf(n) \in keys /\ content[KeyOf(n)] = n.content

Needs == [k \in DOMAIN resolved |-> resolved[k].needs]

Contents == [k \in DOMAIN resolved |-> resolved[k].content]

\* What is on disk, by the keys a scan would find.
DiskNeeds == [k \in DOMAIN Entries |-> disk[Entries[k]].needs]

DiskContents == [k \in DOMAIN Entries |-> disk[Entries[k]].content]

\* An accepted closure holds what its roots reach and nothing else, and is
\* consistent, although the walk looks at a pack once, compares along the
\* way and disk are edited in between (resolver.py:27-56).
ClosureIsExact ==
  phase = "accepted" =>
    DOMAIN resolved = Reach(roots, Needs) /\ Consistent(DOMAIN resolved, Needs, Contents)

\* The project has a closure on disk: it is there, consistent and locked.
Sound ==
  LET keys == Reach(roots, DiskNeeds)
  IN /\ Scannable
     /\ Consistent(keys, DiskNeeds, DiskContents)
     /\ \A k \in keys : disk[Entries[k]].lock = DiskContents[k]

\* While nobody edits, the walk accepts exactly the disks whose closure is
\* there, consistent and locked: neither its early return nor the order of
\* its visits lets anything through or refuses anything (resolver.py:27-56,
\* registry.py:54-102).
VerdictIsExact ==
  touches = 0 /\ phase \in {"accepted", "refused"} => (phase = "accepted" <=> Sound)

\* A lock that is accepted is the closure of what the project asks for, also while
\* packs are edited, and while they are not it is accepted exactly when there is one
\* (domain_packs/resolver.py).
AcceptedIsClosed == PTypeOK /\ ClosureIsExact /\ VerdictIsExact

\* The label of a pack is below the label of what it needs
\* (resolver.py:15: "topologically depth-label an exact local closure").
\* The code does not keep it: TLC refutes it (README.md, "Statements TLC refutes").
DepthsAreTopological ==
  phase = "accepted" =>
    \A k \in DOMAIN resolved : \A n \in resolved[k].needs : depths[k] < depths[KeyOf(n)]

\* What is accepted for a key is the pack of that id and version
\* (registry.py:1: "exact-version lookup").
\* The code does not keep it: TLC refutes it (README.md, "Statements TLC refutes").
ExactVersion ==
  phase = "accepted" => \A k \in DOMAIN resolved : resolved[k].key = k
================================================================================
