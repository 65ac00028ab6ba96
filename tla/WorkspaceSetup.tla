----------------------------- MODULE WorkspaceSetup -----------------------------
(***************************************************************************)
(* A project workspace: it is built in a staging directory beside its      *)
(* place and renamed into it (workspace/service.py), it is frozen by a     *)
(* project lock that binds the manifest, both as a file and as what was    *)
(* parsed from it, and the closure of its packs (workspace/locking.py),    *)
(* and it is judged by a validation that computes the lock again           *)
(* (workspace/validation.py), or by a check of the lock.  These read the   *)
(* manifest, the lock, the packs and the manifest's file one after the     *)
(* other.  Other commands set up the same place, edit the manifest or a    *)
(* pack, also back to what it was, write the lock, and are killed.         *)
(*                                                                         *)
(* The content of a manifest and of the closure of its packs is the number *)
(* of the edit that made it; an earlier content that is put back has its   *)
(* earlier number.                                                         *)
(***************************************************************************)
EXTENDS Naturals, FiniteSets

CONSTANTS
  Setups,    \* commands that set up the workspace
  Others,    \* commands that lock or validate it
  Somebody,  \* made what was at the place before
  MaxEdits,  \* edits of the manifest and of the packs
  MaxDeaths, \* commands that are killed
  Empty,     \* an empty directory at the place
  None       \* nothing at the place, nothing read

ASSUME SetupAssumption ==
  MaxEdits \in Nat /\ MaxDeaths \in Nat /\ Setups \cap Others = {} /\ Somebody \notin Setups

VARIABLES
  place,   \* None, Empty, or a workspace [by, manifest, lock]
  staged,  \* the setups whose staging directory is there
  frozen,  \* the packs in the lock of a staged workspace
  packs,   \* the content of the closure of the packs
  at,      \* where each command is
  read,    \* what a command that locks or judges has read, in this order:
           \* parsed, lock, packs, file; and then, what there was when it
           \* read the lock
  verdict, \* the last reading that was found valid
  back,    \* of manifest and packs, which were put back
  edits, deaths

vars == <<place, staged, frozen, packs, at, read, verdict, back, edits, deaths>>

setups == <<staged, frozen>>

readings == <<read, verdict>>

edited == <<back, edits>>

Workspace == place \notin {None, Empty}

\* What a lock freezes: the manifest file as it is, what was parsed from it,
\* and the packs as they were resolved.
Built(closure, file, parsed) == [file |-> file, parsed |-> parsed, packs |-> closure]

Unread == [parsed |-> None, lock |-> None, then |-> None, packs |-> None, file |-> None]

Init ==
  /\ place \in {None, Empty, [by |-> Somebody, manifest |-> 0, lock |-> None]}
  /\ staged = {} /\ frozen = [c \in Setups |-> None] /\ packs = 0
  /\ at = [c \in Setups \cup Others |-> "idle"]
  /\ read = [c \in Others |-> Unread] /\ verdict = [c \in Others |-> None]
  /\ back = {} /\ edits = 0 /\ deaths = 0

Go(c, to) == at' = [at EXCEPT ![c] = to]

--------------------------------------------------------------------------------
(* initialize_workspace *)

\* A directory with something in it is refused before anything is written.
Acceptable == ~Workspace

Look(c) ==
  /\ at[c] = "idle"
  /\ IF Acceptable THEN Go(c, "accepted") ELSE Go(c, "refused")
  /\ UNCHANGED <<place, setups, packs, readings, edited, deaths>>

\* The layout, the manifest and the lock are written in the staging directory.
Stage(c) ==
  /\ at[c] = "accepted"
  /\ staged' = staged \cup {c} /\ frozen' = [frozen EXCEPT ![c] = packs]
  /\ Go(c, "staged")
  /\ UNCHANGED <<place, packs, readings, edited, deaths>>

\* rmdir takes an empty directory away and fails on any other.
Clear(c) ==
  /\ at[c] = "staged"
  /\ ~Workspace
  /\ place' = None /\ Go(c, "cleared")
  /\ UNCHANGED <<setups, packs, readings, edited, deaths>>

\* rename takes the place of nothing or of an empty directory.
Replaceable == place \in {None, Empty}

Install(c) ==
  /\ at[c] = "cleared"
  /\ Replaceable
  /\ place' = [by |-> c, manifest |-> 0, lock |-> Built(frozen[c], 0, 0)]
  /\ staged' = staged \ {c} /\ Go(c, "done")
  /\ UNCHANGED <<frozen, packs, readings, edited, deaths>>

\* Any error takes the staging directory away.
Removed(c) == staged \ {c}

Rollback(c) ==
  /\ at[c] \in {"staged", "cleared"}
  /\ staged' = Removed(c) /\ Go(c, "refused")
  /\ UNCHANGED <<place, frozen, packs, readings, edited, deaths>>

--------------------------------------------------------------------------------
(* generate_project_lock, also as a check, and validate_workspace *)

Reading == {"locking", "checking", "judging"}

Reads(c, part, value) == read' = [read EXCEPT ![c][part] = value]

Ends(c) == Go(c, "idle") /\ read' = [read EXCEPT ![c] = Unread]

\* Each parses the manifest first.
Parse(c) ==
  /\ at[c] = "idle" /\ Workspace
  /\ Reads(c, "parsed", place.manifest)
  /\ \E to \in Reading : Go(c, to)
  /\ UNCHANGED <<place, setups, packs, verdict, edited, deaths>>

\* A validation reads the lock before it computes its own, and ends without one.
LoadLock(c) ==
  /\ at[c] = "judging" /\ read[c].lock = None /\ Workspace
  /\ IF place.lock = None THEN Ends(c)
     ELSE /\ read' = [read EXCEPT ![c].lock = place.lock,
                                  ![c].then = [manifest |-> place.manifest, packs |-> packs]]
          /\ UNCHANGED at
  /\ UNCHANGED <<place, setups, packs, verdict, edited, deaths>>

\* build_project_lock: the packs, then the file.
Resolve(c) ==
  /\ at[c] \in Reading /\ read[c].packs = None
  /\ at[c] = "judging" => read[c].lock # None
  /\ Reads(c, "packs", packs)
  /\ UNCHANGED <<place, setups, packs, at, verdict, edited, deaths>>

HashFile(c) ==
  /\ at[c] \in Reading /\ read[c].packs # None /\ read[c].file = None /\ Workspace
  /\ Reads(c, "file", place.manifest)
  /\ UNCHANGED <<place, setups, packs, at, verdict, edited, deaths>>

\* Fault: what was parsed is hashed as the file.
ExpectedParsed(c) == Built(read[c].packs, read[c].parsed, read[c].parsed)

Expected(c) == Built(read[c].packs, read[c].file, read[c].parsed)

Ready(c, kind) == at[c] = kind /\ read[c].file # None /\ Workspace

WriteLock(c) ==
  /\ Ready(c, "locking")
  /\ place' = [place EXCEPT !.lock = Expected(c)]
  /\ Ends(c)
  /\ UNCHANGED <<setups, packs, verdict, edited, deaths>>

Answers(c, lock, then) ==
  /\ verdict' = IF lock = Expected(c)
                THEN [verdict EXCEPT ![c] = [how |-> at[c], lock |-> lock, then |-> then]]
                ELSE verdict
  /\ Ends(c)
  /\ UNCHANGED <<place, setups, packs, edited, deaths>>

\* A check reads the lock after it has computed its own.
CheckLock(c) ==
  /\ Ready(c, "checking")
  /\ Answers(c, place.lock, [manifest |-> place.manifest, packs |-> packs])

Judge(c) ==
  /\ Ready(c, "judging")
  /\ Answers(c, read[c].lock, read[c].then)

--------------------------------------------------------------------------------
Makes(what, from, to) ==
  /\ edits < MaxEdits /\ to # from
  /\ edits' = edits + 1
  /\ back' = IF to = edits + 1 THEN back ELSE back \cup {what}

EditManifest(m) ==
  /\ Workspace /\ Makes("manifest", place.manifest, m)
  /\ place' = [place EXCEPT !.manifest = m]
  /\ UNCHANGED <<setups, packs, at, readings, deaths>>

EditPacks(m) ==
  /\ Makes("packs", packs, m)
  /\ packs' = m
  /\ UNCHANGED <<place, setups, at, readings, deaths>>

Die(c) ==
  /\ deaths < MaxDeaths /\ at[c] \in {"accepted", "staged", "cleared"}
  /\ deaths' = deaths + 1 /\ Go(c, "dead")
  /\ UNCHANGED <<place, setups, packs, readings, edited>>

Finished == (\A c \in Setups : at[c] \in {"done", "refused", "dead"}) /\ UNCHANGED vars

Next ==
  \/ \E c \in Setups : Look(c) \/ Stage(c) \/ Clear(c) \/ Install(c) \/ Rollback(c) \/ Die(c)
  \/ \E c \in Others : \/ Parse(c) \/ LoadLock(c) \/ Resolve(c) \/ HashFile(c)
                       \/ WriteLock(c) \/ CheckLock(c) \/ Judge(c)
  \/ \E m \in 0..edits + 1 : EditManifest(m) \/ EditPacks(m)
  \/ Finished

Spec == Init /\ [][Next]_vars

--------------------------------------------------------------------------------
(* What holds of a workspace. *)

Locks == [file : 0..MaxEdits, parsed : 0..MaxEdits, packs : 0..MaxEdits]

Workspaces == [by : Setups \cup {Somebody}, manifest : 0..MaxEdits, lock : Locks \cup {None}]

Moments == [manifest : 0..MaxEdits, packs : 0..MaxEdits]

Readings ==
  [parsed : 0..MaxEdits \cup {None}, lock : Locks \cup {None}, then : Moments \cup {None},
   packs : 0..MaxEdits \cup {None}, file : 0..MaxEdits \cup {None}]

TypeOK ==
  /\ place \in {None, Empty} \cup Workspaces
  /\ staged \subseteq Setups /\ packs \in 0..MaxEdits
  /\ frozen \in [Setups -> 0..MaxEdits \cup {None}]
  /\ at \in [Setups \cup Others -> {"idle", "accepted", "staged", "cleared", "done",
                                    "refused", "dead"} \cup Reading]
  /\ read \in [Others -> Readings]
  /\ verdict \in [Others -> [how : {"checking", "judging"}, lock : Locks, then : Moments] \cup {None}]
  /\ back \subseteq {"manifest", "packs"}
  /\ edits \in 0..MaxEdits /\ deaths \in 0..MaxDeaths

ASSUME ValuesAssumption ==
  /\ Empty # None /\ {None, Empty} \cap Workspaces = {}
  /\ None \notin Locks /\ None \notin Moments /\ None \notin 0..MaxEdits

\* Whoever reports that the workspace is set up has set up the one that is
\* there: of several commands at most one succeeds, and what somebody else
\* had put there is never replaced (service.py:87-91, :127-129).
DoneIsThere == \A c \in Setups : at[c] = "done" => Workspace /\ place.by = c

\* A workspace stays the workspace of the command that made it
\* (service.py:127-129).
WorkspaceStays == [][Workspace => Workspace' /\ place'.by = place.by]_vars

\* A staging directory belongs to a command that is still at work, or that
\* was killed (service.py:133-139).
StagingIsOwned == \A c \in staged : at[c] \in {"staged", "cleared", "dead"}

\* A validation finds a workspace valid only when the lock it read froze the
\* manifest file and the packs there were when it read it, unless they were put
\* back in between: although the manifest was parsed earlier by the command that
\* locked and by the one that judges, and its own packs and file are read later,
\* while others edit and lock (locking.py:99-105, :124-126, validation.py:79-90).
ValidIsFrozen ==
  \A c \in Others : verdict[c] # None /\ verdict[c].how = "judging" =>
    /\ verdict[c].lock.file = verdict[c].then.manifest \/ "manifest" \in back
    /\ verdict[c].lock.packs = verdict[c].then.packs \/ "packs" \in back

\* What a lock that is found valid says of the manifest it says of one manifest:
\* the file it hashes is the file it was parsed from (locking.py:76-77).
ValidIsOneManifest ==
  \A c \in Others : verdict[c] # None => verdict[c].lock.parsed = verdict[c].lock.file

\* A check, too, finds a lock current only when it freezes the packs that are
\* there (locking.py:99-103).
CheckedIsFrozen ==
  \A c \in Others : verdict[c] # None =>
    verdict[c].lock.packs = verdict[c].then.packs \/ "packs" \in back
================================================================================
