--------------------------- MODULE WorkspaceProofs ---------------------------
(***************************************************************************)
(* Proofs about WorkspaceSetup, for any number of commands, edits and      *)
(* deaths, about ExactAuthority, for any number of replaced trees, about   *)
(* PackClosure, for any packs and any number of edits, about Uploads, for  *)
(* any requests, deaths and failed writes, and about WorkspaceCommit, for  *)
(* any processes, runs, builds and faults.                                 *)
(***************************************************************************)
EXTENDS WorkspaceSetup, ExactAuthority, PackClosure, Uploads, WorkspaceCommit, SequenceTheorems, WellFoundedInduction, TLAPS

\* What a command has read, it has read in its order, and the place it reads is a
\* workspace and stays one.
ReadInOrder ==
  \A c \in Others :
    /\ at[c] \in Reading => Workspace /\ read[c].parsed # None
    /\ at[c] \notin Reading => read[c] = Unread
    /\ read[c].lock # None => at[c] = "judging" /\ read[c].then # None
    /\ at[c] = "judging" /\ read[c].packs # None => read[c].lock # None
    /\ read[c].file # None => read[c].packs # None /\ Workspace

\* While the packs are not put back their contents only grow, in every place
\* where one has been kept.
PacksGrow ==
  "packs" \notin back =>
    /\ packs <= edits
    /\ Workspace /\ place.lock # None => place.lock.packs <= packs
    /\ \A s \in Setups : frozen[s] # None => frozen[s] <= packs
    /\ \A c \in Others :
         /\ read[c].packs # None => read[c].packs <= packs
         /\ read[c].lock # None =>
              /\ read[c].lock.packs <= read[c].then.packs /\ read[c].then.packs <= packs
              /\ read[c].packs # None => read[c].then.packs <= read[c].packs

\* So do those of the manifest.
ManifestGrows ==
  "manifest" \notin back =>
    /\ Workspace => place.manifest <= edits
    /\ Workspace /\ place.lock # None => place.lock.file <= place.manifest
    /\ \A c \in Others :
         /\ read[c].file # None => read[c].file <= place.manifest
         /\ read[c].lock # None =>
              /\ Workspace
              /\ read[c].lock.file <= read[c].then.manifest /\ read[c].then.manifest <= place.manifest
              /\ read[c].file # None => read[c].then.manifest <= read[c].file

\* A staged workspace has its lock.
Locked == \A c \in Setups : at[c] \in {"staged", "cleared"} => frozen[c] # None

\* The inductive invariant.
IInv ==
  /\ TypeOK /\ DoneIsThere /\ StagingIsOwned /\ ValidIsFrozen
  /\ Locked /\ ReadInOrder /\ PacksGrow /\ ManifestGrows

LEMMA InitInv == Init => IInv
<1> SUFFICES ASSUME Init PROVE IInv
  OBVIOUS
<1>1. Unread \in Readings
  BY DEF Unread, Readings
<1>2. \A c \in Others : read[c] = Unread
  BY DEF Init
<1>3. /\ Unread.parsed = None /\ Unread.lock = None /\ Unread.then = None /\ Unread.packs = None
      /\ Unread.file = None
  BY DEF Unread
<1>4. Workspace => place.manifest = 0 /\ place.lock = None
  BY DEF Init, Workspace
<1>5. TypeOK
  BY <1>1, SetupAssumption DEF Init, TypeOK, Workspaces, Reading
<1>6. DoneIsThere /\ StagingIsOwned /\ ValidIsFrozen /\ Locked
  BY SetupAssumption DEF Init, DoneIsThere, StagingIsOwned, ValidIsFrozen, Locked
<1>7. ReadInOrder
  BY <1>2, <1>3, SetupAssumption DEF Init, ReadInOrder, Reading
<1>8. PacksGrow /\ ManifestGrows
  BY <1>2, <1>3, <1>4, SetupAssumption DEF Init, PacksGrow, ManifestGrows
<1> QED
  BY <1>5, <1>6, <1>7, <1>8 DEF IInv

\* What is at the place is a workspace or nothing worth the name.
LEMMA PlaceIsWorkspace == ASSUME TypeOK, Workspace PROVE place \in Workspaces
BY DEF TypeOK, Workspace

LEMMA WorkspaceIs == ASSUME NEW w \in Workspaces PROVE w \notin {None, Empty}
BY ValuesAssumption

\* A setup disturbs no reading; only its rename touches the place of a workspace.
LEMMA SetupInv ==
  ASSUME IInv, NEW c \in Setups,
         Look(c) \/ Stage(c) \/ Clear(c) \/ Install(c) \/ Rollback(c) \/ Die(c)
  PROVE  IInv'
<1> USE DEF IInv, setups, readings, edited
<1>1. c \in Setups \cup Others /\ c \notin Others
  BY SetupAssumption
<1>2. UNCHANGED <<read, verdict, packs, back, edits>> /\ \A d \in Others : at'[d] = at[d]
  BY <1>1 DEF Look, Stage, Clear, Install, Rollback, Die, Go, TypeOK
<1>3. ValidIsFrozen'
  BY <1>2 DEF ValidIsFrozen
<1>4. Workspace => Workspace' /\ place' = place
  BY DEF Look, Stage, Clear, Install, Replaceable, Rollback, Die, Workspace
<1>5. ReadInOrder'
  <2>1. \A d \in Others : at'[d] \in Reading => Workspace'
    BY <1>2, <1>4 DEF ReadInOrder
  <2>2. \A d \in Others : read[d].file # None => Workspace'
    BY <1>4 DEF ReadInOrder
  <2> QED
    BY <1>2, <2>1, <2>2 DEF ReadInOrder
<1>6. CASE Install(c)
  <2>1. frozen[c] \in 0..MaxEdits /\ ~Workspace
    BY <1>6 DEF Install, TypeOK, Locked, Replaceable, Workspace
  <2>2. Built(frozen[c], 0, 0) \in Locks
    BY <2>1, SetupAssumption DEF Built, Locks
  <2>3. /\ place' \in Workspaces /\ place'.by = c /\ place'.manifest = 0
        /\ place'.lock = Built(frozen[c], 0, 0)
    BY <1>6, <2>2, SetupAssumption DEF Install, Workspaces
  <2>4. place'.lock.packs = frozen[c] /\ place'.lock.file = 0
    BY <2>3 DEF Built
  <2>5. TypeOK'
    BY <1>1, <1>6, <2>3 DEF Install, Go, TypeOK
  <2>6. DoneIsThere'
    <3>1. \A d \in Setups : at[d] # "done"
      BY <2>1 DEF DoneIsThere
    <3> QED
      BY <1>1, <1>6, <2>3, <3>1, WorkspaceIs DEF Install, Go, TypeOK, DoneIsThere, Workspace
  <2>7. StagingIsOwned' /\ Locked'
    BY <1>1, <1>6 DEF Install, Go, TypeOK, StagingIsOwned, Locked
  <2>8. PacksGrow'
    <3>1. UNCHANGED frozen /\ frozen[c] # None
      BY <1>6, <2>1, ValuesAssumption DEF Install
    <3>2. "packs" \notin back => place'.lock.packs <= packs
      BY <2>4, <3>1 DEF PacksGrow
    <3> QED
      BY <1>2, <3>1, <3>2 DEF PacksGrow
  <2>9. ManifestGrows'
    <3>1. \A d \in Others : read[d].file = None /\ ("manifest" \notin back => read[d].lock = None)
      BY <2>1 DEF ReadInOrder, ManifestGrows
    <3> QED
      BY <1>2, <2>3, <2>4, <3>1 DEF ManifestGrows, TypeOK
  <2> QED
    BY <1>3, <1>5, <2>5, <2>6, <2>7, <2>8, <2>9
<1>7. CASE ~Install(c)
  <2>1. place' = place \/ (~Workspace /\ ~Workspace' /\ place' = None)
    BY <1>7 DEF Look, Stage, Clear, Rollback, Die, Workspace
  <2>2. Workspace' <=> Workspace
    BY <2>1 DEF Workspace
  <2>3. TypeOK'
    <3>1. UNCHANGED frozen \/ frozen' = [frozen EXCEPT ![c] = packs]
      BY <1>7 DEF Look, Stage, Clear, Rollback, Die
    <3>2. frozen' \in [Setups -> 0..MaxEdits \cup {None}]
      BY <3>1 DEF TypeOK
    <3>3. deaths' \in 0..MaxDeaths
      BY <1>7, SetupAssumption DEF Look, Stage, Clear, Rollback, Die, TypeOK
    <3>4. staged' \subseteq Setups
      BY <1>7 DEF Look, Stage, Clear, Rollback, Removed, Die, TypeOK
    <3>5. at' \in [Setups \cup Others -> {"idle", "accepted", "staged", "cleared", "done",
                                         "refused", "dead"} \cup Reading]
      BY <1>1, <1>7 DEF Look, Stage, Clear, Rollback, Die, Go, TypeOK
    <3> QED
      BY <1>2, <2>1, <3>2, <3>3, <3>4, <3>5 DEF TypeOK
  <2>4. DoneIsThere'
    <3>1. \A d \in Setups : at'[d] = "done" => at[d] = "done"
      BY <1>1, <1>7 DEF Look, Stage, Clear, Rollback, Die, Go, TypeOK
    <3> QED
      BY <2>1, <2>2, <3>1 DEF DoneIsThere, Workspace
  <2>5. StagingIsOwned'
    BY <1>1, <1>7 DEF Look, Stage, Clear, Rollback, Removed, Die, Go, TypeOK, StagingIsOwned
  <2>6. Locked'
    <3>1. CASE Stage(c)
      <4>1. packs # None
        BY ValuesAssumption DEF TypeOK
      <4> QED
        BY <1>1, <3>1, <4>1 DEF Stage, Go, TypeOK, Locked
    <3>2. CASE ~Stage(c)
      BY <1>1, <1>7, <3>2 DEF Look, Clear, Rollback, Die, Go, TypeOK, Locked
    <3> QED
      BY <3>1, <3>2
  <2>7. PacksGrow'
    <3>1. UNCHANGED frozen \/ frozen' = [frozen EXCEPT ![c] = packs]
      BY <1>7 DEF Look, Stage, Clear, Rollback, Die
    <3>2. "packs" \notin back => \A s \in Setups : frozen'[s] # None => frozen'[s] <= packs
      BY <3>1 DEF TypeOK, PacksGrow
    <3>3. Workspace => place' = place
      BY <1>4
    <3> QED
      BY <1>2, <2>2, <3>2, <3>3 DEF PacksGrow
  <2>8. ManifestGrows'
    <3>1. Workspace => place' = place
      BY <1>4
    <3>2. \A d \in Others : read[d].file # None => Workspace
      BY DEF ReadInOrder
    <3> QED
      BY <1>2, <2>2, <3>1, <3>2 DEF ManifestGrows
  <2> QED
    BY <1>3, <1>5, <2>3, <2>4, <2>5, <2>6, <2>7, <2>8
<1> QED
  BY <1>6, <1>7

\* The steps of a reading change it in one place.
Has(c, p, l, t, k, f) ==
  /\ read'[c].parsed = p /\ read'[c].lock = l /\ read'[c].then = t
  /\ read'[c].packs = k /\ read'[c].file = f
  /\ \A d \in Others \ {c} : read'[d] = read[d]

LEMMA ReadParsed ==
  ASSUME TypeOK, NEW c \in Others, NEW v \in 0..MaxEdits, Reads(c, "parsed", v)
  PROVE  /\ read' \in [Others -> Readings]
         /\ Has(c, v, read[c].lock, read[c].then, read[c].packs, read[c].file)
BY DEF TypeOK, Reads, Readings, Has

LEMMA ReadPacks ==
  ASSUME TypeOK, NEW c \in Others, NEW v \in 0..MaxEdits, Reads(c, "packs", v)
  PROVE  /\ read' \in [Others -> Readings]
         /\ Has(c, read[c].parsed, read[c].lock, read[c].then, v, read[c].file)
BY DEF TypeOK, Reads, Readings, Has

LEMMA ReadFile ==
  ASSUME TypeOK, NEW c \in Others, NEW v \in 0..MaxEdits, Reads(c, "file", v)
  PROVE  /\ read' \in [Others -> Readings]
         /\ Has(c, read[c].parsed, read[c].lock, read[c].then, read[c].packs, v)
BY DEF TypeOK, Reads, Readings, Has

LEMMA ReadLock ==
  ASSUME TypeOK, NEW c \in Others, NEW l \in Locks, NEW t \in Moments,
         read' = [read EXCEPT ![c].lock = l, ![c].then = t]
  PROVE  /\ read' \in [Others -> Readings]
         /\ Has(c, read[c].parsed, l, t, read[c].packs, read[c].file)
BY DEF TypeOK, Readings, Has

LEMMA ReadingEnds ==
  ASSUME TypeOK, NEW c \in Others, Ends(c)
  PROVE  /\ read' \in [Others -> Readings] /\ Has(c, None, None, None, None, None)
         /\ at' \in [Setups \cup Others -> {"idle", "accepted", "staged", "cleared", "done",
                                           "refused", "dead"} \cup Reading]
         /\ at'[c] = "idle" /\ \A d \in (Setups \cup Others) \ {c} : at'[d] = at[d]
BY DEF TypeOK, Ends, Go, Unread, Readings, Has

\* What such a step leaves alone, it leaves as it was.
LEMMA OnlyReads ==
  ASSUME IInv, NEW c \in Others, UNCHANGED <<place, setups, packs, edited, deaths>>,
         \A d \in Setups : at'[d] = at[d]
  PROVE  DoneIsThere' /\ StagingIsOwned' /\ Locked'
BY DEF IInv, TypeOK, setups, DoneIsThere, StagingIsOwned, Locked, Workspace

LEMMA ParseInv == ASSUME IInv, NEW c \in Others, Parse(c) PROVE IInv'
<1> USE DEF IInv, setups, edited
<1>1. c \in Setups \cup Others /\ c \notin Setups
  BY SetupAssumption
<1>2. place \in Workspaces /\ place.manifest \in 0..MaxEdits
  BY PlaceIsWorkspace DEF Parse, Workspaces
<1>3. /\ read' \in [Others -> Readings]
      /\ Has(c, place.manifest, read[c].lock, read[c].then, read[c].packs, read[c].file)
  BY <1>2, ReadParsed DEF Parse
<1>4. PICK to \in Reading : Go(c, to)
  BY DEF Parse
<1>5. /\ at' \in [Setups \cup Others -> {"idle", "accepted", "staged", "cleared", "done",
                                        "refused", "dead"} \cup Reading]
      /\ at[c] = "idle" /\ at'[c] = to /\ \A d \in (Setups \cup Others) \ {c} : at'[d] = at[d]
  BY <1>1, <1>4 DEF Parse, Go, TypeOK
<1>6. TypeOK'
  BY <1>3, <1>5 DEF Parse, TypeOK
<1>7. DoneIsThere' /\ StagingIsOwned' /\ Locked' /\ ValidIsFrozen'
  BY <1>1, <1>5, OnlyReads DEF Parse, ValidIsFrozen
<1>8. /\ read'[c].lock = None /\ read'[c].packs = None /\ read'[c].file = None
      /\ read'[c].parsed # None
  BY <1>2, <1>3, <1>5, ValuesAssumption DEF ReadInOrder, Unread, Has, Reading
<1>9. ReadInOrder'
  BY <1>3, <1>5, <1>8 DEF Parse, ReadInOrder, Has, Workspace
<1>10. PacksGrow' /\ ManifestGrows'
  BY <1>3, <1>8 DEF Parse, PacksGrow, ManifestGrows, Has, Workspace
<1> QED
  BY <1>6, <1>7, <1>9, <1>10

\* Steps that go on reading.
LEMMA ReadingGoesOn ==
  ASSUME IInv, NEW c \in Others, UNCHANGED <<place, setups, packs, at, verdict, edited, deaths>>,
         read' \in [Others -> Readings]
  PROVE  TypeOK' /\ DoneIsThere' /\ StagingIsOwned' /\ Locked' /\ ValidIsFrozen'
<1>1. TypeOK'
  BY DEF IInv, setups, edited, TypeOK
<1>2. ValidIsFrozen'
  BY DEF IInv, edited, ValidIsFrozen
<1> QED
  BY <1>1, <1>2, OnlyReads

LEMMA ResolveInv == ASSUME IInv, NEW c \in Others, Resolve(c) PROVE IInv'
<1> USE DEF IInv, setups, edited
<1>1. /\ read' \in [Others -> Readings]
      /\ Has(c, read[c].parsed, read[c].lock, read[c].then, packs, read[c].file)
  BY ReadPacks DEF Resolve, TypeOK
<1>2. TypeOK' /\ DoneIsThere' /\ StagingIsOwned' /\ Locked' /\ ValidIsFrozen'
  BY <1>1, ReadingGoesOn DEF Resolve
<1>3. read[c].file = None /\ packs # None /\ UNCHANGED <<at, place, packs, back, edits, frozen>>
  BY ValuesAssumption DEF Resolve, ReadInOrder, TypeOK
<1>4. ReadInOrder'
  BY <1>1, <1>3 DEF Resolve, ReadInOrder, Has, Workspace
<1>5. PacksGrow'
  BY <1>1, <1>3 DEF Resolve, PacksGrow, Has, Workspace, TypeOK
<1>6. ManifestGrows'
  BY <1>1, <1>3 DEF ManifestGrows, Has, Workspace
<1> QED
  BY <1>2, <1>4, <1>5, <1>6

LEMMA HashFileInv == ASSUME IInv, NEW c \in Others, HashFile(c) PROVE IInv'
<1> USE DEF IInv, setups, edited
<1>1. place \in Workspaces /\ place.manifest \in 0..MaxEdits /\ Workspace
  BY PlaceIsWorkspace DEF HashFile, Workspaces
<1>2. /\ read' \in [Others -> Readings]
      /\ Has(c, read[c].parsed, read[c].lock, read[c].then, read[c].packs, place.manifest)
  BY <1>1, ReadFile DEF HashFile
<1>3. TypeOK' /\ DoneIsThere' /\ StagingIsOwned' /\ Locked' /\ ValidIsFrozen'
  BY <1>2, ReadingGoesOn DEF HashFile
<1>4. place.manifest # None /\ UNCHANGED <<at, place, packs, back, edits, frozen>>
  BY <1>1, ValuesAssumption DEF HashFile
<1>5. ReadInOrder'
  BY <1>1, <1>2, <1>4 DEF HashFile, ReadInOrder, Has, Workspace
<1>6. PacksGrow'
  BY <1>2, <1>4 DEF PacksGrow, Has, Workspace
<1>7. ManifestGrows'
  BY <1>1, <1>2, <1>4 DEF ManifestGrows, Has, Workspace
<1> QED
  BY <1>3, <1>5, <1>6, <1>7

\* A reading that is over leaves nothing behind.
LEMMA EndsInv ==
  ASSUME IInv, NEW c \in Others, Ends(c), UNCHANGED <<setups, packs, edited, deaths>>, UNCHANGED place
  PROVE  /\ ReadInOrder' /\ PacksGrow' /\ ManifestGrows' /\ DoneIsThere' /\ StagingIsOwned' /\ Locked'
         /\ (verdict' = verdict => TypeOK')
<1> USE DEF IInv, setups, edited
<1>1. c \in Setups \cup Others /\ c \notin Setups
  BY SetupAssumption
<1>2. read' \in [Others -> Readings] /\ Has(c, None, None, None, None, None)
  BY ReadingEnds
<1>3. /\ at' \in [Setups \cup Others -> {"idle", "accepted", "staged", "cleared", "done",
                                        "refused", "dead"} \cup Reading]
      /\ at'[c] = "idle" /\ \A d \in (Setups \cup Others) \ {c} : at'[d] = at[d]
  BY ReadingEnds
<1>4. verdict' = verdict => TypeOK'
  BY <1>2, <1>3 DEF TypeOK
<1>5. DoneIsThere' /\ StagingIsOwned' /\ Locked'
  BY <1>1, <1>3, OnlyReads
<1>6. read'[c] = Unread
  BY DEF Ends, TypeOK
<1>7. ReadInOrder'
  BY <1>2, <1>3, <1>6 DEF ReadInOrder, Has, Workspace, Reading
<1>8. PacksGrow'
  BY <1>2 DEF PacksGrow, Has, Workspace
<1>9. ManifestGrows'
  BY <1>2 DEF ManifestGrows, Has, Workspace
<1> QED
  BY <1>4, <1>5, <1>7, <1>8, <1>9

LEMMA LoadLockInv == ASSUME IInv, NEW c \in Others, LoadLock(c) PROVE IInv'
<1> USE DEF IInv, setups, edited
<1>1. place \in Workspaces /\ Workspace
  BY PlaceIsWorkspace DEF LoadLock
<1>2. CASE place.lock = None
  <2>1. Ends(c) /\ UNCHANGED <<place, setups, packs, verdict, edited, deaths>>
    BY <1>2 DEF LoadLock
  <2>2. ValidIsFrozen'
    BY <2>1 DEF ValidIsFrozen
  <2> QED
    BY <2>1, <2>2, EndsInv
<1>3. CASE place.lock # None
  <2> DEFINE t == [manifest |-> place.manifest, packs |-> packs]
  <2>1. place.lock \in Locks /\ t \in Moments /\ t # None
    BY <1>1, <1>3, ValuesAssumption DEF Workspaces, Moments, TypeOK
  <2>2. /\ read' = [read EXCEPT ![c].lock = place.lock, ![c].then = t]
        /\ UNCHANGED <<place, setups, packs, at, verdict, edited, deaths>>
    BY <1>3 DEF LoadLock
  <2>3. t.manifest = place.manifest /\ t.packs = packs
    OBVIOUS
  <2> HIDE DEF t
  <2>4. /\ read' \in [Others -> Readings]
        /\ Has(c, read[c].parsed, place.lock, t, read[c].packs, read[c].file)
    BY <2>1, <2>2, ReadLock
  <2>5. TypeOK' /\ DoneIsThere' /\ StagingIsOwned' /\ Locked' /\ ValidIsFrozen'
    BY <2>2, <2>4, ReadingGoesOn
  <2>6. at[c] = "judging" /\ read[c].packs = None /\ read[c].file = None
    BY DEF LoadLock, ReadInOrder
  <2>7. ReadInOrder'
    BY <1>1, <2>1, <2>2, <2>4, <2>6 DEF ReadInOrder, Has, Workspace, Reading
  <2>8. PacksGrow'
    BY <1>1, <1>3, <2>2, <2>3, <2>4, <2>6 DEF PacksGrow, Has, Workspace, TypeOK
  <2>9. ManifestGrows'
    BY <1>1, <1>3, <2>2, <2>3, <2>4, <2>6 DEF ManifestGrows, Has, Workspace, TypeOK, Workspaces
  <2> QED
    BY <2>5, <2>7, <2>8, <2>9
<1> QED
  BY <1>2, <1>3

\* What a command has read in full makes a lock.
LEMMA LockBuilt ==
  ASSUME IInv, NEW c \in Others, read[c].file # None, at[c] \in Reading
  PROVE  /\ Expected(c) \in Locks /\ read[c].packs \in 0..MaxEdits /\ read[c].file \in 0..MaxEdits
         /\ Expected(c).packs = read[c].packs /\ Expected(c).file = read[c].file
<1>1. read[c].parsed # None /\ read[c].packs # None /\ read[c] \in Readings
  BY DEF IInv, ReadInOrder, TypeOK
<1> QED
  BY <1>1 DEF Readings, Expected, Built, Locks

LEMMA WriteLockInv == ASSUME IInv, NEW c \in Others, WriteLock(c) PROVE IInv'
<1> USE DEF IInv, setups, edited
<1>1. c \in Setups \cup Others /\ c \notin Setups
  BY SetupAssumption
<1>2. place \in Workspaces /\ Workspace
  BY PlaceIsWorkspace DEF WriteLock, Ready
<1>3. /\ Expected(c) \in Locks /\ read[c].packs \in 0..MaxEdits /\ read[c].file \in 0..MaxEdits
      /\ Expected(c).packs = read[c].packs /\ Expected(c).file = read[c].file
  BY LockBuilt DEF WriteLock, Ready, Reading
<1>4. read[c].packs # None /\ read[c].file # None
  BY <1>3, ValuesAssumption
<1>5. /\ place' \in Workspaces /\ place'.by = place.by /\ place'.manifest = place.manifest
      /\ place'.lock = Expected(c)
  BY <1>2, <1>3 DEF WriteLock, Workspaces
<1>6. Workspace'
  BY <1>5, WorkspaceIs DEF Workspace
<1>7. read' \in [Others -> Readings] /\ Has(c, None, None, None, None, None)
  BY ReadingEnds DEF WriteLock
<1>8. /\ at' \in [Setups \cup Others -> {"idle", "accepted", "staged", "cleared", "done",
                                        "refused", "dead"} \cup Reading]
      /\ at'[c] = "idle" /\ \A d \in (Setups \cup Others) \ {c} : at'[d] = at[d]
  BY ReadingEnds DEF WriteLock
<1>9. TypeOK'
  BY <1>5, <1>7, <1>8 DEF WriteLock, TypeOK
<1>10. DoneIsThere' /\ StagingIsOwned' /\ Locked' /\ ValidIsFrozen'
  BY <1>1, <1>2, <1>5, <1>6, <1>8
     DEF WriteLock, TypeOK, DoneIsThere, StagingIsOwned, Locked, ValidIsFrozen
<1>11. read'[c] = Unread
  BY DEF WriteLock, Ends, TypeOK
<1>12. ReadInOrder'
  BY <1>6, <1>7, <1>8, <1>11 DEF ReadInOrder, Has, Reading
<1>13. PacksGrow'
  BY <1>3, <1>4, <1>5, <1>7 DEF WriteLock, PacksGrow, Has
<1>14. ManifestGrows'
  BY <1>2, <1>3, <1>4, <1>5, <1>6, <1>7 DEF WriteLock, ManifestGrows, Has
<1> QED
  BY <1>9, <1>10, <1>12, <1>13, <1>14

LEMMA AnswersInv ==
  ASSUME IInv, NEW c \in Others, NEW how \in {"checking", "judging"}, at[c] = how,
         read[c].file # None, NEW l, NEW then \in Moments, Answers(c, l, then),
         how = "judging" /\ l = Expected(c) =>
           /\ l.file = then.manifest \/ "manifest" \in back
           /\ l.packs = then.packs \/ "packs" \in back
  PROVE  IInv'
<1> USE DEF IInv, setups, edited
<1>1. Ends(c) /\ UNCHANGED <<place, setups, packs, edited, deaths>>
  BY DEF Answers
<1>2. /\ ReadInOrder' /\ PacksGrow' /\ ManifestGrows' /\ DoneIsThere' /\ StagingIsOwned' /\ Locked'
      /\ (verdict' = verdict => TypeOK')
  BY <1>1, EndsInv
<1>3. CASE l # Expected(c)
  <2>1. verdict' = verdict
    BY <1>3 DEF Answers
  <2> QED
    BY <1>1, <1>2, <2>1 DEF ValidIsFrozen
<1>4. CASE l = Expected(c)
  <2> DEFINE v == [how |-> how, lock |-> l, then |-> then]
  <2>1. l \in Locks
    BY <1>4, LockBuilt DEF Reading
  <2>2. verdict' = [verdict EXCEPT ![c] = v]
    BY <1>4 DEF Answers
  <2>3. /\ v \in [how : {"checking", "judging"}, lock : Locks, then : Moments]
        /\ v.how = how /\ v.lock = l /\ v.then = then
    BY <2>1
  <2> HIDE DEF v
  <2>4. /\ verdict' \in [Others -> [how : {"checking", "judging"}, lock : Locks, then : Moments] \cup {None}]
        /\ verdict'[c] = v /\ \A d \in Others \ {c} : verdict'[d] = verdict[d]
    BY <2>2, <2>3 DEF TypeOK
  <2>5. TypeOK'
    <3>1. read' \in [Others -> Readings]
      BY <1>1, ReadingEnds
    <3>2. at' \in [Setups \cup Others -> {"idle", "accepted", "staged", "cleared", "done",
                                         "refused", "dead"} \cup Reading]
      BY <1>1, ReadingEnds
    <3> QED
      BY <1>1, <2>4, <3>1, <3>2 DEF TypeOK
  <2>6. ValidIsFrozen'
    BY <1>1, <1>4, <2>3, <2>4 DEF ValidIsFrozen
  <2> QED
    BY <1>2, <2>5, <2>6
<1> QED
  BY <1>3, <1>4

LEMMA CheckLockInv == ASSUME IInv, NEW c \in Others, CheckLock(c) PROVE IInv'
<1>1. place \in Workspaces
  BY PlaceIsWorkspace DEF CheckLock, Ready, IInv
<1>2. [manifest |-> place.manifest, packs |-> packs] \in Moments
  BY <1>1 DEF Moments, Workspaces, IInv, TypeOK
<1> QED
  BY <1>2, AnswersInv DEF CheckLock, Ready

\* Between the reading of the lock and that of the packs and the file contents
\* only grow, from what the lock froze: where both ends agree nothing has changed.
LEMMA JudgeInv == ASSUME IInv, NEW c \in Others, Judge(c) PROVE IInv'
<1> USE DEF IInv
<1>1. at[c] = "judging" /\ read[c].file # None
  BY DEF Judge, Ready
<1>2. /\ Expected(c) \in Locks /\ read[c].packs \in 0..MaxEdits /\ read[c].file \in 0..MaxEdits
      /\ Expected(c).packs = read[c].packs /\ Expected(c).file = read[c].file
  BY <1>1, LockBuilt DEF Reading
<1>3. read[c].packs # None /\ read[c].lock # None /\ read[c].then # None
  BY <1>1 DEF ReadInOrder
<1>4. read[c].then \in Moments /\ read[c].lock \in Locks
  BY <1>3 DEF TypeOK, Readings
<1>5. ASSUME read[c].lock = Expected(c)
      PROVE  /\ read[c].lock.file = read[c].then.manifest \/ "manifest" \in back
             /\ read[c].lock.packs = read[c].then.packs \/ "packs" \in back
  <2>1. /\ read[c].then.manifest \in 0..MaxEdits /\ read[c].then.packs \in 0..MaxEdits
    BY <1>4 DEF Moments
  <2>2. ASSUME "packs" \notin back PROVE read[c].lock.packs = read[c].then.packs
    <3>1. read[c].lock.packs <= read[c].then.packs /\ read[c].then.packs <= read[c].packs
      BY <1>3, <2>2 DEF PacksGrow
    <3> QED
      BY <1>2, <1>5, <2>1, <3>1
  <2>3. ASSUME "manifest" \notin back PROVE read[c].lock.file = read[c].then.manifest
    <3>1. read[c].lock.file <= read[c].then.manifest /\ read[c].then.manifest <= read[c].file
      BY <1>1, <1>3, <2>3 DEF ManifestGrows
    <3> QED
      BY <1>2, <1>5, <2>1, <3>1
  <2> QED
    BY <2>2, <2>3
<1>6. Answers(c, read[c].lock, read[c].then)
  BY DEF Judge
<1>7. "judging" \in {"checking", "judging"}
  OBVIOUS
<1> QED
  BY ONLY <1>1, <1>4, <1>5, <1>6, <1>7, AnswersInv, IInv, c \in Others

\* What the edits add is new, or put back.
LEMMA MakesMore ==
  ASSUME NEW what, NEW from \in 0..MaxEdits, NEW to \in 0..edits + 1, edits \in 0..MaxEdits,
         back \subseteq {"manifest", "packs"}, what \in {"manifest", "packs"}, Makes(what, from, to)
  PROVE  /\ edits' = edits + 1 /\ edits' \in 0..MaxEdits /\ to \in 0..MaxEdits
         /\ back' \subseteq {"manifest", "packs"} /\ back \subseteq back' /\ back' \ {what} \subseteq back
         /\ to <= edits' /\ (what \notin back' => to = edits + 1)
BY SetupAssumption DEF Makes

LEMMA EditPacksInv == ASSUME IInv, NEW m \in 0..edits + 1, EditPacks(m) PROVE IInv'
<1> USE DEF IInv, setups, readings
<1>1. /\ edits' = edits + 1 /\ edits' \in 0..MaxEdits /\ m \in 0..MaxEdits
      /\ back' \subseteq {"manifest", "packs"} /\ back \subseteq back' /\ back' \ {"packs"} \subseteq back
      /\ m <= edits' /\ ("packs" \notin back' => m = edits + 1)
  BY MakesMore DEF EditPacks, TypeOK
<1>2. UNCHANGED <<place, staged, frozen, at, read, verdict, deaths>> /\ packs' = m
  BY DEF EditPacks
<1>3. TypeOK'
  BY <1>1, <1>2 DEF TypeOK
<1>4. DoneIsThere' /\ StagingIsOwned' /\ Locked' /\ ReadInOrder' /\ ValidIsFrozen'
  BY <1>1, <1>2 DEF DoneIsThere, StagingIsOwned, Locked, ReadInOrder, ValidIsFrozen, Workspace
<1>5. ManifestGrows'
  <2>1. "manifest" \notin back' => "manifest" \notin back
    BY <1>1
  <2>2. Workspace => place.manifest \in 0..MaxEdits
    BY PlaceIsWorkspace DEF Workspaces
  <2> QED
    BY <1>1, <1>2, <2>1, <2>2 DEF ManifestGrows, Workspace, TypeOK
<1>6. ASSUME "packs" \notin back' PROVE PacksGrow'
  <2>1. "packs" \notin back /\ packs < m
    BY <1>1, <1>6 DEF PacksGrow, TypeOK
  <2>2. Workspace /\ place.lock # None => place.lock.packs \in 0..MaxEdits
    BY PlaceIsWorkspace DEF Workspaces, Locks
  <2>3. \A d \in Others : /\ read[d].packs # None => read[d].packs \in 0..MaxEdits
                          /\ read[d].lock # None => read[d].then.packs \in 0..MaxEdits
    BY DEF ReadInOrder, TypeOK, Readings, Moments
  <2>4. \A d \in Others : read[d].packs # None => read[d].packs <= packs'
    BY <1>2, <2>1, <2>3 DEF PacksGrow, TypeOK
  <2>5. \A d \in Others : read[d].lock # None =>
              /\ read[d].lock.packs <= read[d].then.packs /\ read[d].then.packs <= packs'
              /\ read[d].packs # None => read[d].then.packs <= read[d].packs
    BY <1>2, <2>1, <2>3 DEF PacksGrow, TypeOK
  <2>6. \A s \in Setups : frozen[s] # None => frozen[s] <= packs'
    BY <1>2, <2>1 DEF PacksGrow, TypeOK
  <2>7. Workspace /\ place.lock # None => place.lock.packs <= packs'
    BY <1>2, <2>1, <2>2 DEF PacksGrow, TypeOK
  <2> QED
    BY <1>1, <1>2, <2>4, <2>5, <2>6, <2>7 DEF PacksGrow, Workspace
<1>7. PacksGrow'
  BY <1>6 DEF PacksGrow
<1> QED
  BY <1>3, <1>4, <1>5, <1>7

LEMMA EditManifestInv == ASSUME IInv, NEW m \in 0..edits + 1, EditManifest(m) PROVE IInv'
<1> USE DEF IInv, setups, readings
<1>1. place \in Workspaces /\ Workspace /\ place.manifest \in 0..MaxEdits
  BY PlaceIsWorkspace DEF EditManifest, Workspaces
<1>2. /\ edits' = edits + 1 /\ edits' \in 0..MaxEdits /\ m \in 0..MaxEdits
      /\ back' \subseteq {"manifest", "packs"} /\ back \subseteq back' /\ back' \ {"manifest"} \subseteq back
      /\ m <= edits' /\ ("manifest" \notin back' => m = edits + 1)
  BY <1>1, MakesMore DEF EditManifest, TypeOK
<1>3. UNCHANGED <<packs, staged, frozen, at, read, verdict, deaths>>
  BY DEF EditManifest
<1>4. /\ place' \in Workspaces /\ place'.by = place.by /\ place'.lock = place.lock
      /\ place'.manifest = m
  BY <1>1, <1>2 DEF EditManifest, Workspaces
<1>5. Workspace'
  BY <1>4, WorkspaceIs DEF Workspace
<1>6. TypeOK'
  BY <1>2, <1>3, <1>4 DEF TypeOK
<1>7. DoneIsThere' /\ StagingIsOwned' /\ Locked' /\ ReadInOrder' /\ ValidIsFrozen'
  BY <1>1, <1>2, <1>3, <1>4, <1>5 DEF DoneIsThere, StagingIsOwned, Locked, ReadInOrder, ValidIsFrozen
<1>8. PacksGrow'
  <2>1. "packs" \notin back' => "packs" \notin back
    BY <1>2
  <2> QED
    BY <1>1, <1>2, <1>3, <1>4, <2>1 DEF PacksGrow, TypeOK
<1>9. ASSUME "manifest" \notin back' PROVE ManifestGrows'
  <2>1. "manifest" \notin back /\ place.manifest < m
    BY <1>1, <1>2, <1>9 DEF ManifestGrows, TypeOK
  <2>2. place.lock # None => place.lock.file \in 0..MaxEdits
    BY <1>1 DEF Workspaces, Locks
  <2>3. \A d \in Others : /\ read[d].file # None => read[d].file \in 0..MaxEdits
                          /\ read[d].lock # None => read[d].then.manifest \in 0..MaxEdits
    BY DEF ReadInOrder, TypeOK, Readings, Moments
  <2>4. \A d \in Others : read[d].file # None => read[d].file <= m
    BY <1>1, <2>1, <2>3 DEF ManifestGrows
  <2>5. \A d \in Others : read[d].lock # None =>
              /\ read[d].lock.file <= read[d].then.manifest /\ read[d].then.manifest <= m
              /\ read[d].file # None => read[d].then.manifest <= read[d].file
    BY <1>1, <2>1, <2>3 DEF ManifestGrows
  <2>6. place.lock # None => place.lock.file <= m
    BY <1>1, <2>1, <2>2 DEF ManifestGrows
  <2> QED
    BY <1>2, <1>3, <1>4, <1>5, <2>4, <2>5, <2>6 DEF ManifestGrows
<1>10. ManifestGrows'
  BY <1>9 DEF ManifestGrows
<1> QED
  BY <1>6, <1>7, <1>8, <1>10

LEMMA NextInv == IInv /\ [Next]_vars => IInv'
<1> SUFFICES ASSUME IInv, [Next]_vars PROVE IInv'
  OBVIOUS
<1>1. CASE UNCHANGED vars
  BY <1>1 DEF IInv, vars, TypeOK, DoneIsThere, StagingIsOwned, ValidIsFrozen, Workspace, Locked, ReadInOrder,
              PacksGrow, ManifestGrows
<1>2. CASE Finished
  BY <1>1, <1>2 DEF Finished
<1> QED
  BY <1>1, <1>2, SetupInv, ParseInv, LoadLockInv, ResolveInv, HashFileInv, WriteLockInv, CheckLockInv,
     JudgeInv, EditManifestInv, EditPacksInv DEF Next

\* The inductive invariant holds of every command that sets up, locks or
\* validates a workspace (workspace/service.py, locking.py, validation.py).
THEOREM SetupInvariant == Spec => []IInv
BY InitInv, NextInv, PTL DEF Spec

\* Every variable keeps its shape (workspace/service.py).
THEOREM SetupTypeOK == Spec => []TypeOK
BY SetupInvariant, PTL DEF IInv

\* Whoever reports that the workspace is set up has set up the one that is there
\* (workspace/service.py, initialize_workspace).
THEOREM SuccessIsInPlace == Spec => []DoneIsThere
BY SetupInvariant, PTL DEF IInv

\* A staging directory belongs to a command at work or killed
\* (workspace/service.py, initialize_workspace).
THEOREM StagingHasOwner == Spec => []StagingIsOwned
BY SetupInvariant, PTL DEF IInv

\* A validation finds valid what the lock it read had frozen when it read it, if
\* nothing was put back, although it reads the packs and the manifest's file later
\* (workspace/locking.py, workspace/validation.py).
THEOREM ValidityIsFrozen == Spec => []ValidIsFrozen
BY SetupInvariant, PTL DEF IInv

\* No command ever replaces a workspace (workspace/service.py).
THEOREM NothingIsReplaced == Spec => WorkspaceStays
<1>1. IInv /\ [Next]_vars => [Workspace => Workspace' /\ place'.by = place.by]_vars
  <2> SUFFICES ASSUME IInv, [Next]_vars, Workspace
               PROVE  Workspace' /\ place'.by = place.by
    OBVIOUS
  <2>1. place \in Workspaces
    BY PlaceIsWorkspace DEF IInv
  <2>2. CASE UNCHANGED place
    BY <2>2 DEF Workspace
  <2>3. CASE ~UNCHANGED place
    <3>1. (\E c \in Others : WriteLock(c)) \/ (\E m \in 0..edits + 1 : EditManifest(m))
      BY <2>3 DEF vars, Next, Look, Stage, Clear, Install, Replaceable, Rollback, Die, Parse, LoadLock,
                  Resolve, HashFile, CheckLock, Judge, Answers, EditPacks, Finished, Workspace
    <3>2. place' \in Workspaces /\ place'.by = place.by
      <4>1. ASSUME NEW m \in 0..edits + 1, EditManifest(m)
            PROVE  place' \in Workspaces /\ place'.by = place.by
        <5>1. m \in 0..MaxEdits
          BY <2>1, <4>1, MakesMore DEF EditManifest, IInv, TypeOK, Workspaces
        <5> QED
          BY <2>1, <4>1, <5>1 DEF EditManifest, Workspaces
      <4>2. ASSUME NEW c \in Others, WriteLock(c)
            PROVE  place' \in Workspaces /\ place'.by = place.by
        <5>1. Expected(c) \in Locks
          BY <4>2, LockBuilt DEF WriteLock, Ready, Reading
        <5> QED
          BY <2>1, <4>2, <5>1 DEF WriteLock, Workspaces
      <4> QED
        BY <3>1, <4>1, <4>2
    <3> QED
      BY <3>2, WorkspaceIs DEF Workspace
  <2> QED
    BY <2>2, <2>3
<1> QED
  BY <1>1, SetupInvariant, PTL DEF Spec, WorkspaceStays

-----------------------------------------------------------------------------
(***************************************************************************)
(* ExactAuthority: where the steps of a reconstruction are in its program, *)
(* and what each of them preserves.                                        *)
(***************************************************************************)

\* The programs, as far as their order matters.
Ops == {"freeze", "mark", "read", "check", "keep", "same", "again", "hash", "use", "publication", "thaw"}
Slots == 1..4
OnSlots == {"keep", "same", "use"}

\* A step that neither freezes, hashes nor compares with what was frozen or hashed.
Gathering == [op : {"mark", "read", "check"}, tree : 1..5] \cup [op : {"keep", "same"}, tree : Slots]

\* One that keeps nothing either.
Checking == [op : {"mark", "read", "check"}, tree : 1..5] \cup [op : {"same"}, tree : Slots]

Inner == Gathering \cup [op : {"again", "hash"}, tree : 1..5] \cup [op : {"use"}, tree : Slots]

Steps == [op : Ops \ OnSlots, tree : 1..6] \cup [op : OnSlots, tree : Slots]

\* A row of equal steps, and a single step.
LEMMA RowIs == ASSUME NEW S, NEW n \in Nat, NEW f \in [1..n -> S] PROVE f \in Seq(S) /\ Len(f) = n
<1>1. f \in Seq(S)
  <2>1. [1..n -> S] \in {[1..m -> S] : m \in Nat}
    OBVIOUS
  <2>2. f \in UNION {[1..m -> S] : m \in Nat}
    BY <2>1
  <2> QED
    BY <2>2, SeqDef, Zenon
<1>2. DOMAIN f = 1..n /\ DOMAIN f = 1..Len(f) /\ Len(f) \in Nat
  BY <1>1
<1> QED
  BY <1>1, <1>2

\* One sequence after another.
Joins(S, r, s, t) == /\ r \in Seq(S) /\ Len(r) = Len(s) + Len(t)
                     /\ \A i \in 1..Len(s) : r[i] = s[i]
                     /\ \A i \in 1..Len(t) : r[Len(s) + i] = t[i]

LEMMA Joined == ASSUME NEW S, NEW s \in Seq(S), NEW t \in Seq(S) PROVE Joins(S, s \o t, s, t)
<1>1. PICK r : r = s \o t
  OBVIOUS
<1>2. r \in Seq(S)
  BY <1>1
<1>3. Len(r) = Len(s) + Len(t)
  BY <1>1
<1>4. \A i \in 1..Len(s) : r[i] = s[i]
  BY <1>1
<1>5. \A i \in 1..Len(t) : r[Len(s) + i] = t[i]
  BY <1>1
<1> QED
  BY <1>1, <1>2, <1>3, <1>4, <1>5, Zenon DEF Joins

Row(T, op, which, r) == /\ r \in Seq([op : {op}, tree : T]) /\ Len(r) = Len(which)
                         /\ \A i \in 1..Len(which) : r[i] = [op |-> op, tree |-> which[i]]

LEMMA EachIs == ASSUME NEW op, NEW T, NEW which \in Seq(T) PROVE Row(T, op, which, Each(op, which))
<1>1. Len(which) \in Nat /\ \A i \in 1..Len(which) : which[i] \in T
  OBVIOUS
<1>2. Each(op, which) \in [1..Len(which) -> [op : {op}, tree : T]]
  BY <1>1 DEF Each
<1>3. \A i \in 1..Len(which) : Each(op, which)[i] = [op |-> op, tree |-> which[i]]
  BY DEF Each
<1> QED
  BY <1>1, <1>2, <1>3, RowIs, Zenon DEF Row

LEMMA OneIs ==
  ASSUME NEW op, NEW slot, NEW S, [op |-> op, tree |-> slot] \in S
  PROVE  One(op, slot) \in Seq(S) /\ Len(One(op, slot)) = 1 /\ One(op, slot)[1] = [op |-> op, tree |-> slot]
BY DEF One

\* What an authority of an amendment reads before it asks for the requests again.
Gathered == (Phase03 \o One("keep", Callers)) \o Phase04

LEMMA Phase03Is == Phase03 \in Seq(Checking)
<1>1. ASSUME NEW op \in {"mark", "read", "check"}
      PROVE  Each(op, <<1, 2, 3>>) \in Seq(Checking) /\ Each(op, <<4>>) \in Seq(Checking)
  <2>1. <<1, 2, 3>> \in Seq(1..5) /\ <<4>> \in Seq(1..5)
    OBVIOUS
  <2>2. [op : {op}, tree : 1..5] \subseteq Checking
    BY <1>1 DEF Checking
  <2>3. /\ Each(op, <<1, 2, 3>>) \in Seq([op : {op}, tree : 1..5])
        /\ Each(op, <<4>>) \in Seq([op : {op}, tree : 1..5])
    BY <2>1, EachIs, Zenon DEF Row
  <2> QED
    BY <2>2, <2>3, SeqMonotonic, Zenon
<1>2. /\ "mark" \in {"mark", "read", "check"} /\ "read" \in {"mark", "read", "check"}
      /\ "check" \in {"mark", "read", "check"}
  OBVIOUS
<1> QED
  BY <1>1, <1>2, ConcatProperties, Zenon DEF Phase03

LEMMA ValidatedIs == ASSUME NEW slot \in Slots PROVE Validated(slot) \in Seq(Checking)
<1>1. [op |-> "same", tree |-> slot] \in Checking
  BY DEF Checking
<1> QED
  BY <1>1, Phase03Is, OneIs, ConcatProperties, Zenon DEF Validated

LEMMA GatheredIs == Gathered \in Seq(Gathering)
<1>1. Checking \subseteq Gathering
  BY DEF Checking, Gathering
<1>2. Phase03 \in Seq(Gathering) /\ Validated(Verifiers) \in Seq(Gathering)
  <2>1. Verifiers \in Slots
    BY DEF Verifiers, Slots
  <2> QED
    BY <1>1, <2>1, Phase03Is, ValidatedIs, SeqMonotonic, Zenon
<1>3. /\ One("keep", Callers) \in Seq(Gathering) /\ One("keep", Verifiers) \in Seq(Gathering)
      /\ One("keep", Governed) \in Seq(Gathering)
  <2>1. \A slot \in Slots : [op |-> "keep", tree |-> slot] \in Gathering
    BY DEF Gathering
  <2>2. {Callers, Verifiers, Governed} \subseteq Slots
    BY DEF Callers, Verifiers, Governed, Slots
  <2> QED
    BY <2>1, <2>2, OneIs, Zenon
<1>4. Each("read", <<5>>) \in Seq(Gathering)
  <2>1. <<5>> \in Seq(1..5) /\ [op : {"read"}, tree : 1..5] \subseteq Gathering
    BY DEF Gathering
  <2> QED
    BY <2>1, EachIs, SeqMonotonic, Zenon DEF Row
<1>5. Phase04 \in Seq(Gathering)
  BY <1>2, <1>3, <1>4, ConcatProperties, Zenon DEF Phase04
<1> QED
  BY <1>2, <1>3, <1>5, ConcatProperties, Zenon DEF Gathered

\* Where the hashes of the authority are taken, or compared.
Hashed == Len(Program) - 6

LEMMA Phase05Is ==
  LET g == Len(Gathered)
      v == Len(Validated(Callers))
  IN /\ g \in Nat /\ v \in Nat
     /\ Phase05 \in Seq(Inner) /\ Len(Phase05) = g + v + 7
     /\ \A i \in 1..g : Phase05[i] \in Gathering
     /\ Phase05[g + 1] = [op |-> "again", tree |-> 5]
     /\ \A i \in 1..v : Phase05[g + 1 + i] \in Checking
     /\ \A k \in 1..5 : Phase05[g + v + 1 + k] = [op |-> "hash", tree |-> k]
     /\ Phase05[g + v + 7] = [op |-> "use", tree |-> Governed]
<1>1. PICK again, hash, use, validated, gathered :
        /\ again = Each("again", <<5>>) /\ hash = Each("hash", <<1, 2, 3, 4, 5>>)
        /\ use = One("use", Governed) /\ validated = Validated(Callers) /\ gathered = Gathered
  OBVIOUS
<1>2. PICK g, v : g = Len(gathered) /\ v = Len(validated)
  OBVIOUS
<1>3. gathered \in Seq(Inner) /\ g \in Nat /\ \A i \in 1..g : gathered[i] \in Gathering
  BY GatheredIs, SeqMonotonic, <1>1, <1>2 DEF Inner
<1>4. validated \in Seq(Inner) /\ v \in Nat /\ \A i \in 1..v : validated[i] \in Checking
  <2>1. Checking \subseteq Inner /\ Callers \in Slots
    BY DEF Checking, Gathering, Inner, Callers, Slots
  <2>2. validated \in Seq(Checking)
    BY <2>1, ValidatedIs, <1>1
  <2> QED
    BY <2>1, <2>2, SeqMonotonic, <1>2
<1>5. again \in Seq(Inner) /\ Len(again) = 1 /\ again[1] = [op |-> "again", tree |-> 5]
  <2>1. PICK w : w = <<5>>
    OBVIOUS
  <2>2. w \in Seq(1..5) /\ Len(w) = 1 /\ w[1] = 5 /\ [op : {"again"}, tree : 1..5] \subseteq Inner
    BY <2>1 DEF Inner
  <2>3. Row(1..5, "again", w, Each("again", w))
    BY <2>2, EachIs, Zenon
  <2>4. again = Each("again", w) /\ 1 \in 1..1
    BY <1>1, <2>1
  <2> QED
    BY <2>2, <2>3, <2>4, SeqMonotonic, Zenon DEF Row
<1>6. hash \in Seq(Inner) /\ Len(hash) = 5 /\ \A k \in 1..5 : hash[k] = [op |-> "hash", tree |-> k]
  <2>1. PICK w : w = <<1, 2, 3, 4, 5>>
    OBVIOUS
  <2>2. /\ w \in Seq(1..5) /\ Len(w) = 5 /\ \A k \in 1..5 : w[k] = k
        /\ [op : {"hash"}, tree : 1..5] \subseteq Inner
    BY <2>1 DEF Inner
  <2>3. Row(1..5, "hash", w, Each("hash", w))
    BY <2>2, EachIs, Zenon
  <2>4. hash = Each("hash", w)
    BY <1>1, <2>1
  <2> QED
    BY <2>2, <2>3, <2>4, SeqMonotonic, Zenon DEF Row
<1>7. use \in Seq(Inner) /\ Len(use) = 1 /\ use[1] = [op |-> "use", tree |-> Governed]
  <2>1. [op |-> "use", tree |-> Governed] \in Inner
    BY DEF Inner, Governed, Slots
  <2> QED
    BY <2>1, <1>1, OneIs, Zenon
<1>8. PICK s1, s2, s3, s4 :
        s1 = gathered \o again /\ s2 = s1 \o validated /\ s3 = s2 \o hash /\ s4 = s3 \o use
  OBVIOUS
<1>9. Phase05 = s4
  BY <1>1, <1>8 DEF Phase05, Gathered
<1>10. /\ s1 \in Seq(Inner) /\ Len(s1) = g + 1
       /\ \A i \in 1..g : s1[i] = gathered[i]
       /\ \A i \in 1..1 : s1[g + i] = again[i]
  <2>1. /\ gathered \in Seq(Inner) /\ again \in Seq(Inner) /\ s1 = gathered \o again
        /\ Len(gathered) = g /\ Len(again) = 1
    BY <1>2, <1>3, <1>5, <1>8
  <2>2. Joins(Inner, s1, gathered, again)
    BY <2>1, Joined, Zenon
  <2> QED
    BY <2>1, <2>2, Zenon DEF Joins
<1>11. /\ s2 \in Seq(Inner) /\ Len(s2) = (g + 1) + v
       /\ \A i \in 1..(g + 1) : s2[i] = s1[i]
       /\ \A i \in 1..v : s2[(g + 1) + i] = validated[i]
  <2>1. /\ s1 \in Seq(Inner) /\ validated \in Seq(Inner) /\ s2 = s1 \o validated
        /\ Len(s1) = (g + 1) /\ Len(validated) = v
    BY <1>2, <1>4, <1>8, <1>10
  <2>2. Joins(Inner, s2, s1, validated)
    BY <2>1, Joined, Zenon
  <2> QED
    BY <2>1, <2>2, Zenon DEF Joins
<1>12. /\ s3 \in Seq(Inner) /\ Len(s3) = ((g + 1) + v) + 5
       /\ \A i \in 1..((g + 1) + v) : s3[i] = s2[i]
       /\ \A i \in 1..5 : s3[((g + 1) + v) + i] = hash[i]
  <2>1. /\ s2 \in Seq(Inner) /\ hash \in Seq(Inner) /\ s3 = s2 \o hash /\ Len(s2) = ((g + 1) + v) /\ Len(hash) = 5
    BY <1>6, <1>8, <1>11
  <2>2. Joins(Inner, s3, s2, hash)
    BY <2>1, Joined, Zenon
  <2> QED
    BY <2>1, <2>2, Zenon DEF Joins
<1>13. /\ s4 \in Seq(Inner) /\ Len(s4) = (((g + 1) + v) + 5) + 1
       /\ \A i \in 1..(((g + 1) + v) + 5) : s4[i] = s3[i]
       /\ \A i \in 1..1 : s4[(((g + 1) + v) + 5) + i] = use[i]
  <2>1. /\ s3 \in Seq(Inner) /\ use \in Seq(Inner) /\ s4 = s3 \o use /\ Len(s3) = (((g + 1) + v) + 5) /\ Len(use) = 1
    BY <1>7, <1>8, <1>12
  <2>2. Joins(Inner, s4, s3, use)
    BY <2>1, Joined, Zenon
  <2> QED
    BY <2>1, <2>2, Zenon DEF Joins
<1>14. ASSUME NEW i \in 1..(g + 1) PROVE s4[i] = s1[i]
  <2>1. i \in 1..((g + 1) + v) /\ i \in 1..(((g + 1) + v) + 5)
    BY <1>3, <1>4
  <2> QED
    BY <2>1, <1>11, <1>12, <1>13
<1>15. ASSUME NEW i \in 1..g PROVE s4[i] \in Gathering
  <2>1. i \in 1..(g + 1)
    BY <1>3
  <2> QED
    BY <2>1, <1>3, <1>10, <1>14
<1>16. s4[g + 1] = [op |-> "again", tree |-> 5]
  <2>1. g + 1 \in 1..(g + 1)
    BY <1>3
  <2> QED
    BY <2>1, <1>5, <1>10, <1>14
<1>17. ASSUME NEW i \in 1..v PROVE s4[g + 1 + i] \in Checking
  <2>1. (g + 1) + i \in 1..((g + 1) + v) /\ (g + 1) + i \in 1..(((g + 1) + v) + 5)
    BY <1>3, <1>4
  <2>2. s4[(g + 1) + i] = s2[(g + 1) + i] /\ s2[(g + 1) + i] = validated[i]
    BY <2>1, <1>11, <1>12, <1>13, Zenon
  <2> QED
    BY <2>2, <1>4
<1>18. ASSUME NEW k \in 1..5 PROVE s4[g + v + 1 + k] = [op |-> "hash", tree |-> k]
  <2>1. g + v + 1 + k \in 1..(((g + 1) + v) + 5) /\ g + v + 1 + k = ((g + 1) + v) + k
    BY <1>3, <1>4
  <2> QED
    BY <2>1, <1>6, <1>12, <1>13
<1>19. s4[g + v + 7] = [op |-> "use", tree |-> Governed] /\ Len(s4) = g + v + 7
  <2>1. g + v + 7 = (((g + 1) + v) + 5) + 1 /\ 1 \in 1..1
    BY <1>3, <1>4
  <2> QED
    BY <2>1, <1>7, <1>13
<1> QED
  BY <1>1, <1>2, <1>3, <1>4, <1>9, <1>13, <1>15, <1>16, <1>17, <1>18, <1>19

\* The program of an activation up to the reads of its own tree: the trees are
\* hashed, and then read.
Frozen(m) == /\ m \in Seq(Steps) /\ Len(m) >= 6
             /\ \A k \in 1..6 : m[k] = [op |-> "freeze", tree |-> k]
             /\ \A i \in 7..Len(m) : m[i] \in Inner

LEMMA InnerIsStep == Inner \subseteq Steps
BY DEF Inner, Gathering, Steps, Ops, OnSlots, Slots

LEMMA FrozenGrows == ASSUME NEW m, Frozen(m), NEW t \in Seq(Inner) PROVE Frozen(m \o t) /\ Len(m \o t) = Len(m) + Len(t)
<1>1. PICK r : r = m \o t
  OBVIOUS
<1>2. PICK a, b : a = Len(m) /\ b = Len(t)
  OBVIOUS
<1>3. a \in Nat /\ b \in Nat /\ a >= 6
  BY <1>2 DEF Frozen
<1>4. Joins(Steps, r, m, t)
  BY <1>1, InnerIsStep, SeqMonotonic, Joined, Zenon DEF Frozen
<1>5. r \in Seq(Steps) /\ Len(r) = a + b
  BY <1>2, <1>4, Zenon DEF Joins
<1>6. ASSUME NEW k \in 1..6 PROVE r[k] = [op |-> "freeze", tree |-> k]
  <2>1. k \in 1..a
    BY <1>3
  <2> QED
    BY <2>1, <1>2, <1>4, Zenon DEF Joins, Frozen
<1>7. ASSUME NEW i \in 7..(a + b) PROVE r[i] \in Inner
  <2>1. CASE i <= a
    <3>1. i \in 1..a /\ i \in 7..a
      BY <1>3, <2>1
    <3> QED
      BY <3>1, <1>2, <1>4, Zenon DEF Joins, Frozen
  <2>2. CASE i > a
    <3>1. PICK j : j = i - a
      OBVIOUS
    <3>2. j \in 1..b /\ i = a + j
      BY <1>3, <2>2, <3>1
    <3>3. r[a + j] = t[j]
      BY <3>2, <1>2, <1>4, Zenon DEF Joins
    <3>4. t[j] \in Inner
      BY <3>2, <1>2
    <3> QED
      BY <3>2, <3>3, <3>4, Zenon
  <2> QED
    BY <1>3, <2>1, <2>2
<1> QED
  BY <1>1, <1>2, <1>3, <1>5, <1>6, <1>7 DEF Frozen

LEMMA Phase06Is ==
  LET n == Len(Phase05)
  IN /\ n \in Nat
     /\ Phase06 \in Seq(Steps) /\ Len(Phase06) = n + n + 15
     /\ \A k \in 1..6 : Phase06[k] = [op |-> "freeze", tree |-> k]
     /\ \A i \in 7..(n + n + 7) : Phase06[i] \in Inner
     /\ Phase06[n + n + 8] = [op |-> "read", tree |-> 6]
     /\ Phase06[n + n + 9] = [op |-> "publication", tree |-> 1]
     /\ \A k \in 1..6 : Phase06[n + n + 9 + k] = [op |-> "thaw", tree |-> k]
<1>1. PICK fifth, n, six, freeze, keep, reads, publication, thaw :
        /\ fifth = Phase05 /\ n = Len(fifth) /\ six = <<1, 2, 3, 4, 5, 6>>
        /\ freeze = Each("freeze", six) /\ keep = One("keep", Amendments)
        /\ reads = Each("read", <<6>>) /\ publication = Each("publication", <<1>>)
        /\ thaw = Each("thaw", six)
  OBVIOUS
<1>2. fifth \in Seq(Inner) /\ n \in Nat
  BY <1>1, Phase05Is
<1>3. six \in Seq(1..6) /\ Len(six) = 6 /\ \A k \in 1..6 : six[k] = k
  BY <1>1
<1>4. ASSUME NEW op \in {"freeze", "thaw"}, NEW row, row = Each(op, six)
      PROVE  row \in Seq(Steps) /\ Len(row) = 6 /\ \A k \in 1..6 : row[k] = [op |-> op, tree |-> k]
  <2>1. Row(1..6, op, six, row)
    BY <1>3, <1>4, EachIs, Zenon
  <2>2. [op : {op}, tree : 1..6] \subseteq Steps
    BY <1>4 DEF Steps, Ops, OnSlots
  <2> QED
    BY <1>3, <2>1, <2>2, SeqMonotonic, Zenon DEF Row
<1>5. Frozen(freeze)
  <2>1. freeze \in Seq(Steps) /\ Len(freeze) = 6 /\ \A k \in 1..6 : freeze[k] = [op |-> "freeze", tree |-> k]
    <3>1. "freeze" \in {"freeze", "thaw"}
      OBVIOUS
    <3> QED
      BY <1>1, <1>4, <3>1, Zenon
  <2> QED
    BY <2>1 DEF Frozen
<1>6. keep \in Seq(Inner) /\ Len(keep) = 1
  <2>1. [op |-> "keep", tree |-> Amendments] \in Inner
    BY DEF Inner, Gathering, Amendments, Slots
  <2> QED
    BY <2>1, <1>1, OneIs, Zenon
<1>7. ASSUME NEW op \in {"read", "publication"}, NEW k \in 1..6, NEW row, row = Each(op, <<k>>)
      PROVE  row \in Seq(Steps) /\ Len(row) = 1 /\ row[1] = [op |-> op, tree |-> k]
  <2>1. PICK w : w = <<k>>
    OBVIOUS
  <2>2. w \in Seq(1..6) /\ Len(w) = 1 /\ w[1] = k /\ 1 \in 1..1
    BY <2>1
  <2>3. Row(1..6, op, w, row)
    BY <2>1, <2>2, <1>7, EachIs, Zenon
  <2>4. [op : {op}, tree : 1..6] \subseteq Steps
    BY <1>7 DEF Steps, Ops, OnSlots
  <2> QED
    BY <2>2, <2>3, <2>4, SeqMonotonic, Zenon DEF Row
<1>8. reads \in Seq(Steps) /\ Len(reads) = 1 /\ reads[1] = [op |-> "read", tree |-> 6]
  <2>1. "read" \in {"read", "publication"} /\ 6 \in 1..6
    OBVIOUS
  <2>2. reads = Each("read", <<6>>)
    BY <1>1
  <2> QED
    BY <1>7, <2>1, <2>2, SMT
<1>9. publication \in Seq(Steps) /\ Len(publication) = 1 /\ publication[1] = [op |-> "publication", tree |-> 1]
  <2>1. "publication" \in {"read", "publication"} /\ 1 \in 1..6
    OBVIOUS
  <2>2. publication = Each("publication", <<1>>)
    BY <1>1
  <2> QED
    BY <1>7, <2>1, <2>2, Zenon
<1>10. thaw \in Seq(Steps) /\ Len(thaw) = 6 /\ \A k \in 1..6 : thaw[k] = [op |-> "thaw", tree |-> k]
  <2>1. "thaw" \in {"freeze", "thaw"}
    OBVIOUS
  <2> QED
    BY <1>1, <1>4, <2>1, Zenon
<1>11. PICK m1, m2, m3, r1, r2, r3 :
         /\ m1 = freeze \o fifth /\ m2 = m1 \o keep /\ m3 = m2 \o fifth
         /\ r1 = m3 \o reads /\ r2 = r1 \o publication /\ r3 = r2 \o thaw
  OBVIOUS
<1>12. Phase06 = r3
  BY <1>1, <1>11, Zenon DEF Phase06
<1>13. Frozen(m3) /\ Len(m3) = n + n + 7
  <2>1. Len(freeze) = 6
    <3>1. "freeze" \in {"freeze", "thaw"}
      OBVIOUS
    <3> QED
      BY <1>1, <1>4, <3>1, Zenon
  <2>2. Frozen(m1) /\ Len(m1) = Len(freeze) + Len(fifth)
    BY <1>2, <1>5, <1>11, FrozenGrows, Zenon
  <2>3. Frozen(m2) /\ Len(m2) = Len(m1) + Len(keep)
    BY <2>2, <1>6, <1>11, FrozenGrows, Zenon
  <2>4. Frozen(m3) /\ Len(m3) = Len(m2) + Len(fifth)
    BY <2>3, <1>2, <1>11, FrozenGrows, Zenon
  <2>5. Len(m3) = ((6 + n) + 1) + n
    BY <2>1, <2>2, <2>3, <2>4, <1>1, <1>6, Zenon
  <2> QED
    BY <2>4, <2>5, <1>2
<1>14. Joins(Steps, r1, m3, reads) /\ Joins(Steps, r2, r1, publication) /\ Joins(Steps, r3, r2, thaw)
  <2>1. m3 \in Seq(Steps)
    BY <1>13 DEF Frozen
  <2>2. Joins(Steps, r1, m3, reads)
    BY <2>1, <1>8, <1>11, Joined, Zenon
  <2>3. r1 \in Seq(Steps)
    BY <2>2 DEF Joins
  <2>4. Joins(Steps, r2, r1, publication)
    BY <2>3, <1>9, <1>11, Joined, Zenon
  <2>5. r2 \in Seq(Steps)
    BY <2>4 DEF Joins
  <2>6. Joins(Steps, r3, r2, thaw)
    BY <2>5, <1>10, <1>11, Joined, Zenon
  <2> QED
    BY <2>2, <2>4, <2>6
<1>15. Len(r1) = n + n + 8 /\ Len(r2) = n + n + 9 /\ Len(r3) = n + n + 15 /\ r3 \in Seq(Steps)
  <2>1. Len(r1) = Len(m3) + 1 /\ Len(r2) = Len(r1) + 1 /\ Len(r3) = Len(r2) + 6 /\ r3 \in Seq(Steps)
    BY <1>8, <1>9, <1>10, <1>14, Zenon DEF Joins
  <2> QED
    BY <2>1, <1>2, <1>13
<1>16. ASSUME NEW i \in 1..(n + n + 7) PROVE r3[i] = m3[i]
  <2>1. i \in 1..(n + n + 8) /\ i \in 1..(n + n + 9)
    BY <1>2
  <2> QED
    BY <2>1, <1>13, <1>14, <1>15, Zenon DEF Joins
<1>17. \A k \in 1..6 : r3[k] = [op |-> "freeze", tree |-> k]
  <2>1. \A k \in 1..6 : k \in 1..(n + n + 7)
    BY <1>2
  <2> QED
    BY <2>1, <1>13, <1>16, Zenon DEF Frozen
<1>18. \A i \in 7..(n + n + 7) : r3[i] \in Inner
  <2>1. \A i \in 7..(n + n + 7) : i \in 1..(n + n + 7)
    BY <1>2
  <2> QED
    BY <2>1, <1>13, <1>16, Zenon DEF Frozen
<1>19. r3[n + n + 8] = [op |-> "read", tree |-> 6]
  <2>1. (n + n + 7) + 1 = n + n + 8 /\ 1 \in 1..1 /\ n + n + 8 \in 1..(n + n + 8) /\ n + n + 8 \in 1..(n + n + 9)
    BY <1>2
  <2>2. r1[(n + n + 7) + 1] = reads[1]
    BY <2>1, <1>8, <1>13, <1>14, ZenonT(40) DEF Joins
  <2>3. r3[n + n + 8] = r2[n + n + 8] /\ r2[n + n + 8] = r1[n + n + 8]
    BY <2>1, <1>14, <1>15, Zenon DEF Joins
  <2> QED
    BY <2>1, <2>2, <2>3, <1>8, Zenon
<1>20. r3[n + n + 9] = [op |-> "publication", tree |-> 1]
  <2>1. (n + n + 8) + 1 = n + n + 9 /\ 1 \in 1..1 /\ n + n + 9 \in 1..(n + n + 9)
    BY <1>2
  <2>2. r2[(n + n + 8) + 1] = publication[1]
    BY <2>1, <1>9, <1>14, <1>15, Zenon DEF Joins
  <2>3. r3[n + n + 9] = r2[n + n + 9]
    BY <2>1, <1>14, <1>15, Zenon DEF Joins
  <2> QED
    BY <2>1, <2>2, <2>3, <1>9, Zenon
<1>21. \A k \in 1..6 : r3[n + n + 9 + k] = [op |-> "thaw", tree |-> k]
  <2>1. \A k \in 1..6 : r3[n + n + 9 + k] = thaw[k]
    BY <1>10, <1>14, <1>15, Zenon DEF Joins
  <2> QED
    BY <2>1, <1>10, Zenon
<1> QED
  BY <1>1, <1>2, <1>12, <1>15, <1>17, <1>18, <1>19, <1>20, <1>21, Zenon

\* The step that asks for the requests again, in the authority of an amendment.
Asked == Len(Gathered) + 1

\* What the steps of a reconstruction are, as far as their places matter.
Placed(i) ==
  LET op == Program[i].op
      k == Program[i].tree
  IN /\ op \in Ops
     /\ IF op \in OnSlots THEN k \in Slots ELSE k \in Trees
     /\ op \notin {"hash", "thaw", "use"} => i <= Hashed
     /\ op = "use" => i <= Hashed \/ i = Hashed + 6
     /\ op = "hash" => IF level = 6 THEN i <= Hashed ELSE i = Hashed + k
     /\ op = "thaw" => i = Hashed + k /\ level = 6
     /\ op = "freeze" => i = k /\ level = 6
     /\ level = 6 /\ i <= 6 => op = "freeze"
     /\ level = 6 /\ i = Hashed - 1 => op = "read" /\ k = 6
     /\ level = 6 /\ i >= Hashed => op \in {"publication", "thaw"}
     /\ level = 5 /\ i = Asked => op = "again" /\ k = 5
     /\ level = 5 /\ i > Asked => op # "keep"
     /\ level = 5 /\ i = Hashed + 6 => op = "use" /\ k = Governed

LEMMA ProgramIs ==
  ASSUME level \in {5, 6}
  PROVE  /\ Len(Program) \in Nat /\ Hashed \in Nat /\ Asked \in Nat /\ Asked > 0 /\ Len(Program) = Hashed + 6
         /\ level = 5 => Asked <= Hashed /\ Hashed > 0
         /\ level = 6 => Hashed > 8
         /\ \A i \in 1..Len(Program) : Placed(i)
<1>1. Asked \in Nat /\ Asked > 0
  BY Phase05Is DEF Asked
<1>2. CASE level = 5
  <2>1. Program = Phase05 /\ Trees = 1..5
    BY <1>2 DEF Program, Trees
  <2>2. PICK g, v : g = Len(Gathered) /\ v = Len(Validated(Callers))
    OBVIOUS
  <2>3. /\ g \in Nat /\ v \in Nat
        /\ Len(Program) = g + v + 7
        /\ \A i \in 1..g : Program[i] \in Gathering
        /\ Program[g + 1] = [op |-> "again", tree |-> 5]
        /\ \A i \in 1..v : Program[g + 1 + i] \in Checking
        /\ \A k \in 1..5 : Program[g + v + 1 + k] = [op |-> "hash", tree |-> k]
        /\ Program[g + v + 7] = [op |-> "use", tree |-> Governed]
    BY <2>1, <2>2, Phase05Is
  <2>4. Hashed = g + v + 1 /\ Asked = g + 1
    BY <2>2, <2>3 DEF Hashed, Asked
  <2>6. g \in Nat /\ v \in Nat /\ Len(Program) = g + v + 7
    BY <2>3
  <2>7. level # 6 /\ level = 5
    BY <1>2
  <2>5. ASSUME NEW i \in 1..Len(Program) PROVE Placed(i)
    <3>0. PICK op, k : op = Program[i].op /\ k = Program[i].tree
      OBVIOUS
    <3>1. CASE i <= g
      <4>1. Program[i] \in Gathering
        BY <2>3, <3>1
      <4>2. i <= Hashed /\ ~(i > Asked) /\ i # Asked /\ i # Hashed + 6
        BY ONLY <2>4, <2>6, <3>1, i \in 1..Len(Program)
      <4>3. op \in {"mark", "read", "check", "keep", "same"}
        BY <3>0, <4>1 DEF Gathering
      <4>4. IF op \in OnSlots THEN k \in Slots ELSE k \in Trees
        BY <3>0, <4>1, <2>1 DEF Gathering, OnSlots
      <4>5. op \in Ops /\ op # "hash" /\ op # "thaw" /\ op # "use" /\ op # "freeze"
        BY ONLY <4>3 DEF Ops
      <4> QED
        BY ONLY <2>7, <3>0, <4>2, <4>4, <4>5, Zenon DEF Placed
    <3>2. CASE i = g + 1
      <4>1. op = "again" /\ k = 5
        BY <2>3, <3>0, <3>2
      <4>2. i <= Hashed /\ ~(i > Asked) /\ i = Asked /\ i # Hashed + 6
        BY ONLY <2>4, <2>6, <3>2
      <4>3. "again" \notin OnSlots /\ "again" \in Ops /\ 5 \in Trees
        BY <2>1 DEF OnSlots, Ops
      <4>5. op # "hash" /\ op # "thaw" /\ op # "use" /\ op # "freeze" /\ op # "keep"
        BY ONLY <4>1
      <4> QED
        BY ONLY <2>7, <3>0, <4>1, <4>2, <4>3, <4>5, Zenon DEF Placed
    <3>3. CASE i > g + 1 /\ i <= g + v + 1
      <4>1. PICK j : j = i - (g + 1)
        OBVIOUS
      <4>2. j \in 1..v /\ i = g + 1 + j
        BY ONLY <2>6, <3>3, <4>1, i \in 1..Len(Program)
      <4>3. Program[i] \in Checking
        BY <2>3, <4>2
      <4>4. i <= Hashed /\ i # Asked /\ i # Hashed + 6
        BY ONLY <2>4, <2>6, <3>3, i \in 1..Len(Program)
      <4>5. op \in {"mark", "read", "check", "same"}
        BY <3>0, <4>3 DEF Checking
      <4>6. IF op \in OnSlots THEN k \in Slots ELSE k \in Trees
        BY <3>0, <4>3, <2>1 DEF Checking, OnSlots
      <4>7. op \in Ops /\ op # "hash" /\ op # "thaw" /\ op # "use" /\ op # "freeze" /\ op # "keep"
        BY ONLY <4>5 DEF Ops
      <4> QED
        BY ONLY <2>7, <3>0, <4>4, <4>6, <4>7, Zenon DEF Placed
    <3>4. CASE i > g + v + 1 /\ i <= g + v + 6
      <4>1. PICK j : j = i - (g + v + 1)
        OBVIOUS
      <4>2. j \in 1..5 /\ i = g + v + 1 + j /\ i = Hashed + j
        BY ONLY <2>4, <2>6, <3>4, <4>1, i \in 1..Len(Program)
      <4>6. Program[i] = [op |-> "hash", tree |-> j]
        BY <2>3, <4>2, Zenon
      <4>3. op = "hash" /\ k = j
        BY <3>0, <4>6
      <4>4. i # Asked /\ i # Hashed + 6
        BY ONLY <2>4, <2>6, <4>2
      <4>8. j \in Trees
        BY <2>1, <4>2
      <4>5. "hash" \notin OnSlots /\ "hash" \in Ops
        BY DEF OnSlots, Ops
      <4>7. op \in {"hash", "thaw", "use"} /\ op # "thaw" /\ op # "use" /\ op # "freeze" /\ op # "keep"
        BY ONLY <4>3
      <4> QED
        BY ONLY <2>7, <3>0, <4>2, <4>3, <4>4, <4>5, <4>7, <4>8, Zenon DEF Placed
    <3>5. CASE i = g + v + 7
      <4>1. op = "use" /\ k = Governed
        BY <2>3, <3>0, <3>5
      <4>2. i = Hashed + 6 /\ i # Asked
        BY ONLY <2>4, <2>6, <3>5
      <4>4. Governed \in Slots
        BY DEF Governed, Slots
      <4>3. "use" \in OnSlots /\ "use" \in Ops
        BY DEF OnSlots, Ops
      <4>7. op \in {"hash", "thaw", "use"} /\ op # "thaw" /\ op # "hash" /\ op # "freeze" /\ op # "keep"
        BY ONLY <4>1
      <4> QED
        BY ONLY <2>7, <3>0, <4>1, <4>2, <4>3, <4>4, <4>7, Zenon DEF Placed
    <3> QED
      BY ONLY <2>6, <3>1, <3>2, <3>3, <3>4, <3>5, i \in 1..Len(Program)
  <2>8. Len(Program) \in Nat /\ Hashed \in Nat /\ Len(Program) = Hashed + 6 /\ Asked <= Hashed /\ Hashed > 0
    BY ONLY <2>4, <2>6
  <2> QED
    BY ONLY <1>1, <2>5, <2>7, <2>8
<1>3. CASE level = 6
  <2>1. Program = Phase06 /\ Trees = 1..6
    BY <1>3 DEF Program, Trees
  <2>2. PICK n : n = Len(Phase05)
    OBVIOUS
  <2>3. /\ n \in Nat /\ n >= 7
        /\ Len(Program) = n + n + 15
        /\ \A k \in 1..6 : Program[k] = [op |-> "freeze", tree |-> k]
        /\ \A i \in 7..(n + n + 7) : Program[i] \in Inner
        /\ Program[n + n + 8] = [op |-> "read", tree |-> 6]
        /\ Program[n + n + 9] = [op |-> "publication", tree |-> 1]
        /\ \A k \in 1..6 : Program[n + n + 9 + k] = [op |-> "thaw", tree |-> k]
    BY <2>1, <2>2, Phase06Is, Phase05Is
  <2>4. Hashed = n + n + 9
    BY <2>3 DEF Hashed
  <2>6. n \in Nat /\ n >= 7 /\ Len(Program) = n + n + 15
    BY <2>3
  <2>8. level = 6 /\ level # 5
    BY <1>3
  <2>5. ASSUME NEW i \in 1..Len(Program) PROVE Placed(i)
    <3>0. PICK op, k : op = Program[i].op /\ k = Program[i].tree
      OBVIOUS
    <3>1. CASE i <= 6
      <4>1. i \in 1..6
        BY ONLY <2>6, <3>1, i \in 1..Len(Program)
      <4>2. Program[i] = [op |-> "freeze", tree |-> i]
        BY <2>3, <4>1, Zenon
      <4>3. op = "freeze" /\ k = i
        BY <3>0, <4>2
      <4>4. i # Hashed - 1 /\ ~(i >= Hashed) /\ i <= Hashed
        BY ONLY <2>4, <2>6, <4>1
      <4>5. "freeze" \notin OnSlots /\ "freeze" \in Ops /\ i \in Trees
        BY <2>1, <4>1 DEF OnSlots, Ops
      <4>6. op # "hash" /\ op # "thaw" /\ op # "use"
        BY ONLY <4>3
      <4> QED
        BY ONLY <2>8, <3>0, <4>3, <4>4, <4>5, <4>6, Zenon DEF Placed
    <3>2. CASE i > 6 /\ i <= n + n + 7
      <4>1. Program[i] \in Inner
        BY <2>3, <3>2
      <4>2. i <= Hashed /\ i # Hashed - 1 /\ ~(i <= 6) /\ ~(i >= Hashed)
        BY ONLY <2>4, <2>6, <3>2, i \in 1..Len(Program)
      <4>3. op \in {"mark", "read", "check", "keep", "same", "again", "hash", "use"}
        BY <3>0, <4>1 DEF Inner, Gathering
      <4>4. IF op \in OnSlots THEN k \in Slots ELSE k \in Trees
        BY <3>0, <4>1, <2>1 DEF Inner, Gathering, OnSlots
      <4>5. op \in Ops /\ op # "thaw" /\ op # "freeze"
        BY ONLY <4>3 DEF Ops
      <4> QED
        BY ONLY <2>8, <3>0, <4>2, <4>4, <4>5, Zenon DEF Placed
    <3>3. CASE i = n + n + 8
      <4>1. Program[i] = [op |-> "read", tree |-> 6]
        BY <2>3, <3>3, Zenon
      <4>2. op = "read" /\ k = 6
        BY <3>0, <4>1
      <4>3. i <= Hashed /\ ~(i <= 6) /\ ~(i >= Hashed)
        BY ONLY <2>4, <2>6, <3>3
      <4>4. "read" \notin OnSlots /\ "read" \in Ops /\ 6 \in Trees
        BY <2>1 DEF OnSlots, Ops
      <4>5. op # "hash" /\ op # "thaw" /\ op # "use" /\ op # "freeze"
        BY ONLY <4>2
      <4> QED
        BY ONLY <2>8, <3>0, <4>2, <4>3, <4>4, <4>5, Zenon DEF Placed
    <3>4. CASE i = n + n + 9
      <4>1. Program[i] = [op |-> "publication", tree |-> 1]
        BY <2>3, <3>4, Zenon
      <4>2. op = "publication" /\ k = 1
        BY <3>0, <4>1
      <4>3. i <= Hashed /\ i # Hashed - 1 /\ ~(i <= 6)
        BY ONLY <2>4, <2>6, <3>4
      <4>4. "publication" \notin OnSlots /\ "publication" \in Ops /\ 1 \in Trees
        BY <2>1 DEF OnSlots, Ops
      <4>5. op # "hash" /\ op # "thaw" /\ op # "use" /\ op # "freeze" /\ op \in {"publication", "thaw"}
        BY ONLY <4>2
      <4> QED
        BY ONLY <2>8, <3>0, <4>2, <4>3, <4>4, <4>5, Zenon DEF Placed
    <3>5. CASE i > n + n + 9
      <4>1. PICK j : j = i - (n + n + 9)
        OBVIOUS
      <4>2. j \in 1..6 /\ i = n + n + 9 + j /\ i = Hashed + j
        BY ONLY <2>4, <2>6, <3>5, <4>1, i \in 1..Len(Program)
      <4>3. Program[i] = [op |-> "thaw", tree |-> j]
        BY <2>3, <4>2, Zenon
      <4>4. op = "thaw" /\ k = j
        BY <3>0, <4>3
      <4>5. ~(i <= 6) /\ i # Hashed - 1
        BY ONLY <2>4, <2>6, <4>2
      <4>6. "thaw" \notin OnSlots /\ "thaw" \in Ops /\ j \in Trees
        BY <2>1, <4>2 DEF OnSlots, Ops
      <4>7. op # "hash" /\ op # "use" /\ op # "freeze" /\ op \in {"publication", "thaw"} /\ op \in {"hash", "thaw", "use"}
        BY ONLY <4>4
      <4> QED
        BY ONLY <2>8, <3>0, <4>2, <4>4, <4>5, <4>6, <4>7, Zenon DEF Placed
    <3> QED
      BY ONLY <2>6, <3>1, <3>2, <3>3, <3>4, <3>5, i \in 1..Len(Program)
  <2>7. Len(Program) \in Nat /\ Hashed \in Nat /\ Len(Program) = Hashed + 6 /\ Hashed > 8
    BY ONLY <2>4, <2>6
  <2> QED
    BY ONLY <1>1, <1>3, <2>5, <2>7
<1> QED
  BY <1>2, <1>3

\* ContentRows: revisions that were given so far.
ContentRows == {c \in Seq(0..replaced) : Len(c) <= level}

Typed == /\ level \in Levels /\ replaced \in 0..MaxChanges
         /\ trees \in [Trees -> ContentRows] /\ \A k \in Trees : Len(trees[k]) = k
         /\ trees \in seen
         /\ mark \in [Trees -> ContentRows] /\ outer \in [Trees -> ContentRows] /\ bound \in [Trees -> ContentRows]
         /\ trust \in ContentRows /\ saved \in [Slots -> ContentRows]
         /\ point \in 0..Len(Program) + 1 /\ confirmed \in BOOLEAN
         /\ authority # Nothing =>
              authority \in [trust : ContentRows, hashes : [Trees -> ContentRows]] /\ Len(authority.trust) = level

\* What the reconstruction is going to be compared with: in an activation the
\* digests taken first, in an amendment the hashes of the authority required.
Reference == IF level = 6 THEN outer ELSE authority.hashes

\* The comparison is behind, tree by tree: the step of tree k is the k-th after Hashed.
Past(k) == point > Hashed + k

\* Tree k is what it is compared with, as far as the reconstruction has got.
Agrees(k) == IF Past(k) THEN level = 5 => bound[k] = Reference[k] ELSE trees[k] = Reference[k]

Lineage(c) == \A j \in 1..Len(c) : SubSeq(c, 1, j) = Reference[j]

Compared == point > 0 /\ (level = 6 \/ authority # Nothing) /\ \A k \in Trees : Agrees(k)

\* If everything agrees, what was verified is of one lineage, which was on trees at one moment.
Trusted == Compared => Reference \in seen /\ Lineage(trust) /\ \A s \in Slots : Lineage(saved[s])

\* Nothing is verified between two reconstructions, nor while an activation takes its digests.
Fresh == point = 0 \/ (level = 6 /\ point <= 7) => trust = Nothing /\ \A s \in Slots : saved[s] = Nothing

\* How much was verified.
Grown == /\ level = 6 /\ point >= Hashed => Len(trust) = 6
         /\ level = 5 /\ point > Asked => Len(saved[Governed]) = 5
         /\ level = 5 /\ point > Hashed + 6 => Len(trust) = 5

\* What is said of an authority.
Exact == /\ confirmed => point = 0 /\ authority # Nothing /\ OfOneLineage(authority) /\ AtOneMoment(authority)
         /\ level = 6 /\ authority # Nothing =>
              OfOneLineage(authority) /\ (point = 0 => AtOneMoment(authority))

XInv == Typed /\ Trusted /\ Fresh /\ Grown /\ Exact

LEMMA WholeIs == ASSUME NEW S, NEW c \in Seq(S) PROVE SubSeq(c, 1, Len(c)) = c
<1>1. PICK n : n = Len(c)
  OBVIOUS
<1>2. n \in Nat /\ \A i \in 1..n : c[i] \in S
  BY <1>1
<1>3. PICK d : d = SubSeq(c, 1, n)
  OBVIOUS
<1>4. d \in Seq(S) /\ Len(d) = n /\ \A i \in 1..n : d[i] = c[i]
  BY <1>2, <1>3, SubSeqProperties
<1> QED
  BY <1>1, <1>3, <1>4, SeqEqual

LEMMA PartIs ==
  ASSUME NEW S, NEW c \in Seq(S), NEW j \in 1..Len(c), j < Len(c)
  PROVE  j \in 1..Len(Front(c)) /\ SubSeq(c, 1, j) = SubSeq(Front(c), 1, j)
<1>1. PICK n, f : n = Len(c) /\ f = Front(c)
  OBVIOUS
<1>2. n \in Nat /\ \A i \in 1..n : c[i] \in S
  BY <1>1
<1>3. f = SubSeq(c, 1, n - 1)
  BY <1>1 DEF Front
<1>4. f \in Seq(S) /\ Len(f) = n - 1 /\ \A i \in 1..n - 1 : f[i] = c[i]
  BY <1>1, <1>2, <1>3, SubSeqProperties
<1>5. PICK d, e : d = SubSeq(c, 1, j) /\ e = SubSeq(f, 1, j)
  OBVIOUS
<1>6. d \in Seq(S) /\ Len(d) = j /\ \A i \in 1..j : d[i] = c[i]
  BY <1>1, <1>2, <1>5, SubSeqProperties
<1>7. e \in Seq(S) /\ Len(e) = j /\ \A i \in 1..j : e[i] = f[i]
  BY <1>1, <1>2, <1>4, <1>5, SubSeqProperties
<1>8. d = e
  <2>1. \A i \in 1..j : i \in 1..n - 1
    BY <1>1, <1>2
  <2>2. \A i \in 1..j : d[i] = e[i]
    BY <2>1, <1>4, <1>6, <1>7, Zenon
  <2> QED
    BY <2>2, <1>6, <1>7, SeqEqual
<1> QED
  BY <1>1, <1>4, <1>5, <1>8

\* What does not change while the level stays.
LEMMA LevelStays == ASSUME level' = level PROVE Trees' = Trees /\ Program' = Program /\ Hashed' = Hashed
BY DEF Trees, Program, Hashed

LEMMA Sizes == ASSUME Typed PROVE level \in {5, 6} /\ Trees = 1..level /\ Slots = 1..4 /\ replaced \in Nat
BY AuthorityAssumption DEF Typed, Trees, Slots

LEMMA XInitInv == XInit => XInv
<1> SUFFICES ASSUME XInit PROVE XInv
  OBVIOUS
<1>1. level \in {5, 6} /\ replaced = 0
  BY AuthorityAssumption DEF XInit
<1>2. Nothing \in ContentRows
  BY <1>1 DEF ContentRows, Nothing
<1>3. trees \in [Trees -> ContentRows] /\ \A k \in Trees : Len(trees[k]) = k
  <2>1. ASSUME NEW k \in Trees PROVE trees[k] \in ContentRows /\ Len(trees[k]) = k
    <3>1. PICK c : c = trees[k]
      OBVIOUS
    <3>2. k \in Nat /\ k <= level
      BY <1>1 DEF Trees
    <3>3. c = [i \in 1..k |-> 0]
      BY <3>1 DEF XInit
    <3>4. c \in [1..k -> 0..replaced]
      BY <3>3, <1>1
    <3>5. c \in Seq(0..replaced) /\ Len(c) = k
      BY <3>2, <3>4, RowIs
    <3> QED
      BY <3>1, <3>2, <3>5 DEF ContentRows
  <2>2. DOMAIN trees = Trees /\ trees = [k \in Trees |-> trees[k]]
    BY DEF XInit
  <2> QED
    BY <2>1, <2>2
<1>4. Typed
  <2>1. mark \in [Trees -> ContentRows] /\ outer \in [Trees -> ContentRows] /\ bound \in [Trees -> ContentRows]
    BY <1>2 DEF XInit
  <2>2. saved \in [Slots -> ContentRows] /\ trust \in ContentRows
    BY <1>2 DEF XInit, Slots
  <2>3. point \in 0..Len(Program) + 1 /\ confirmed \in BOOLEAN
    <3>1. PICK n : n = Len(Program)
      OBVIOUS
    <3>2. n \in Nat /\ point = 0 /\ confirmed = FALSE
      BY <1>1, <3>1, ProgramIs DEF XInit
    <3>3. 0 \in 0..n + 1
      BY <3>2
    <3> QED
      BY <3>1, <3>2, <3>3
  <2>4. level \in Levels /\ replaced \in 0..MaxChanges /\ trees \in seen /\ authority = Nothing
    BY AuthorityAssumption DEF XInit
  <2> QED
    BY <1>3, <2>1, <2>2, <2>3, <2>4 DEF Typed
<1>5. Trusted /\ Fresh /\ Exact
  BY DEF XInit, Trusted, Compared, Fresh, Exact, Slots, Nothing
<1>6. Grown
  <2>1. point = 0
    BY DEF XInit
  <2> QED
    BY <1>1, <2>1, ProgramIs DEF Grown
<1> QED
  BY <1>4, <1>5, <1>6 DEF XInv

LEMMA StepAt ==
  ASSUME Typed, NEW op, At(op)
  PROVE  point \in 1..Len(Program) /\ point \in Nat /\ Placed(point) /\ Program[point].op = op
<1>1. PICK n : n = Len(Program)
  OBVIOUS
<1>2. n \in Nat /\ point \in 0..n + 1 /\ point > 0 /\ point <= n
  BY <1>1, Sizes, ProgramIs DEF Typed, At
<1>3. point \in 1..n /\ point \in Nat
  BY <1>2
<1> QED
  BY <1>1, <1>3, Sizes, ProgramIs DEF At

\* A step that goes on: what was typed stays so when the digests and contents it takes are.
LEMMA StepTyped ==
  ASSUME Typed, NEW op, At(op), Step,
         mark' \in [Trees -> ContentRows], outer' \in [Trees -> ContentRows], bound' \in [Trees -> ContentRows],
         trust' \in ContentRows, saved' \in [Slots -> ContentRows]
  PROVE  Typed'
<1>1. Trees' = Trees /\ Program' = Program /\ ContentRows' = ContentRows
  BY LevelStays DEF Step, ContentRows
<1>2. point' \in 0..Len(Program) + 1
  <2>1. PICK n : n = Len(Program)
    OBVIOUS
  <2>2. point \in 1..n /\ n \in Nat /\ point' = point + 1
    BY <2>1, StepAt, Sizes, ProgramIs DEF Step
  <2>3. point' \in 0..n + 1
    BY <2>2
  <2> QED
    BY <2>1, <2>3
<1> QED
  BY <1>1, <1>2 DEF Typed, Step

\* If all trees agree after a step, they agreed before it.
LEMMA ComparedBack ==
  ASSUME Typed, NEW op, At(op), Step, op # "freeze", UNCHANGED outer,
         \A k \in Trees : point # Hashed + k => bound'[k] = bound[k] \/ level = 6,
         \A k \in Trees : point = Hashed + k =>
           IF level = 6 THEN trees[k] = outer[k] ELSE bound'[k] = trees[k],
         Compared'
  PROVE  Compared /\ Reference' = Reference
<1>1. Trees' = Trees /\ Hashed' = Hashed /\ level \in {5, 6} /\ Hashed \in Nat
  BY LevelStays, Sizes, ProgramIs DEF Step
<1>2. Reference' = Reference
  BY DEF Reference, Step
<1>3. point \in Nat /\ point > 0 /\ point' = point + 1
  BY StepAt DEF At, Step
<1>4. ASSUME NEW k \in Trees PROVE Agrees(k)
  <2>1. Agrees(k)'
    BY <1>1 DEF Compared
  <2>2. k \in Nat
    BY Sizes
  <2>3. CASE Past(k)
    <3>1. Past(k)' /\ point # Hashed + k
      BY <1>1, <1>3, <2>2, <2>3 DEF Past
    <3> QED
      BY <1>1, <1>2, <2>1, <2>3, <3>1 DEF Agrees, Step
  <2>4. CASE ~Past(k) /\ point = Hashed + k
    <3>1. Past(k)'
      BY <1>1, <1>3, <2>2, <2>4 DEF Past
    <3>2. CASE level = 6
      BY <2>4, <3>2 DEF Agrees, Reference
    <3>3. CASE level = 5
      <4>1. bound'[k] = trees[k] /\ level' = 5
        BY <2>4, <3>3 DEF Step
      <4>2. bound'[k] = Reference[k]
        BY <1>2, <2>1, <3>1, <4>1 DEF Agrees
      <4> QED
        BY <2>4, <4>1, <4>2 DEF Agrees
    <3> QED
      BY <1>1, <3>2, <3>3
  <2>5. CASE ~Past(k) /\ point # Hashed + k
    <3>1. ~Past(k)'
      BY <1>1, <1>3, <2>2, <2>5 DEF Past
    <3> QED
      BY <1>2, <2>1, <2>5, <3>1 DEF Agrees, Step
  <2> QED
    BY <2>3, <2>4, <2>5
<1> QED
  BY <1>2, <1>3, <1>4 DEF Compared, Step

\* Before or after an exact authority is loaded, a step leaves it alone.
LEMMA StepExact == ASSUME XInv, NEW op, At(op), Step PROVE Exact'
<1>1. point > 0 /\ point' = point + 1 /\ point \in Nat /\ Trees' = Trees
  BY StepAt, LevelStays DEF XInv, At, Step
<1>2. ~confirmed /\ point' # 0
  BY <1>1 DEF XInv, Exact
<1> QED
  BY <1>1, <1>2 DEF XInv, Exact, Step, OfOneLineage

\* Nothing is verified while an activation takes its digests.
LEMMA StepFresh == ASSUME XInv, NEW op, At(op), Step, op # "freeze" PROVE Fresh'
<1>1. point \in Nat /\ point > 0 /\ point' = point + 1 /\ Placed(point) /\ Program[point].op = op
  BY StepAt DEF XInv, At, Step
<1>2. ~(level = 6 /\ point' <= 7)
  BY <1>1 DEF Placed
<1> QED
  BY <1>1, <1>2 DEF Fresh, Step

\* What was verified is as much as before, unless a step reads or takes it up again.
LEMMA StepGrown ==
  ASSUME XInv, NEW op, At(op), Step, op \notin {"read", "use", "keep"},
         UNCHANGED <<trust, saved>>,
         op = "again" /\ level = 5 /\ point = Asked => Len(saved[Governed]) = 5
  PROVE  Grown'
<1>1. point \in Nat /\ point' = point + 1 /\ Placed(point) /\ Program[point].op = op /\ Hashed' = Hashed
  BY StepAt, LevelStays DEF XInv, Step
<1>2. level \in {5, 6} /\ Hashed \in Nat /\ Asked \in Nat
  BY Sizes, ProgramIs DEF XInv
<1>3. ASSUME level = 6, point' >= Hashed PROVE Len(trust') = 6
  <2>1. point # Hashed - 1
    BY <1>1, <1>3 DEF Placed
  <2>2. point >= Hashed
    BY <1>1, <1>2, <1>3, <2>1
  <2> QED
    BY <1>3, <2>2 DEF XInv, Grown
<1>4. ASSUME level = 5, point' > Asked PROVE Len(saved'[Governed]) = 5
  <2>1. CASE point = Asked
    BY <1>1, <1>4, <2>1 DEF Placed
  <2>2. CASE point # Asked
    <3>1. point > Asked
      BY <1>1, <1>2, <1>4, <2>2
    <3> QED
      BY <1>4, <3>1 DEF XInv, Grown
  <2> QED
    BY <2>1, <2>2
<1>5. ASSUME level = 5, point' > Hashed + 6 PROVE Len(trust') = 5
  <2>1. point # Hashed + 6
    BY <1>1, <1>5 DEF Placed
  <2>2. point > Hashed + 6
    BY <1>1, <1>2, <1>5, <2>1
  <2> QED
    BY <1>5, <2>2 DEF XInv, Grown
<1> QED
  BY <1>1, <1>3, <1>4, <1>5 DEF Grown, Step

LEMMA MarkInv == ASSUME XInv, Mark PROVE XInv'
<1>1. At("mark") /\ Step /\ UNCHANGED <<outer, trust, saved, bound>> /\ mark' = [mark EXCEPT ![Tree] = trees[Tree]]
  BY DEF Mark
<1>2. Placed(point) /\ point <= Hashed /\ Tree \in Trees /\ point \in Nat /\ Hashed \in Nat
  BY <1>1, StepAt, Sizes, ProgramIs DEF XInv, Placed, Tree, OnSlots
<1>3. Typed'
  BY <1>1, <1>2, StepTyped DEF XInv, Typed
<1>4. Trusted'
  <2> SUFFICES ASSUME Compared' PROVE Trusted'
    BY DEF Trusted
  <2>1. \A k \in Trees : point # Hashed + k
    BY <1>2, Sizes DEF XInv
  <2>2. Compared /\ Reference' = Reference
    BY <1>1, <2>1, ComparedBack DEF XInv
  <2> QED
    BY <1>1, <2>2 DEF XInv, Trusted, Lineage, Step
<1> QED
  BY <1>1, <1>3, <1>4, StepExact, StepFresh, StepGrown DEF XInv

LEMMA HashInv == ASSUME XInv, Hash PROVE XInv'
<1>1. At("hash") /\ Step /\ UNCHANGED <<mark, outer, trust, saved>> /\ bound' = [bound EXCEPT ![Tree] = trees[Tree]]
  BY DEF Hash
<1>2. /\ Placed(point) /\ Tree \in Trees /\ point \in Nat /\ Hashed \in Nat /\ Program[point].op = "hash"
      /\ level \in {5, 6} /\ bound \in [Trees -> ContentRows]
  BY <1>1, StepAt, Sizes, ProgramIs, SMTT(40) DEF XInv, Placed, Tree, OnSlots, Typed
<1>3. level = 6 \/ point = Hashed + Tree
  BY <1>2 DEF Placed, Tree
<1>4. Typed'
  BY <1>1, <1>2, StepTyped DEF XInv, Typed
<1>5. Trusted'
  <2> SUFFICES ASSUME Compared' PROVE Trusted'
    BY DEF Trusted
  <2>1. ASSUME NEW k \in Trees, point # Hashed + k PROVE bound'[k] = bound[k] \/ level = 6
    BY <1>1, <1>2, <1>3, <2>1
  <2>2. ASSUME NEW k \in Trees, point = Hashed + k PROVE level = 5 /\ bound'[k] = trees[k]
    <3>1. level = 5 /\ Tree \in Nat /\ k \in Nat
      BY <1>2, <2>2, Sizes DEF Placed, XInv
    <3>2. k = Tree
      BY <1>2, <1>3, <2>2, <3>1
    <3> QED
      BY <1>1, <1>2, <3>1, <3>2
  <2>3. Compared /\ Reference' = Reference
    BY <1>1, <2>1, <2>2, ComparedBack DEF XInv
  <2> QED
    BY <1>1, <2>3 DEF XInv, Trusted, Lineage, Step
<1> QED
  BY <1>1, <1>4, <1>5, StepExact, StepFresh, StepGrown DEF XInv

LEMMA TestInv == ASSUME XInv, Test PROVE XInv'
<1>1. PICK op \in {"check", "thaw", "same", "again", "publication"} : At(op) /\ Holds(op, Tree)
  BY DEF Test
<1>2. Step /\ UNCHANGED <<mark, outer, trust, saved, bound>>
  BY DEF Test
<1>3. /\ Placed(point) /\ point \in Nat /\ Hashed \in Nat /\ Program[point].op = op /\ level \in {5, 6}
      /\ Trees = 1..level
  BY <1>1, StepAt, Sizes, ProgramIs DEF XInv
<1>4. Typed'
  BY <1>1, <1>2, StepTyped DEF XInv, Typed
<1>5. Trusted'
  <2> SUFFICES ASSUME Compared' PROVE Trusted'
    BY DEF Trusted
  <2>1. ASSUME NEW k \in Trees, point = Hashed + k PROVE level = 6 /\ trees[k] = outer[k]
    <3>1. op = "thaw"
      BY <1>1, <1>3, <2>1 DEF Placed
    <3>2. level = 6 /\ point = Hashed + Tree
      BY <1>3, <3>1 DEF Placed, Tree
    <3>3. Tree \in Trees
      BY <1>3, <3>1 DEF Placed, Tree, OnSlots
    <3>4. k = Tree
      BY <1>3, <2>1, <3>2, <3>3
    <3> QED
      BY <1>1, <3>1, <3>2, <3>4 DEF Holds
  <2>2. Compared /\ Reference' = Reference
    BY <1>1, <1>2, <2>1, ComparedBack DEF XInv
  <2> QED
    BY <1>2, <2>2 DEF XInv, Trusted, Lineage, Step
<1>6. op = "again" /\ level = 5 /\ point = Asked => Len(saved[Governed]) = 5
  <2> SUFFICES ASSUME op = "again", level = 5, point = Asked PROVE Len(saved[Governed]) = 5
    OBVIOUS
  <2>1. Tree = 5 /\ 5 \in Trees
    BY <1>3 DEF Placed, Tree
  <2>2. trees[5] = saved[Governed]
    BY <1>1, <2>1 DEF Holds
  <2> QED
    BY <2>1, <2>2 DEF XInv, Typed
<1> QED
  BY <1>1, <1>2, <1>4, <1>5, <1>6, StepExact, StepFresh, StepGrown DEF XInv

LEMMA KeepInv == ASSUME XInv, Keep PROVE XInv'
<1>1. At("keep") /\ Step /\ UNCHANGED <<mark, outer, trust, bound>> /\ saved' = [saved EXCEPT ![Tree] = trust]
  BY DEF Keep
<1>2. /\ Placed(point) /\ point <= Hashed /\ Tree \in Slots /\ point \in Nat /\ Hashed \in Nat /\ Asked \in Nat
      /\ Program[point].op = "keep" /\ level \in {5, 6} /\ saved \in [Slots -> ContentRows] /\ point' = point + 1
      /\ Hashed' = Hashed
  BY <1>1, StepAt, Sizes, ProgramIs, LevelStays DEF XInv, Placed, Tree, OnSlots, Typed, Step
<1>3. Typed'
  BY <1>1, <1>2, StepTyped DEF XInv, Typed
<1>4. Trusted'
  <2> SUFFICES ASSUME Compared' PROVE Trusted'
    BY DEF Trusted
  <2>1. \A k \in Trees : point # Hashed + k
    BY <1>2, Sizes DEF XInv
  <2>2. Compared /\ Reference' = Reference
    BY <1>1, <2>1, ComparedBack DEF XInv
  <2>3. Reference \in seen /\ Lineage(trust) /\ \A s \in Slots : Lineage(saved[s])
    BY <2>2 DEF XInv, Trusted
  <2>4. \A s \in Slots : Lineage(saved'[s])
    BY <1>1, <1>2, <2>3
  <2> QED
    BY <1>1, <2>2, <2>3, <2>4 DEF Trusted, Lineage, Step
<1>5. Grown'
  <2>1. level = 6 => point # Hashed - 1 /\ ~(point >= Hashed)
    BY <1>2 DEF Placed
  <2>2. level = 6 => ~(point' >= Hashed)
    BY <1>2, <2>1
  <2>3. level = 5 => point # Asked /\ ~(point > Asked) /\ point # Hashed + 6
    BY <1>2 DEF Placed
  <2>4. level = 5 => ~(point' > Asked) /\ ~(point' > Hashed + 6)
    BY <1>2, <2>3
  <2> QED
    BY <1>1, <1>2, <2>2, <2>4 DEF Grown, Step
<1> QED
  BY <1>1, <1>3, <1>4, <1>5, StepExact, StepFresh DEF XInv

LEMMA UseInv == ASSUME XInv, Use PROVE XInv'
<1>1. At("use") /\ Step /\ UNCHANGED <<mark, outer, saved, bound>> /\ trust' = saved[Tree]
  BY DEF Use
<1>2. /\ Placed(point) /\ Tree \in Slots /\ point \in Nat /\ Hashed \in Nat /\ Asked \in Nat
      /\ Program[point].op = "use" /\ level \in {5, 6} /\ saved \in [Slots -> ContentRows] /\ point' = point + 1
      /\ Hashed' = Hashed
  BY <1>1, StepAt, Sizes, ProgramIs, LevelStays DEF XInv, Placed, Tree, OnSlots, Typed, Step
<1>3. Typed'
  BY <1>1, <1>2, StepTyped DEF XInv, Typed
<1>4. Trusted'
  <2> SUFFICES ASSUME Compared' PROVE Trusted'
    BY DEF Trusted
  <2>1. ASSUME NEW k \in Trees PROVE point # Hashed + k
    <3>1. point <= Hashed \/ (level = 5 /\ point = Hashed + 6)
      BY <1>2 DEF Placed
    <3>2. k \in 1..level
      BY Sizes DEF XInv
    <3> QED
      BY <1>2, <3>1, <3>2
  <2>2. Compared /\ Reference' = Reference
    BY <1>1, <2>1, ComparedBack DEF XInv
  <2>3. Reference \in seen /\ Lineage(trust) /\ \A s \in Slots : Lineage(saved[s])
    BY <2>2 DEF XInv, Trusted
  <2>4. Lineage(trust') /\ \A s \in Slots : Lineage(saved'[s])
    BY <1>1, <1>2, <2>3
  <2> QED
    BY <1>1, <2>2, <2>3, <2>4 DEF Trusted, Lineage, Step
<1>5. Grown'
  <2>1. level = 6 => ~(point' >= Hashed)
    <3>1. level = 6 => point # Hashed - 1 /\ ~(point >= Hashed)
      BY <1>2 DEF Placed
    <3> QED
      BY <1>2, <3>1
  <2>2. ASSUME level = 5 PROVE point' > Asked => Len(saved'[Governed]) = 5
    <3>1. point # Asked
      BY <1>2, <2>2 DEF Placed
    <3>2. point' > Asked => point > Asked
      BY <1>2, <3>1
    <3> QED
      BY <1>1, <2>2, <3>2 DEF XInv, Grown
  <2>3. ASSUME level = 5, point' > Hashed + 6 PROVE Len(trust') = 5
    <3>1. point = Hashed + 6 \/ point <= Hashed
      BY <1>2 DEF Placed
    <3>2. point = Hashed + 6 /\ Asked <= Hashed
      BY <1>2, <2>3, <3>1, ProgramIs
    <3>3. Tree = Governed
      BY <1>2, <2>3, <3>2 DEF Placed, Tree
    <3>4. point > Asked
      BY <1>2, <3>2
    <3> QED
      BY <1>1, <2>3, <3>3, <3>4 DEF XInv, Grown
  <2> QED
    BY <1>1, <1>2, <2>1, <2>2, <2>3 DEF Grown, Step
<1> QED
  BY <1>1, <1>3, <1>4, <1>5, StepExact, StepFresh DEF XInv

LEMMA ReadInv == ASSUME XInv, Read PROVE XInv'
<1>1. /\ At("read") /\ Step /\ UNCHANGED <<mark, outer, saved, bound>> /\ trust' = trees[Tree]
      /\ Tree > 1 => Front(trees[Tree]) = trust
  BY DEF Read, Attests
<1>2. /\ Placed(point) /\ point <= Hashed /\ Tree \in Trees /\ point \in Nat /\ Hashed \in Nat /\ Asked \in Nat
      /\ Program[point].op = "read" /\ level \in {5, 6} /\ point' = point + 1 /\ Hashed' = Hashed /\ Trees = 1..level
  BY <1>1, StepAt, Sizes, ProgramIs, LevelStays DEF XInv, Placed, Tree, OnSlots, Step
<1>3. trees[Tree] \in ContentRows /\ trees[Tree] \in Seq(0..replaced) /\ Len(trees[Tree]) = Tree
  BY <1>2 DEF XInv, Typed, ContentRows
<1>4. Typed'
  BY <1>1, <1>3, StepTyped DEF XInv, Typed
<1>5. Trusted'
  <2> SUFFICES ASSUME Compared' PROVE Trusted'
    BY DEF Trusted
  <2>1. \A k \in Trees : point # Hashed + k
    BY <1>2
  <2>2. Compared /\ Reference' = Reference
    BY <1>1, <2>1, ComparedBack DEF XInv
  <2>3. Reference \in seen /\ Lineage(trust) /\ \A s \in Slots : Lineage(saved[s])
    BY <2>2 DEF XInv, Trusted
  <2>4. \A k \in Trees : trees[k] = Reference[k]
    <3>1. \A k \in Trees : ~Past(k)
      BY <1>2 DEF Past
    <3> QED
      BY <2>2, <3>1 DEF Compared, Agrees
  <2>5. ASSUME NEW j \in 1..Tree PROVE SubSeq(trees[Tree], 1, j) = Reference[j]
    <3>1. CASE j = Tree
      BY <3>1, <1>2, <1>3, <2>4, WholeIs
    <3>2. CASE j # Tree
      <4>1. Tree \in Nat /\ j < Tree /\ Tree > 1
        BY <1>2, <2>5, <3>2
      <4>2. j \in 1..Len(trees[Tree]) /\ j < Len(trees[Tree]) /\ Front(trees[Tree]) = trust
        BY <4>1, <1>1, <1>3
      <4>3. j \in 1..Len(trust) /\ SubSeq(trees[Tree], 1, j) = SubSeq(trust, 1, j)
        BY <4>2, <1>3, PartIs, Zenon
      <4> QED
        BY <4>3, <2>3, Zenon DEF Lineage
    <3> QED
      BY <3>1, <3>2
  <2>6. Lineage(trees[Tree])
    BY <1>3, <2>5 DEF Lineage
  <2> QED
    BY <1>1, <2>2, <2>3, <2>6 DEF Trusted, Lineage, Step
<1>6. Grown'
  <2>1. ASSUME level = 6, point' >= Hashed PROVE Len(trust') = 6
    <3>1. ~(point >= Hashed)
      BY <1>2, <2>1 DEF Placed
    <3>2. point = Hashed - 1
      BY <1>2, <2>1, <3>1
    <3>3. Tree = 6
      BY <1>2, <2>1, <3>2 DEF Placed, Tree
    <3> QED
      BY <1>1, <1>3, <3>3
  <2>2. ASSUME level = 5 PROVE point' > Asked => Len(saved'[Governed]) = 5
    <3>1. point # Asked
      BY <1>2, <2>2 DEF Placed
    <3>2. point' > Asked => point > Asked
      BY <1>2, <3>1
    <3> QED
      BY <1>1, <2>2, <3>2 DEF XInv, Grown
  <2>3. ~(point' > Hashed + 6)
    BY <1>2
  <2> QED
    BY <1>1, <1>2, <2>1, <2>2, <2>3 DEF Grown, Step
<1> QED
  BY <1>1, <1>4, <1>5, <1>6, StepExact, StepFresh DEF XInv

LEMMA FreezeInv == ASSUME XInv, Freeze PROVE XInv'
<1>1. /\ At("freeze") /\ Step /\ UNCHANGED <<mark, trust, saved, bound>>
      /\ outer' = [outer EXCEPT ![Tree] = trees[Tree]]
  BY DEF Freeze
<1>2. /\ Placed(point) /\ Tree \in Trees /\ point \in Nat /\ Hashed \in Nat /\ Hashed > 8
      /\ Program[point].op = "freeze" /\ level = 6 /\ point = Tree /\ point' = point + 1 /\ Hashed' = Hashed
      /\ Trees = 1..6 /\ Trees' = Trees
  <2>1. /\ Placed(point) /\ point \in Nat /\ Hashed \in Nat /\ Program[point].op = "freeze" /\ level \in {5, 6}
        /\ Trees = 1..level /\ point' = point + 1 /\ Hashed' = Hashed /\ Trees' = Trees
    BY <1>1, StepAt, Sizes, ProgramIs, LevelStays DEF XInv, Step
  <2>2. level = 6 /\ point = Tree
    BY <2>1 DEF Placed, Tree
  <2>3. Tree \in Trees
    BY <2>1 DEF Placed, Tree, OnSlots
  <2>4. Hashed > 8
    BY <2>1, <2>2, ProgramIs
  <2> QED
    BY <2>1, <2>2, <2>3, <2>4
<1>3. Typed'
  BY <1>1, <1>2, StepTyped DEF XInv, Typed
<1>4. trust = Nothing /\ \A s \in Slots : saved[s] = Nothing
  <2>1. point <= 7
    BY <1>2
  <2> QED
    BY <2>1, <1>2 DEF XInv, Fresh
<1>5. Trusted'
  <2> SUFFICES ASSUME Compared' PROVE Trusted'
    BY DEF Trusted
  <2>1. Reference' = outer' /\ level' = 6
    BY <1>1, <1>2 DEF Reference, Step
  <2>2. ASSUME NEW k \in Trees PROVE trees[k] = outer'[k]
    <3>1. ~Past(k)'
      BY <1>2 DEF Past
    <3>2. Agrees(k)'
      BY <1>2 DEF Compared
    <3> QED
      BY <1>1, <2>1, <3>1, <3>2 DEF Agrees, Step
  <2>3. outer' = trees
    BY <2>2, <1>1 DEF XInv, Typed
  <2>4. Lineage(trust)' /\ \A s \in Slots : Lineage(saved[s])'
    BY <1>1, <1>4 DEF Lineage, Nothing
  <2> QED
    BY <1>1, <2>1, <2>3, <2>4 DEF XInv, Typed, Trusted, Step, Slots
<1>6. Fresh'
  BY <1>1, <1>4 DEF Fresh
<1>7. Grown'
  BY <1>1, <1>2 DEF Grown, Step
<1> QED
  BY <1>1, <1>3, <1>5, <1>6, <1>7, StepExact DEF XInv

\* What a directory is given was given to none before.
LEMMA ReplaceInv == ASSUME XInv, NEW k \in Trees, Replace(k) PROVE XInv'
<1>1. /\ replaced < MaxChanges /\ replaced' = replaced + 1 /\ UNCHANGED reader
      /\ trees' = [trees EXCEPT ![k] = Append(IF k = 1 THEN Nothing ELSE trees[k - 1], replaced + 1)]
      /\ seen' = seen \cup {trees'}
  BY DEF Replace
<1>2. /\ level' = level /\ Trees' = Trees /\ Program' = Program /\ Hashed' = Hashed /\ level \in {5, 6}
      /\ Trees = 1..level /\ replaced \in Nat /\ k \in Nat /\ replaced' \in 0..MaxChanges /\ point \in Nat
      /\ Hashed \in Nat
  <2>1. level' = level
    BY <1>1 DEF reader
  <2>2. point \in Nat
    BY Sizes, ProgramIs DEF XInv, Typed
  <2>3. level \in {5, 6} /\ Trees = 1..level /\ replaced \in Nat /\ Hashed \in Nat
    BY Sizes, ProgramIs DEF XInv
  <2>4. replaced' \in 0..MaxChanges
    BY <1>1, <2>3, AuthorityAssumption
  <2>5. k \in Nat
    BY <2>3
  <2> QED
    BY <2>1, <2>2, <2>3, <2>4, <2>5, LevelStays
<1>3. \A c \in ContentRows : c \in ContentRows'
  <2>1. 0..replaced \subseteq 0..replaced'
    BY <1>1, <1>2
  <2> QED
    BY <1>2, <2>1, SeqMonotonic DEF ContentRows
<1>4. PICK base, new : base = (IF k = 1 THEN Nothing ELSE trees[k - 1]) /\ new = Append(base, replaced + 1)
  OBVIOUS
<1>5. base \in Seq(0..replaced) /\ Len(base) = k - 1
  <2>1. CASE k = 1
    BY <1>4, <2>1 DEF Nothing
  <2>2. CASE k # 1
    <3>1. k - 1 \in Trees
      BY <1>2, <2>2
    <3> QED
      BY <1>4, <2>2, <3>1 DEF XInv, Typed, ContentRows
  <2> QED
    BY <2>1, <2>2
<1>6. new \in Seq(0..replaced') /\ Len(new) = k /\ new[k] = replaced + 1
  <2>1. base \in Seq(0..replaced') /\ replaced + 1 \in 0..replaced'
    <3>1. 0..replaced \subseteq 0..replaced' /\ replaced + 1 \in 0..replaced'
      BY <1>1, <1>2
    <3> QED
      BY <1>5, <3>1, SeqMonotonic
  <2>2. /\ Append(base, replaced + 1) \in Seq(0..replaced') /\ Len(Append(base, replaced + 1)) = Len(base) + 1
        /\ Append(base, replaced + 1)[Len(base) + 1] = replaced + 1
    BY <2>1, AppendProperties
  <2>3. Len(base) + 1 = k
    BY <1>2, <1>5
  <2> QED
    BY <1>4, <2>2, <2>3, Zenon
<1>7. \A c \in ContentRows : c # new
  <2> SUFFICES ASSUME NEW c \in ContentRows, c = new PROVE FALSE
    OBVIOUS
  <2>1. c \in Seq(0..replaced) /\ Len(c) = k /\ k \in 1..k
    BY <1>2, <1>6 DEF ContentRows
  <2>2. c[k] \in 0..replaced
    <3>1. k \in 1..Len(c)
      BY <2>1
    <3> QED
      BY <2>1, <3>1, ElementOfSeq
  <2> QED
    BY <1>2, <1>6, <2>2
<1>8. trees' = [trees EXCEPT ![k] = new] /\ trees \in [Trees -> ContentRows] /\ new \in ContentRows'
  <2>1. k <= level
    BY <1>2
  <2> QED
    BY <1>1, <1>2, <1>4, <1>6, <2>1 DEF XInv, Typed, ContentRows
<1>9. Typed'
  <2>1. trees' \in [Trees -> ContentRows'] /\ \A t \in Trees : Len(trees'[t]) = t
    BY <1>3, <1>6, <1>8 DEF XInv, Typed
  <2>2. mark \in [Trees -> ContentRows'] /\ outer \in [Trees -> ContentRows'] /\ bound \in [Trees -> ContentRows']
    BY <1>3 DEF XInv, Typed
  <2>3. trust \in ContentRows' /\ saved \in [Slots -> ContentRows']
    BY <1>3 DEF XInv, Typed
  <2>4. authority # Nothing =>
          authority \in [trust : ContentRows', hashes : [Trees -> ContentRows']] /\ Len(authority.trust) = level
    BY <1>3 DEF XInv, Typed
  <2>5. trees' \in seen'
    BY <1>1
  <2> QED
    BY <1>1, <1>2, <2>1, <2>2, <2>3, <2>4, <2>5 DEF XInv, Typed, reader
<1>10. Trusted'
  <2> SUFFICES ASSUME Compared' PROVE Trusted'
    BY DEF Trusted
  <2>1. Reference' = Reference /\ point' = point /\ bound' = bound /\ authority' = authority
    BY <1>1 DEF Reference, reader
  <2>2. level = 6 \/ authority # Nothing
    BY <1>2, <2>1 DEF Compared
  <2>3. Reference \in [Trees -> ContentRows]
    BY <1>2, <2>2 DEF Reference, XInv, Typed
  <2>4. Past(k)
    <3> SUFFICES ASSUME ~Past(k) PROVE FALSE
      OBVIOUS
    <3>1. ~Past(k)'
      BY <1>2, <2>1 DEF Past
    <3>2. Agrees(k)'
      BY <1>2 DEF Compared
    <3>3. trees'[k] = Reference[k]
      BY <2>1, <3>1, <3>2 DEF Agrees
    <3> QED
      BY <1>7, <1>8, <2>3, <3>3
  <2>5. ASSUME NEW t \in Trees PROVE Agrees(t)
    <3>1. Agrees(t)' /\ (Past(t)' <=> Past(t))
      BY <1>2, <2>1 DEF Compared, Past
    <3> QED
      BY <1>2, <1>8, <2>1, <2>4, <3>1 DEF Agrees
  <2>6. Compared
    BY <2>1, <2>2, <2>5 DEF Compared
  <2> QED
    BY <1>1, <2>1, <2>6 DEF XInv, Trusted, Lineage, reader
<1>11. Fresh'
  BY <1>1 DEF XInv, Fresh, reader
<1>12. Grown'
  BY <1>1, <1>2 DEF XInv, Grown, reader
<1>13. Exact'
  <2>1. AtOneMoment(authority) => AtOneMoment(authority)'
    BY <1>1, <1>2 DEF AtOneMoment, reader
  <2>2. OfOneLineage(authority) => OfOneLineage(authority)'
    BY <1>1, <1>2 DEF OfOneLineage, reader
  <2> QED
    BY <1>1, <1>2, <2>1, <2>2 DEF XInv, Exact, reader
<1> QED
  BY <1>9, <1>10, <1>11, <1>12, <1>13 DEF XInv

LEMMA BeginInv == ASSUME XInv, Begin PROVE XInv'
<1>1. /\ point = 0 /\ ~confirmed /\ point' = 1 /\ seen' = {trees}
      /\ UNCHANGED <<level, trees, replaced, mark, outer, trust, saved, bound, authority, confirmed>>
  BY DEF Begin
<1>2. /\ Trees' = Trees /\ Program' = Program /\ Hashed' = Hashed /\ ContentRows' = ContentRows /\ Slots' = Slots
  BY <1>1, LevelStays DEF ContentRows, Slots
<1>3. /\ level \in {5, 6} /\ Trees = 1..level /\ Hashed \in Nat /\ Asked \in Nat /\ Asked > 0
      /\ level = 6 => Hashed > 8
  BY Sizes, ProgramIs DEF XInv
<1>4. trust = Nothing /\ \A s \in Slots : saved[s] = Nothing
  BY <1>1 DEF XInv, Fresh
<1>5. Typed'
  <2>1. point' \in 0..Len(Program) + 1
    <3>1. PICK n : n = Len(Program)
      OBVIOUS
    <3>2. n \in Nat
      BY <1>3, <3>1, ProgramIs
    <3>3. 1 \in 0..n + 1
      BY <3>2
    <3> QED
      BY <1>1, <3>1, <3>3
  <2> QED
    BY <1>1, <1>2, <2>1 DEF XInv, Typed
<1>6. Trusted'
  <2> SUFFICES ASSUME Compared' PROVE Trusted'
    BY DEF Trusted
  <2>1. Reference' = Reference
    BY <1>1 DEF Reference
  <2>2. level = 6 \/ authority # Nothing
    BY <1>1 DEF Compared
  <2>3. Reference \in [Trees -> ContentRows]
    BY <1>3, <2>2 DEF Reference, XInv, Typed
  <2>4. ASSUME NEW k \in Trees PROVE trees[k] = Reference[k]
    <3>1. ~Past(k)'
      BY <1>1, <1>2, <1>3 DEF Past
    <3>2. Agrees(k)'
      BY <1>2 DEF Compared
    <3> QED
      BY <1>1, <2>1, <3>1, <3>2 DEF Agrees
  <2>5. Reference = trees
    BY <2>3, <2>4 DEF XInv, Typed
  <2>6. Lineage(trust)' /\ \A s \in Slots : Lineage(saved[s])'
    BY <1>1, <1>4 DEF Lineage, Nothing
  <2> QED
    BY <1>1, <1>2, <2>1, <2>5, <2>6 DEF Trusted
<1>7. Fresh'
  BY <1>1, <1>2, <1>4 DEF Fresh
<1>8. Grown'
  <2>1. ~(level = 6 /\ 1 >= Hashed) /\ ~(1 > Asked) /\ ~(1 > Hashed + 6)
    BY <1>3
  <2> QED
    BY <1>1, <1>2, <2>1 DEF Grown
<1>9. Exact'
  BY <1>1, <1>2 DEF XInv, Exact, OfOneLineage
<1> QED
  BY <1>5, <1>6, <1>7, <1>8, <1>9 DEF XInv

\* What is returned when the steps are through.
LEMMA RebuiltIs ==
  ASSUME XInv, point = Len(Program) + 1
  PROVE  /\ Rebuilt \in [trust : ContentRows, hashes : [Trees -> ContentRows]] /\ Len(Rebuilt.trust) = level
         /\ level = 6 \/ (authority # Nothing /\ Same(authority)) => OfOneLineage(Rebuilt) /\ AtOneMoment(Rebuilt)
<1>1. /\ level \in {5, 6} /\ Trees = 1..level /\ Hashed \in Nat /\ Asked \in Nat /\ point = Hashed + 7
      /\ level = 5 => Asked <= Hashed
  BY Sizes, ProgramIs DEF XInv
<1>2. Len(trust) = level
  <2>1. point >= Hashed /\ point > Hashed + 6
    BY <1>1
  <2> QED
    BY <1>1, <2>1 DEF XInv, Grown
<1>3. Rebuilt.trust = trust /\ Rebuilt.hashes = (IF level = 5 THEN bound ELSE outer)
  BY DEF Rebuilt
<1>4. Rebuilt \in [trust : ContentRows, hashes : [Trees -> ContentRows]] /\ Len(Rebuilt.trust) = level
  BY <1>1, <1>2 DEF Rebuilt, XInv, Typed
<1>5. ASSUME level = 6 \/ (authority # Nothing /\ Same(authority))
      PROVE  OfOneLineage(Rebuilt) /\ AtOneMoment(Rebuilt)
  <2>1. Reference = Rebuilt.hashes
    <3>1. CASE level = 6
      BY <1>3, <3>1 DEF Reference
    <3>2. CASE level = 5
      BY <1>5, <3>2 DEF Reference, Same
    <3> QED
      BY <1>1, <3>1, <3>2
  <2>2. Compared
    <3>1. point > 0 /\ (level = 6 \/ authority # Nothing)
      BY <1>1, <1>5
    <3>2. ASSUME NEW k \in Trees PROVE Agrees(k)
      <4>1. Past(k)
        BY <1>1 DEF Past
      <4>2. level = 5 => Reference = bound
        BY <2>1, <1>3
      <4> QED
        BY <4>1, <4>2 DEF Agrees
    <3> QED
      BY <3>1, <3>2 DEF Compared
  <2>3. Reference \in seen /\ Lineage(trust)
    BY <2>2 DEF XInv, Trusted
  <2>4. \A k \in Trees : Rebuilt.hashes[k] = SubSeq(Rebuilt.trust, 1, k)
    BY <1>1, <1>2, <1>3, <2>1, <2>3 DEF Lineage
  <2> QED
    BY <2>1, <2>3, <2>4, Zenon DEF OfOneLineage, AtOneMoment
<1> QED
  BY <1>4, <1>5

\* The end of a reconstruction.
LEMMA CleanInv ==
  ASSUME XInv, Clean, confirmed' \in BOOLEAN,
         authority' # Nothing =>
           authority' \in [trust : ContentRows, hashes : [Trees -> ContentRows]] /\ Len(authority'.trust) = level
  PROVE  Typed' /\ Trusted' /\ Fresh' /\ Grown'
<1>1. /\ point' = 0 /\ UNCHANGED <<level, trees, replaced, seen>> /\ trust' = Nothing
      /\ saved' = [k \in 1..4 |-> Nothing] /\ mark' = [k \in Trees |-> Nothing] /\ outer' = mark' /\ bound' = mark'
  BY DEF Clean
<1>2. /\ Trees' = Trees /\ Program' = Program /\ Hashed' = Hashed /\ ContentRows' = ContentRows /\ Slots = 1..4
  BY <1>1, LevelStays DEF ContentRows, Slots
<1>3. /\ level \in {5, 6} /\ Hashed \in Nat /\ Asked \in Nat /\ Asked > 0
      /\ level = 6 => Hashed > 8
  BY Sizes, ProgramIs DEF XInv
<1>4. Nothing \in ContentRows
  <2>1. <<>> \in Seq(0..replaced) /\ Len(<<>>) = 0
    OBVIOUS
  <2> QED
    BY <1>3, <2>1 DEF Nothing, ContentRows
<1>5. Typed'
  <2>1. point' \in 0..Len(Program) + 1
    <3>1. PICK n : n = Len(Program)
      OBVIOUS
    <3>2. n \in Nat
      BY <1>3, <3>1, ProgramIs
    <3>3. 0 \in 0..n + 1
      BY <3>2
    <3> QED
      BY <1>1, <3>1, <3>3
  <2> QED
    BY <1>1, <1>2, <1>4, <2>1 DEF XInv, Typed
<1>6. Trusted' /\ Fresh'
  BY <1>1, <1>2 DEF Trusted, Compared, Fresh
<1>7. Grown'
  <2>1. ~(level = 6 /\ 0 >= Hashed) /\ ~(0 > Asked) /\ ~(0 > Hashed + 6)
    BY <1>3
  <2> QED
    BY <1>1, <1>2, <2>1 DEF Grown
<1> QED
  BY <1>5, <1>6, <1>7

LEMMA LoadedInv == ASSUME XInv, Loaded PROVE XInv'
<1>1. point = Len(Program) + 1 /\ authority' = Rebuilt /\ Clean /\ UNCHANGED confirmed
  BY DEF Loaded
<1>2. Typed' /\ Trusted' /\ Fresh' /\ Grown'
  BY <1>1, RebuiltIs, CleanInv DEF XInv, Typed
<1>3. Exact'
  <2>1. ~confirmed
    <3>1. point # 0
      BY <1>1, Sizes, ProgramIs DEF XInv
    <3> QED
      BY <3>1 DEF XInv, Exact
  <2>2. Trees' = Trees /\ seen' = seen /\ level' = level
    BY <1>1, LevelStays DEF Clean
  <2>3. level = 6 => OfOneLineage(Rebuilt) /\ AtOneMoment(Rebuilt)
    BY <1>1, RebuiltIs
  <2>4. level = 6 => OfOneLineage(authority)' /\ AtOneMoment(authority)'
    BY <1>1, <2>2, <2>3 DEF OfOneLineage, AtOneMoment
  <2> QED
    BY <1>1, <2>1, <2>2, <2>4 DEF Exact
<1> QED
  BY <1>2, <1>3 DEF XInv

LEMMA RequiredInv == ASSUME XInv, Required PROVE XInv'
<1>1. /\ point = Len(Program) + 1 /\ authority # Nothing /\ Same(authority)
      /\ authority' = Rebuilt /\ confirmed' = TRUE /\ Clean
  BY DEF Required
<1>2. Typed' /\ Trusted' /\ Fresh' /\ Grown'
  BY <1>1, RebuiltIs, CleanInv
<1>3. Exact'
  <2>1. Trees' = Trees /\ seen' = seen /\ level' = level /\ point' = 0
    BY <1>1, LevelStays DEF Clean
  <2>2. OfOneLineage(Rebuilt) /\ AtOneMoment(Rebuilt)
    BY <1>1, RebuiltIs
  <2>3. OfOneLineage(authority)' /\ AtOneMoment(authority)'
    BY <1>1, <2>1, <2>2 DEF OfOneLineage, AtOneMoment
  <2>4. authority' # Nothing
    BY <1>1 DEF Same
  <2> QED
    BY <2>1, <2>3, <2>4 DEF Exact
<1> QED
  BY <1>2, <1>3 DEF XInv

LEMMA RefusedInv == ASSUME XInv, Refused PROVE XInv'
<1>1. point > 0 /\ authority' = Nothing /\ Clean /\ UNCHANGED confirmed
  BY DEF Refused
<1>2. Typed' /\ Trusted' /\ Fresh' /\ Grown'
  BY <1>1, CleanInv DEF XInv, Typed
<1>3. Exact'
  <2>1. ~confirmed
    <3>1. point # 0
      BY <1>1
    <3> QED
      BY <3>1 DEF XInv, Exact
  <2> QED
    BY <1>1, <2>1 DEF Exact
<1> QED
  BY <1>2, <1>3 DEF XInv

LEMMA XStutterInv == ASSUME XInv, UNCHANGED xvars PROVE XInv'
<1>1. /\ UNCHANGED <<level, trees, replaced, mark, outer, trust, saved, bound, point, authority, confirmed, seen>>
      /\ Trees' = Trees /\ Program' = Program /\ Hashed' = Hashed /\ ContentRows' = ContentRows
  BY LevelStays DEF xvars, ContentRows
<1>2. Typed' /\ Fresh' /\ Grown'
  BY <1>1 DEF XInv, Typed, Fresh, Grown
<1>3. Trusted'
  <2>1. Compared' => Compared
    BY <1>1 DEF Compared, Agrees, Past, Reference
  <2> QED
    BY <1>1, <2>1 DEF XInv, Trusted, Lineage, Reference
<1>4. Exact'
  BY <1>1 DEF XInv, Exact, OfOneLineage, AtOneMoment
<1> QED
  BY <1>2, <1>3, <1>4 DEF XInv

LEMMA XStepInv == ASSUME XInv, [XNext]_xvars PROVE XInv'
<1>1. CASE \E k \in Trees : Replace(k)
  BY <1>1, ReplaceInv
<1>2. CASE Begin \/ Loaded \/ Required \/ Refused
  BY <1>2, BeginInv, LoadedInv, RequiredInv, RefusedInv
<1>3. CASE Mark \/ Freeze \/ Read \/ Keep \/ Use \/ Test \/ Hash
  BY <1>3, MarkInv, FreezeInv, ReadInv, KeepInv, UseInv, TestInv, HashInv
<1>4. CASE UNCHANGED xvars
  BY <1>4, XStutterInv
<1> QED
  BY <1>1, <1>2, <1>3, <1>4 DEF XNext

LEMMA TypedIsType == ASSUME Typed PROVE XTypeOK
<1>1. level \in {5, 6} /\ replaced \in Nat /\ Trees = 1..level /\ replaced \in 0..MaxChanges
  BY Sizes DEF Typed
<1>2. \A c \in ContentRows : c \in Content
  <2> SUFFICES ASSUME NEW c \in ContentRows PROVE c \in Content
    OBVIOUS
  <2>1. PICK n : n = Len(c)
    OBVIOUS
  <2>2. c \in [1..n -> 0..replaced] /\ n \in 0..level
    BY <1>1, <2>1 DEF ContentRows
  <2>3. 0..replaced \subseteq 0..MaxChanges
    BY <1>1, AuthorityAssumption
  <2>4. c \in [1..n -> 0..MaxChanges]
    BY <2>2, <2>3
  <2> QED
    BY <2>2, <2>4 DEF Content
<1>3. \A f \in [Trees -> ContentRows] : f \in [Trees -> Content]
  BY <1>2
<1>4. saved \in [1..4 -> Content] /\ trust \in Content
  BY <1>2 DEF Typed, Slots
<1> QED
  BY <1>3, <1>4 DEF Typed, XTypeOK

\* The digests, contents and hashes a reconstruction handles keep their shape
\* (activation/authority_binding.py).
THEOREM AuthorityTypeOK == XSpec => []XTypeOK
<1>1. XInv => XTypeOK
  BY TypedIsType DEF XInv
<1> QED
  BY <1>1, XInitInv, XStepInv, PTL DEF XSpec

\* An authority that was rebuilt before its use says what was on all its trees at
\* one moment of the rebuilding, and that of an activation at one moment of its
\* loading, although the trees are read one after the other while they are
\* replaced (amendment/authority_binding.py, activation/authority_binding.py).
THEOREM AuthoritiesAreExact == XSpec => []AuthorityIsExact
<1>1. XInv => AuthorityIsExact
  BY TypedIsType
     DEF XInv, Exact, AuthorityIsExact, RequiredIsExact, LoadedIsExact, LoadedAtOneMoment
<1> QED
  BY <1>1, XInitInv, XStepInv, PTL DEF XSpec

-----------------------------------------------------------------------------
(***************************************************************************)
(* PackClosure: the walk is a depth-first search whose stack is a path of  *)
(* first needs.                                                            *)
(***************************************************************************)

Walked == phase \in {"walking", "accepted"}

Record == [key : Key, needs : SUBSET Dependency, content : Nat]

Demand == Dependency \cup {Wanted(k) : k \in Key}

\* What a frame of the stack started with.
NeedsOf(k) == IF k = Absent THEN {Wanted(r) : r \in roots} ELSE resolved[k].needs

Done == DOMAIN resolved \ UnderVisit

\* A need whose pack was walked through and compared.
Met(n) == KeyOf(n) \in Done /\ Matches(n)

\* The shape of the state; a manifest that was read names a version once.
Shaped ==
  /\ disk \in [Places -> Pack \cup {Absent}] /\ \A p \in Places : disk[p] # Absent => Unique(disk[p].needs)
  /\ touches \in 0..MaxTouches /\ roots \in Projects
  /\ phase \in {"idle", "walking", "accepted", "refused"}
  /\ entries = Absent \/ (entries \in [DOMAIN entries -> Places] /\ DOMAIN entries \subseteq Key)
  /\ Walked => entries \in [DOMAIN entries -> Places] /\ DOMAIN entries \subseteq Key
  /\ selected \in [DOMAIN selected -> Versions] /\ DOMAIN selected \subseteq Ids
  /\ resolved \in [DOMAIN resolved -> Record] /\ \A k \in DOMAIN resolved : Unique(resolved[k].needs)
  /\ depths \in [DOMAIN depths -> Nat] /\ DOMAIN depths \subseteq Key /\ DOMAIN resolved \subseteq DOMAIN depths
  /\ stack \in Seq([key : Key \cup {Absent}, left : SUBSET Demand])
  /\ phase = "idle" => stack = <<>> /\ resolved = NoKeys /\ selected = NoKeys

\* The stack is a path of first needs, from what the project asks for.
Stacked ==
  /\ Len(stack) >= 1 /\ stack[1].key = Absent
  /\ \A i \in 2..Len(stack) : stack[i].key \in DOMAIN resolved
  /\ \A i, j \in 1..Len(stack) : stack[i].key = stack[j].key => i = j
  /\ \A i \in 1..Len(stack) : stack[i].left \subseteq NeedsOf(stack[i].key)
  /\ \A i \in 1..Len(stack) - 1 : stack[i].left # {} /\ KeyOf(First(stack[i].left)) = stack[i + 1].key
  /\ phase = "accepted" => Len(stack) = 1 /\ stack[1].left = {}

\* What a frame no longer needs is met, and all that is done needs.
Kept ==
  /\ \A i \in 1..Len(stack) : \A n \in NeedsOf(stack[i].key) \ stack[i].left : Met(n)
  /\ \A k \in Done : \A n \in resolved[k].needs : Met(n)

\* What is done needs only what was done before it.
Ordered ==
  \A k \in Done : \E S \in SUBSET Done :
    /\ k \notin S /\ \A n \in resolved[k].needs : KeyOf(n) \in S
    /\ \A l \in S : \A n \in resolved[l].needs : KeyOf(n) \in S

\* One version of an id, and that of something read.
Chosen ==
  /\ \A k \in DOMAIN resolved : k[1] \in DOMAIN selected /\ selected[k[1]] = k[2]
  /\ \A i \in DOMAIN selected : <<i, selected[i]>> \in DOMAIN resolved

\* All that is resolved can be reached, and each frame from those below it.
Reached ==
  /\ \A S \in SUBSET Key : roots \subseteq S /\ Closed(S, Needs) => DOMAIN resolved \subseteq S
  /\ \A i, j \in 2..Len(stack) : \A S \in SUBSET Key :
       i < j /\ (\A n \in resolved[stack[i].key].needs : KeyOf(n) \in S) /\ Closed(S, Needs) => stack[j].key \in S

\* Nobody edited: what was read is what is there.
Faithful ==
  touches = 0 /\ Walked =>
    /\ Scannable /\ entries = Entries
    /\ \A k \in DOMAIN resolved :
         /\ k \in DOMAIN Entries /\ resolved[k].needs = DiskNeeds[k]
         /\ resolved[k].content = DiskContents[k] /\ disk[Entries[k]].lock = DiskContents[k]

\* ... and what is refused has no closure.
Deserved == touches = 0 /\ phase = "refused" => ~Sound

\* The inductive invariant of the walk.
PInv == /\ Shaped /\ (Walked => Stacked /\ Kept /\ Ordered /\ Chosen /\ Reached)
        /\ Faithful /\ Deserved
\* A set of numbers has a least one.
LEMMA LeastIs == ASSUME NEW S, S \subseteq Nat, S # {} PROVE \E x \in S : \A y \in S : x <= y
<1> DEFINE R == OpToRel(<, Nat)
<1>1. PICK x \in S : \A y \in S : ~(<<y, x>> \in R)
  <2>1. IsWellFoundedOn(R, Nat)
    BY NatLessThanWellFounded
  <2> HIDE DEF R
  <2> QED
    BY <2>1, WFMin
<1>2. ASSUME NEW y \in S PROVE x <= y
  <2>1. y < x => <<y, x>> \in R
    BY DEF OpToRel
  <2> HIDE DEF R
  <2> QED
    BY <1>1, <2>1
<1> QED
  BY <1>2

LEMMA DemandIs == ASSUME NEW n \in Demand PROVE KeyOf(n) \in Key /\ n.id \in Nat /\ n.version \in Nat
<1>1. Ids \subseteq Nat /\ Versions \subseteq Nat
  BY PackAssumption
<1>2. CASE n \in Dependency
  BY <1>1, <1>2 DEF Dependency, KeyOf, Key
<1>3. CASE n \in {Wanted(k) : k \in Key}
  <2>1. PICK k \in Key : n = Wanted(k)
    BY <1>3
  <2>2. k[1] \in Ids /\ k[2] \in Versions /\ n.id = k[1] /\ n.version = k[2]
    BY <2>1 DEF Wanted, Key
  <2> QED
    BY <1>1, <2>2 DEF KeyOf, Key
<1> QED
  BY <1>2, <1>3 DEF Demand

\* The first of several needs is one of them.
LEMMA FirstIs ==
  ASSUME NEW left, left \subseteq Demand, Unique(left), left # {}
  PROVE  First(left) \in left
<1>1. PICK least \in {n.id : n \in left} : \A y \in {n.id : n \in left} : least <= y
  <2>1. {n.id : n \in left} \subseteq Nat /\ {n.id : n \in left} # {}
    BY DemandIs
  <2> QED
    BY <2>1, LeastIs
<1>2. PICK firsts : firsts = {n \in left : n.id = least}
  OBVIOUS
<1>3. PICK lowest \in {n.version : n \in firsts} : \A y \in {n.version : n \in firsts} : lowest <= y
  <2>1. {n.version : n \in firsts} \subseteq Nat /\ {n.version : n \in firsts} # {}
    BY <1>1, <1>2, DemandIs
  <2> QED
    BY <2>1, LeastIs
<1>4. PICK n \in firsts : n.version = lowest
  BY <1>3
<1>5. n \in left /\ n.id = least
  BY <1>2
<1>6. ASSUME NEW m \in left \ {n} PROVE Before(n, m)
  <2>1. m.id \in Nat /\ m.version \in Nat /\ n.id \in Nat /\ n.version \in Nat
    BY <1>5, DemandIs
  <2>2. n.id <= m.id
    BY <1>1, <1>5
  <2>3. CASE m.id = n.id
    <3>1. m \in firsts
      BY <1>2, <1>5, <2>3
    <3>2. n.version <= m.version
      BY <1>3, <1>4, <3>1
    <3>3. n.version # m.version
      BY <1>5, <2>3 DEF Unique, KeyOf
    <3> QED
      BY <2>1, <2>3, <3>2, <3>3 DEF Before
  <2>4. CASE m.id # n.id
    BY <2>1, <2>2, <2>4 DEF Before
  <2> QED
    BY <2>3, <2>4
<1> QED
  BY <1>5, <1>6 DEF First

\* What is reached: the start, with every need of what is reached, and nothing that a
\* closed set around the start does without.
LEMMA ReachHas == ASSUME NEW start, NEW needs PROVE start \subseteq Reach(start, needs)
BY DEF Reach

LEMMA ReachIsLeast ==
  ASSUME NEW start, NEW needs, NEW S, start \subseteq S, Closed(S, needs)
  PROVE  Reach(start, needs) \subseteq S
<1>1. PICK all : all = start \cup {KeyOf(n) : n \in UNION Range(needs)}
  OBVIOUS
<1>2. PICK within : within = S \cap all
  OBVIOUS
<1>3. within \in SUBSET all /\ start \subseteq within
  BY <1>1, <1>2
<1>4. Closed(within, needs)
  <2> SUFFICES ASSUME NEW k \in within \cap DOMAIN needs, NEW n \in needs[k] PROVE KeyOf(n) \in within
    BY DEF Closed
  <2>1. KeyOf(n) \in S
    BY <1>2 DEF Closed
  <2>2. n \in UNION Range(needs)
    BY DEF Range
  <2> QED
    BY <1>1, <1>2, <2>1, <2>2
<1>5. Reach(start, needs) \subseteq within
  BY <1>1, <1>3, <1>4 DEF Reach
<1> QED
  BY <1>2, <1>5

LEMMA ReachIsClosed == ASSUME NEW start, NEW needs PROVE Closed(Reach(start, needs), needs)
<1>1. PICK all : all = start \cup {KeyOf(n) : n \in UNION Range(needs)}
  OBVIOUS
<1> SUFFICES ASSUME NEW k \in Reach(start, needs) \cap DOMAIN needs, NEW n \in needs[k]
             PROVE  KeyOf(n) \in Reach(start, needs)
  BY DEF Closed
<1>2. KeyOf(n) \in all
  BY <1>1 DEF Range
<1>3. ASSUME NEW S \in SUBSET all, start \subseteq S, Closed(S, needs) PROVE KeyOf(n) \in S
  <2>1. k \in S
    BY <1>1, <1>3 DEF Reach
  <2> QED
    BY <1>3, <2>1 DEF Closed
<1> QED
  BY <1>1, <1>2, <1>3 DEF Reach

LEMMA PutIs ==
  ASSUME NEW f, NEW k, NEW v
  PROVE  /\ DOMAIN Put(f, k, v) = DOMAIN f \cup {k} /\ Put(f, k, v)[k] = v
         /\ \A x \in DOMAIN f : x # k => Put(f, k, v)[x] = f[x]
BY DEF Put

Frame == [key : Key \cup {Absent}, left : SUBSET Demand]

LEMMA FrameIs ==
  ASSUME Shaped, Stacked, NEW i \in 1..Len(stack)
  PROVE  /\ stack[i] \in Frame
         /\ NeedsOf(stack[i].key) \subseteq Demand /\ Unique(NeedsOf(stack[i].key)) /\ Unique(stack[i].left)
         /\ i > 1 => stack[i].key # Absent /\ stack[i].key \in DOMAIN resolved
<1>1. Len(stack) \in Nat /\ stack[i] \in Frame
  <2>1. stack \in Seq(Frame)
    BY DEF Shaped, Frame
  <2> QED
    BY <2>1, ElementOfSeq
<1>2. Absent \notin Key /\ \A p \in Projects : p \subseteq Key
  BY PackAssumption
<1>3. roots \subseteq Key /\ DOMAIN resolved \subseteq Key
  <2>1. DOMAIN resolved \subseteq DOMAIN depths /\ DOMAIN depths \subseteq Key /\ roots \in Projects
    BY DEF Shaped
  <2> QED
    BY <1>2, <2>1
<1>4. i > 1 => stack[i].key # Absent /\ stack[i].key \in DOMAIN resolved
  <2>1. i > 1 => i \in 2..Len(stack)
    BY <1>1
  <2>2. i > 1 => stack[i].key \in DOMAIN resolved
    BY <2>1 DEF Stacked
  <2> QED
    BY <1>2, <1>3, <2>2
<1>5. NeedsOf(stack[i].key) \subseteq Demand /\ Unique(NeedsOf(stack[i].key))
  <2>1. CASE i = 1
    <3>1. NeedsOf(stack[i].key) = {Wanted(r) : r \in roots}
      BY <2>1 DEF Stacked, NeedsOf
    <3>2. {Wanted(r) : r \in roots} \subseteq Demand
      BY <1>3 DEF Demand
    <3>3. \A r \in roots : KeyOf(Wanted(r)) = r
      BY <1>3 DEF KeyOf, Wanted, Key
    <3> QED
      BY <3>1, <3>2, <3>3 DEF Unique
  <2>2. CASE i > 1
    <3>1. NeedsOf(stack[i].key) = resolved[stack[i].key].needs /\ stack[i].key \in DOMAIN resolved
      BY <1>4, <2>2 DEF NeedsOf
    <3> QED
      BY <3>1 DEF Shaped, Record, Demand
  <2> QED
    BY <1>1, <2>1, <2>2
<1>6. Unique(stack[i].left)
  BY <1>5 DEF Stacked, Unique
<1> QED
  BY <1>1, <1>4, <1>5, <1>6

\* The need that is looked at, at the top of the stack.
LEMMA NeedIs ==
  ASSUME Shaped, Stacked, Walking
  PROVE  /\ Len(stack) \in Nat /\ Len(stack) \in 1..Len(stack) /\ Top = stack[Len(stack)]
         /\ Need \in Top.left /\ Need \in NeedsOf(Top.key) /\ Need \in Demand /\ KeyOf(Need) \in Key
<1>1. Len(stack) \in Nat /\ Len(stack) >= 1
  BY DEF Shaped, Stacked
<1>2. Len(stack) \in 1..Len(stack)
  BY <1>1
<1>3. Top = stack[Len(stack)]
  BY DEF Top, Last
<1>4. Top.left # {} /\ Top.left \subseteq Demand /\ Unique(Top.left)
  BY <1>2, <1>3, FrameIs DEF Walking, Frame
<1>5. Need \in Top.left
  BY <1>4, FirstIs DEF Need
<1>6. Top.left \subseteq NeedsOf(Top.key)
  BY <1>2, <1>3 DEF Stacked
<1> QED
  BY <1>1, <1>2, <1>3, <1>4, <1>5, <1>6, DemandIs

LEMMA DropIs ==
  ASSUME NEW s \in Seq(Frame), Len(s) >= 1, NEW n, NEW d, d = Drop(s, n)
  PROVE  /\ d \in Seq(Frame) /\ Len(d) = Len(s) /\ DOMAIN d = 1..Len(s)
         /\ \A i \in 1..Len(s) : d[i].key = s[i].key /\ d[i].left \subseteq s[i].left
         /\ \A i \in 1..Len(s) - 1 : d[i] = s[i]
         /\ d[Len(s)].left = s[Len(s)].left \ {n}
<1>1. PICK m : m = Len(s)
  OBVIOUS
<1>2. m \in Nat /\ m \in 1..m /\ \A i \in 1..m : s[i] \in Frame
  BY <1>1, ElementOfSeq
<1>3. PICK frame : frame = [s[m] EXCEPT !.left = @ \ {n}]
  OBVIOUS
<1>4. d = [s EXCEPT ![m] = frame]
  BY <1>1, <1>3 DEF Drop
<1>5. frame \in Frame /\ frame.key = s[m].key /\ frame.left = s[m].left \ {n}
  BY <1>2, <1>3 DEF Frame
<1>6. d \in Seq(Frame) /\ Len(d) = m /\ DOMAIN d = 1..m
  BY <1>1, <1>2, <1>4, <1>5
<1>7. \A i \in 1..m : d[i] = IF i = m THEN frame ELSE s[i]
  BY <1>1, <1>2, <1>4
<1>8. \A i \in 1..m : d[i].key = s[i].key /\ d[i].left \subseteq s[i].left
  BY <1>5, <1>7
<1>9. \A i \in 1..m - 1 : i \in 1..m /\ i # m
  BY <1>2
<1> QED
  BY <1>1, <1>2, <1>5, <1>6, <1>7, <1>8, <1>9

LEMMA FrontIs ==
  ASSUME NEW S, NEW s \in Seq(S), Len(s) >= 1, NEW f, f = Front(s)
  PROVE  f \in Seq(S) /\ Len(f) = Len(s) - 1 /\ \A i \in 1..Len(s) - 1 : f[i] = s[i]
<1>1. PICK n : n = Len(s)
  OBVIOUS
<1>2. n \in Nat /\ \A i \in 1..n : s[i] \in S
  BY <1>1
<1>3. f = SubSeq(s, 1, n - 1)
  BY <1>1 DEF Front
<1>4. f \in Seq(S) /\ Len(f) = n - 1 /\ \A i \in 1..n - 1 : f[i] = s[i]
  BY <1>1, <1>2, <1>3, SubSeqProperties
<1> QED
  BY <1>1, <1>4

LEMMA EntriesAre ==
  ASSUME Shaped
  PROVE  /\ DOMAIN Entries = {KeyAt(p) : p \in Occupied} /\ DOMAIN Entries \subseteq Key
         /\ \A k \in DOMAIN Entries : Entries[k] \in Occupied /\ KeyAt(Entries[k]) = k
         /\ \A p \in Occupied : p \in Places /\ KeyAt(p) \in Key /\ disk[p] \in Pack /\ Unique(disk[p].needs)
<1>1. ASSUME NEW p \in Occupied PROVE p \in Places /\ KeyAt(p) \in Key /\ disk[p] \in Pack /\ Unique(disk[p].needs)
  <2>1. p \in Places /\ disk[p] # Absent /\ disk[p] \in Pack /\ Unique(disk[p].needs)
    BY DEF Occupied, Shaped
  <2>2. p[1] \in Ids
    BY <2>1, PackAssumption
  <2> QED
    BY <2>1, <2>2 DEF KeyAt, Key, Pack
<1>2. DOMAIN Entries = {KeyAt(p) : p \in Occupied}
  BY DEF Entries
<1>3. ASSUME NEW k \in DOMAIN Entries PROVE Entries[k] \in Occupied /\ KeyAt(Entries[k]) = k
  <2>1. \E p \in Occupied : KeyAt(p) = k
    BY <1>2
  <2>2. Entries[k] = CHOOSE p \in Occupied : KeyAt(p) = k
    BY <1>2 DEF Entries
  <2> QED
    BY <2>1, <2>2
<1> QED
  BY <1>1, <1>2, <1>3

\* While nobody edits and the disk has a closure, the walk has not left it.
LEMMA WalkIsWithin ==
  ASSUME Shaped, Stacked, Reached, Faithful, touches = 0, phase = "walking", Sound,
         NEW start \in SUBSET Key, NEW keys, keys = Reach(start, DiskNeeds)
  PROVE  /\ keys \in SUBSET Key /\ Closed(keys, DiskNeeds) /\ Closed(keys, Needs) /\ start \subseteq keys
         /\ start = roots => /\ DOMAIN resolved \subseteq keys
                             /\ \A i \in 1..Len(stack) : \A n \in NeedsOf(stack[i].key) : KeyOf(n) \in keys
<1>1. ASSUME NEW k \in DOMAIN DiskNeeds, NEW n \in DiskNeeds[k] PROVE n \in Dependency /\ KeyOf(n) \in Key
  <2>1. k \in DOMAIN Entries /\ DiskNeeds[k] = disk[Entries[k]].needs
    BY DEF DiskNeeds
  <2>2. disk[Entries[k]] \in Pack
    BY <2>1, EntriesAre
  <2>3. n \in Dependency
    BY <2>1, <2>2 DEF Pack
  <2> QED
    BY <2>3, DemandIs DEF Demand
<1>2. keys \in SUBSET Key
  BY <1>1 DEF Reach, Range
<1>3. Closed(keys, DiskNeeds) /\ start \subseteq keys
  BY ReachIsClosed, ReachHas
<1>4. \A k \in DOMAIN resolved : k \in DOMAIN DiskNeeds /\ resolved[k].needs = DiskNeeds[k]
  BY DEF Faithful, Walked, DiskNeeds
<1>5. Closed(keys, Needs)
  BY <1>3, <1>4 DEF Closed, Needs
<1>6. ASSUME start = roots PROVE DOMAIN resolved \subseteq keys
  BY <1>2, <1>3, <1>5, <1>6 DEF Reached
<1>7. ASSUME start = roots, NEW i \in 1..Len(stack), NEW n \in NeedsOf(stack[i].key) PROVE KeyOf(n) \in keys
  <2>1. Len(stack) \in Nat
    BY DEF Shaped
  <2>2. CASE i = 1
    <3>1. PICK r \in roots : n = Wanted(r)
      BY <1>7, <2>2 DEF Stacked, NeedsOf
    <3>2. r \in Key
      BY <1>7
    <3>3. KeyOf(n) = r
      BY <3>1, <3>2 DEF KeyOf, Wanted, Key
    <3> QED
      BY <1>3, <1>7, <3>1, <3>3
  <2>3. CASE i > 1
    <3>1. stack[i].key \in DOMAIN resolved /\ n \in resolved[stack[i].key].needs
      BY <1>7, <2>3, FrameIs DEF NeedsOf
    <3> QED
      BY <1>5, <1>6, <1>7, <3>1 DEF Closed, Needs
  <2> QED
    BY <2>1, <2>2, <2>3
<1> QED
  BY <1>2, <1>3, <1>5, <1>6, <1>7

\* While nobody edits and the disk has a closure, nothing the walk looks at is a reason
\* to refuse.
LEMMA NothingContradicts ==
  ASSUME Shaped, Stacked, Chosen, Reached, Faithful, touches = 0, phase = "walking", Sound, Walking
  PROVE  ~Conflicts(Need) /\ ~Cyclic(Need) /\ Readable(KeyOf(Need))
<1>1. PICK keys : keys = Reach(roots, DiskNeeds)
  OBVIOUS
<1>2. roots \in SUBSET Key
  BY PackAssumption DEF Shaped
<1>3. /\ keys \in SUBSET Key /\ Closed(keys, DiskNeeds) /\ Closed(keys, Needs)
      /\ DOMAIN resolved \subseteq keys
      /\ \A i \in 1..Len(stack) : \A n \in NeedsOf(stack[i].key) : KeyOf(n) \in keys
  BY <1>1, <1>2, WalkIsWithin
<1>4. Consistent(keys, DiskNeeds, DiskContents) /\ \A k \in keys : disk[Entries[k]].lock = DiskContents[k]
  BY <1>1 DEF Sound
<1>5. PICK n : n = Need
  OBVIOUS
<1>6. PICK top : top = Len(stack)
  OBVIOUS
<1>7. /\ top \in Nat /\ top \in 1..top /\ Top = stack[top]
      /\ n \in NeedsOf(stack[top].key) /\ n \in Demand /\ KeyOf(n) \in Key
  BY <1>5, <1>6, NeedIs
<1>8. KeyOf(n) \in keys
  BY <1>3, <1>6, <1>7
<1>9. ~Conflicts(n)
  <2> SUFFICES ASSUME Conflicts(n) PROVE FALSE
    OBVIOUS
  <2>1. n.id \in DOMAIN selected /\ selected[n.id] # n.version
    BY DEF Conflicts, ValueAt
  <2>2. PICK k : k = <<n.id, selected[n.id]>>
    OBVIOUS
  <2>3. k \in keys
    BY <1>3, <2>1, <2>2 DEF Chosen
  <2>4. k[1] = KeyOf(n)[1] /\ k[2] # KeyOf(n)[2]
    BY <2>1, <2>2 DEF KeyOf
  <2> QED
    BY <1>4, <1>8, <2>3, <2>4 DEF Consistent
<1>10. ~Cyclic(n)
  <2> SUFFICES ASSUME Cyclic(n) PROVE FALSE
    OBVIOUS
  <2>1. PICK j \in 1..top : stack[j].key = KeyOf(n)
    <3>1. DOMAIN stack = 1..top
      BY <1>6 DEF Shaped
    <3> QED
      BY <3>1 DEF Cyclic, UnderVisit
  <2>2. j > 1
    <3>1. stack[1].key = Absent /\ Absent \notin Key
      BY PackAssumption DEF Stacked
    <3> QED
      BY <1>7, <2>1, <3>1
  <2>3. PICK k : k = stack[j].key
    OBVIOUS
  <2>4. k \in DOMAIN resolved /\ k \in keys
    BY <1>3, <1>6, <2>2, <2>3, FrameIs
  <2>5. k \in DOMAIN Entries /\ resolved[k].needs = DiskNeeds[k] /\ DiskNeeds[k] = disk[Entries[k]].needs
    BY <2>4 DEF Faithful, Walked, DiskNeeds
  <2>6. DiskNeeds[k] \subseteq Demand
    BY <2>5, EntriesAre DEF Pack, Demand
  <2>7. PICK start : start = {KeyOf(m) : m \in DiskNeeds[k]}
    OBVIOUS
  <2>8. start \in SUBSET Key
    BY <2>6, <2>7, DemandIs
  <2>9. PICK below : below = Reach(start, DiskNeeds)
    OBVIOUS
  <2>10. below \in SUBSET Key /\ Closed(below, Needs) /\ start \subseteq below
    BY <2>8, <2>9, WalkIsWithin
  <2>11. \A m \in resolved[k].needs : KeyOf(m) \in below
    BY <2>5, <2>7, <2>10
  <2>12. CASE j = top
    <3>1. n \in resolved[k].needs
      BY <1>6, <1>7, <2>2, <2>3, <2>12, FrameIs DEF NeedsOf
    <3>2. k \in below
      BY <2>1, <2>3, <2>11, <3>1
    <3> QED
      BY <1>4, <2>4, <2>7, <2>9, <3>2 DEF Consistent
  <2>13. CASE j # top
    <3>1. j < top /\ j \in 2..Len(stack) /\ top \in 2..Len(stack) /\ top > 1
      BY <1>6, <1>7, <2>2, <2>13
    <3>2. stack[top].key \in below
      BY <2>3, <2>10, <2>11, <3>1 DEF Reached
    <3>3. stack[top].key \in DOMAIN resolved /\ n \in resolved[stack[top].key].needs
      BY <1>6, <1>7, <3>1, FrameIs DEF NeedsOf
    <3>4. KeyOf(n) \in below
      BY <2>10, <3>2, <3>3 DEF Closed, Needs
    <3> QED
      BY <1>4, <2>1, <2>3, <2>4, <2>7, <2>9, <3>4 DEF Consistent
  <2> QED
    BY <2>12, <2>13
<1>11. Readable(KeyOf(n))
  <2>1. KeyOf(n) \in DOMAIN Entries /\ entries = Entries
    BY <1>4, <1>8 DEF Consistent, DiskNeeds, Faithful, Walked
  <2>2. disk[Entries[KeyOf(n)]] # Absent
    BY <2>1, EntriesAre DEF Occupied
  <2>3. disk[Entries[KeyOf(n)]].lock = disk[Entries[KeyOf(n)]].content
    BY <1>4, <1>8, <2>1 DEF DiskContents
  <2> QED
    BY <2>1, <2>2, <2>3 DEF Readable
<1> QED
  BY <1>5, <1>9, <1>10, <1>11

LEMMA EverythingMatches ==
  ASSUME Shaped, Stacked, Reached, Faithful, touches = 0, phase = "walking", Sound,
         NEW i \in 1..Len(stack), NEW n \in NeedsOf(stack[i].key), KeyOf(n) \in DOMAIN resolved
  PROVE  Matches(n)
<1>1. PICK keys : keys = Reach(roots, DiskNeeds)
  OBVIOUS
<1>2. roots \in SUBSET Key
  BY PackAssumption DEF Shaped
<1>3. DOMAIN resolved \subseteq keys
  BY <1>1, <1>2, WalkIsWithin
<1>4. Consistent(keys, DiskNeeds, DiskContents)
  BY <1>1 DEF Sound
<1>5. Len(stack) \in Nat
  BY DEF Shaped
<1>6. CASE i = 1
  <2>1. \E r \in roots : n = Wanted(r)
    BY <1>6 DEF Stacked, NeedsOf
  <2> QED
    BY <2>1 DEF Matches, Wanted
<1>7. CASE i > 1
  <2>1. PICK k : k = stack[i].key
    OBVIOUS
  <2>2. k \in DOMAIN resolved /\ n \in resolved[k].needs
    BY <1>7, <2>1, FrameIs DEF NeedsOf
  <2>3. n \in DiskNeeds[k] /\ resolved[KeyOf(n)].content = DiskContents[KeyOf(n)]
    BY <2>2 DEF Faithful, Walked
  <2>4. DiskContents[KeyOf(n)] = n.content
    BY <1>3, <1>4, <2>2, <2>3 DEF Consistent
  <2> QED
    BY <2>3, <2>4 DEF Matches
<1> QED
  BY <1>5, <1>6, <1>7

\* What there is to find depends on the disk and on what is asked for.
LEMMA DiskIs ==
  ASSUME UNCHANGED disk
  PROVE  /\ Scannable' = Scannable /\ Entries' = Entries
         /\ DiskNeeds' = DiskNeeds /\ DiskContents' = DiskContents
         /\ UNCHANGED roots => Sound' = Sound
<1>1. Occupied' = Occupied /\ \A p : KeyAt(p)' = KeyAt(p)
  BY DEF Occupied, KeyAt
<1>2. Scannable' = Scannable
  BY <1>1 DEF Scannable
<1>3. Entries' = Entries
  BY <1>1 DEF Entries
<1>4. DiskNeeds' = DiskNeeds /\ DiskContents' = DiskContents
  BY <1>3 DEF DiskNeeds, DiskContents
<1>5. UNCHANGED roots => Sound' = Sound
  BY <1>2, <1>3, <1>4 DEF Sound, Consistent, Reach, Closed
<1> QED
  BY <1>2, <1>3, <1>4, <1>5

\* A refusal leaves nothing to be kept but the shape and its reason.
LEMMA Refusing ==
  ASSUME PInv, phase' = "refused", UNCHANGED <<disk, touches, roots, entries, stack, resolved>>,
         selected' \in [DOMAIN selected' -> Versions], DOMAIN selected' \subseteq Ids,
         depths' \in [DOMAIN depths' -> Nat], DOMAIN depths' \subseteq Key, DOMAIN depths \subseteq DOMAIN depths',
         touches = 0 => ~Sound
  PROVE  PInv'
<1>1. Shaped
  BY DEF PInv
<1>2. Shaped'
  <2>1. resolved' \in [DOMAIN resolved' -> Record] /\ \A k \in DOMAIN resolved' : Unique(resolved'[k].needs)
    BY <1>1 DEF Shaped
  <2>2. DOMAIN resolved' \subseteq DOMAIN depths'
    BY <1>1 DEF Shaped
  <2>3. phase' # "idle" /\ phase' \in {"idle", "walking", "accepted", "refused"} /\ ~Walked'
    BY DEF Walked
  <2>4. /\ disk' \in [Places -> Pack \cup {Absent}]
        /\ \A p \in Places : disk'[p] # Absent => Unique(disk'[p].needs)
    BY <1>1 DEF Shaped
  <2>5. stack' \in Seq([key : Key \cup {Absent}, left : SUBSET Demand]) /\ touches' \in 0..MaxTouches /\ roots' \in Projects
    BY <1>1 DEF Shaped
  <2>6. entries' = Absent \/ (entries' \in [DOMAIN entries' -> Places] /\ DOMAIN entries' \subseteq Key)
    BY <1>1 DEF Shaped
  <2> QED
    BY <2>1, <2>2, <2>3, <2>4, <2>5, <2>6 DEF Shaped
<1>3. ~Walked'
  BY DEF Walked
<1>4. Sound' = Sound
  BY DiskIs
<1>5. Faithful' /\ Deserved'
  BY <1>3, <1>4 DEF Faithful, Deserved
<1> QED
  BY <1>2, <1>3, <1>5 DEF PInv

\* The labels a visit writes.
LEMMA LabelledIs ==
  ASSUME Shaped, Walked, Stacked, Chosen, Walking, Labelled(Need)
  PROVE  /\ selected' \in [DOMAIN selected' -> Versions] /\ DOMAIN selected' \subseteq Ids
         /\ depths' \in [DOMAIN depths' -> Nat] /\ DOMAIN depths' = DOMAIN depths \cup {KeyOf(Need)}
         /\ DOMAIN depths' \subseteq Key
         /\ DOMAIN selected' = DOMAIN selected \cup {Need.id} /\ selected'[Need.id] = Need.version
         /\ \A i \in DOMAIN selected : selected'[i] = selected[i]
<1>1. PICK n : n = Need
  OBVIOUS
<1>2. KeyOf(n) \in Key /\ n \in Demand
  BY <1>1, NeedIs
<1>3. n.id \in Ids /\ n.version \in Versions
  BY <1>2 DEF KeyOf, Key
<1>4. selected' = Put(selected, n.id, n.version) /\ depths' = Put(depths, KeyOf(n), Deepest(KeyOf(n)))
  BY <1>1 DEF Labelled
<1>5. n.id \in DOMAIN selected => selected[n.id] = n.version
  BY <1>1 DEF Labelled, Conflicts, ValueAt
<1>6. /\ DOMAIN selected' = DOMAIN selected \cup {n.id} /\ selected'[n.id] = n.version
      /\ \A i \in DOMAIN selected : selected'[i] = selected[i]
  BY <1>4, <1>5 DEF Put
<1>7. selected' \in [DOMAIN selected' -> Versions] /\ DOMAIN selected' \subseteq Ids
  <2>1. selected \in [DOMAIN selected -> Versions] /\ DOMAIN selected \subseteq Ids
    BY DEF Shaped
  <2>2. \A i \in DOMAIN selected' : selected'[i] \in Versions
    BY <1>3, <1>6, <2>1
  <2>3. selected' = [i \in DOMAIN selected' |-> selected'[i]]
    BY <1>4 DEF Put
  <2> QED
    BY <1>3, <1>6, <2>1, <2>2, <2>3
<1>8. Deepest(KeyOf(n)) \in Nat
  <2>1. Depth \in Nat
    <3>1. Len(stack) \in Nat /\ Len(stack) >= 1
      BY DEF Shaped, Stacked
    <3> QED
      BY <3>1 DEF Depth
  <2>2. ValueAt(depths, KeyOf(n), 0) \in Nat
    BY DEF ValueAt, Shaped
  <2> QED
    BY <2>1, <2>2 DEF Deepest
<1>9. /\ depths' \in [DOMAIN depths' -> Nat] /\ DOMAIN depths' = DOMAIN depths \cup {KeyOf(n)}
      /\ DOMAIN depths' \subseteq Key
  <2>1. depths \in [DOMAIN depths -> Nat] /\ DOMAIN depths \subseteq Key
    BY DEF Shaped
  <2>2. DOMAIN depths' = DOMAIN depths \cup {KeyOf(n)} /\ depths'[KeyOf(n)] = Deepest(KeyOf(n))
    BY <1>4 DEF Put
  <2>3. \A k \in DOMAIN depths : k # KeyOf(n) => depths'[k] = depths[k]
    BY <1>4 DEF Put
  <2>4. \A k \in DOMAIN depths' : depths'[k] \in Nat
    BY <1>8, <2>1, <2>2, <2>3
  <2>5. depths' = [k \in DOMAIN depths' |-> depths'[k]]
    BY <1>4 DEF Put
  <2> QED
    BY <1>2, <2>1, <2>2, <2>4, <2>5
<1> QED
  BY <1>1, <1>6, <1>7, <1>9

\* The steps of the walk, and of those who edit packs.
LEMMA PackInitInv == PInit => PInv
<1> SUFFICES ASSUME PInit PROVE PInv
  OBVIOUS
<1>1. /\ touches = 0 /\ roots \in Projects /\ entries = Absent /\ phase = "idle" /\ stack = <<>>
      /\ selected = NoKeys /\ resolved = NoKeys /\ depths = NoKeys /\ disk \in InitialPacks
  BY DEF PInit
<1>2. DOMAIN NoKeys = {}
  BY DEF NoKeys
<1>3. /\ disk \in [Places -> Pack \cup {Absent}]
      /\ \A p \in Places : disk[p] # Absent => Unique(disk[p].needs)
  BY <1>1, PackAssumption
<1>4. ~Walked
  BY <1>1 DEF Walked
<1>5. NoKeys \in [DOMAIN NoKeys -> Versions] /\ NoKeys \in [DOMAIN NoKeys -> Record] /\ NoKeys \in [DOMAIN NoKeys -> Nat]
  BY DEF NoKeys
<1>6. touches \in 0..MaxTouches
  BY <1>1, PackAssumption
<1>7. stack \in Seq([key : Key \cup {Absent}, left : SUBSET Demand])
  BY <1>1
<1>8. Shaped
  BY <1>1, <1>2, <1>3, <1>4, <1>5, <1>6, <1>7 DEF Shaped
<1>9. Faithful /\ Deserved
  BY <1>1, <1>4 DEF Faithful, Deserved
<1> QED
  BY <1>4, <1>8, <1>9 DEF PInv

LEMMA ScanKeeps == ASSUME PInv, Scan PROVE PInv'
<1>1. Shaped /\ phase = "idle" /\ stack = <<>> /\ resolved = NoKeys /\ selected = NoKeys
  BY DEF PInv, Shaped, Scan
<1>2. UNCHANGED <<disk, touches, roots, selected, resolved, depths>>
  BY DEF Scan
<1>3. CASE ~Scannable
  <2>1. ~Sound
    BY <1>3 DEF Sound
  <2>2. phase' = "refused" /\ UNCHANGED <<entries, stack>>
    BY <1>3 DEF Scan
  <2>3. /\ selected' \in [DOMAIN selected' -> Versions] /\ DOMAIN selected' \subseteq Ids
        /\ depths' \in [DOMAIN depths' -> Nat] /\ DOMAIN depths' \subseteq Key
    BY <1>1, <1>2 DEF Shaped
  <2> QED
    BY <1>2, <2>1, <2>2, <2>3, Refusing
<1>4. CASE Scannable
  <2>1. entries' = Entries /\ phase' = "walking"
    BY <1>4 DEF Scan
  <2>2. PICK first : first = [key |-> Absent, left |-> {Wanted(k) : k \in roots}]
    OBVIOUS
  <2>3. stack' = <<first>> /\ first.key = Absent /\ first.left = {Wanted(k) : k \in roots}
    BY <1>4, <2>2 DEF Scan
  <2>4. DOMAIN NoKeys = {} /\ DOMAIN resolved' = {} /\ DOMAIN selected' = {}
    BY <1>1, <1>2 DEF NoKeys
  <2>5. roots \subseteq Key /\ Absent \notin Key
    BY <1>1, PackAssumption DEF Shaped
  <2>6. first \in [key : Key \cup {Absent}, left : SUBSET Demand]
    <3>1. {Wanted(k) : k \in roots} \subseteq Demand
      BY <2>5 DEF Demand
    <3> QED
      BY <2>2, <3>1
  <2>7. /\ stack' \in Seq([key : Key \cup {Absent}, left : SUBSET Demand])
        /\ Len(stack') = 1 /\ DOMAIN stack' = 1..1 /\ stack'[1] = first
    BY <2>3, <2>6
  <2>8. Entries \in [DOMAIN Entries -> Places] /\ DOMAIN Entries \subseteq Key
    <3>1. Entries = [k \in DOMAIN Entries |-> Entries[k]]
      BY DEF Entries
    <3>2. \A k \in DOMAIN Entries : Entries[k] \in Places
      BY <1>1, EntriesAre
    <3> QED
      BY <1>1, <3>1, <3>2, EntriesAre
  <2>9. Shaped'
    BY <1>1, <1>2, <2>1, <2>7, <2>8 DEF Shaped
  <2>10. DOMAIN stack' = {1} /\ UnderVisit' = {Absent} /\ Done' = {}
    BY <2>3, <2>4, <2>7 DEF UnderVisit, Done
  <2>11. NeedsOf(stack[1].key)' = {Wanted(k) : k \in roots}
    BY <1>2, <2>3, <2>7 DEF NeedsOf
  <2>12. Stacked'
    <3>1. \A i \in 1..Len(stack') : i = 1
      BY <2>7
    <3>2. 2..Len(stack') = {} /\ 1..Len(stack') - 1 = {}
      BY <2>7
    <3>3. \A i \in 1..Len(stack') : stack'[i].left \subseteq NeedsOf(stack[i].key)'
      BY <2>3, <2>7, <2>11, <3>1
    <3> QED
      BY <2>1, <2>3, <2>7, <3>1, <3>2, <3>3 DEF Stacked
  <2>13. Kept'
    <3>1. \A i \in 1..Len(stack') : i = 1
      BY <2>7
    <3> QED
      BY <2>3, <2>7, <2>10, <2>11, <3>1 DEF Kept
  <2>14. Ordered' /\ Chosen'
    BY <2>4, <2>10 DEF Ordered, Chosen
  <2>15. Reached'
    <3>1. 2..Len(stack') = {}
      BY <2>7
    <3> QED
      BY <2>4, <3>1 DEF Reached
  <2>16. Faithful' /\ Deserved'
    BY <1>2, <1>4, <2>1, <2>4, DiskIs DEF Faithful, Deserved
  <2> QED
    BY <2>9, <2>12, <2>13, <2>14, <2>15, <2>16 DEF PInv
<1> QED
  BY <1>3, <1>4

LEMMA ContradictKeeps == ASSUME PInv, Contradict PROVE PInv'
<1>1. Walking /\ phase = "walking" /\ Walked /\ Shaped
  BY DEF Contradict, Walking, Walked, PInv
<1>2. Stacked /\ Chosen /\ Reached /\ Faithful
  BY <1>1 DEF PInv
<1>3. touches = 0 => ~Sound
  BY <1>1, <1>2, NothingContradicts DEF Contradict
<1>4. phase' = "refused" /\ UNCHANGED <<disk, touches, roots, entries, stack, selected, resolved, depths>>
  BY DEF Contradict, Refuse
<1>5. /\ selected' \in [DOMAIN selected' -> Versions] /\ DOMAIN selected' \subseteq Ids
      /\ depths' \in [DOMAIN depths' -> Nat] /\ DOMAIN depths' \subseteq Key /\ DOMAIN depths \subseteq DOMAIN depths'
  BY <1>1, <1>4 DEF Shaped
<1> QED
  BY <1>3, <1>4, <1>5, Refusing

\* What was read stays what is there while nobody edits.
LEMMA ReadKept ==
  ASSUME Faithful, Walked, UNCHANGED <<disk, touches, entries, resolved>>
  PROVE  Faithful'
<1>1. Scannable' = Scannable /\ Entries' = Entries /\ DiskNeeds' = DiskNeeds /\ DiskContents' = DiskContents
  BY DiskIs
<1> QED
  BY <1>1 DEF Faithful

LEMMA VisitAgainKeeps == ASSUME PInv, VisitAgain PROVE PInv'
<1>1. Walking /\ phase = "walking" /\ Walked /\ Shaped /\ Labelled(Need) /\ KeyOf(Need) \in DOMAIN resolved
  BY DEF VisitAgain, Walking, Walked, PInv
<1>2. Stacked /\ Kept /\ Ordered /\ Chosen /\ Reached /\ Faithful
  BY <1>1 DEF PInv
<1>3. UNCHANGED <<disk, touches, roots, entries, resolved>>
  BY DEF VisitAgain
<1>4. PICK n : n = Need
  OBVIOUS
<1>5. PICK top : top = Len(stack)
  OBVIOUS
<1>6. /\ top \in Nat /\ top \in 1..top /\ Top = stack[top] /\ n \in Top.left
      /\ n \in NeedsOf(stack[top].key) /\ n \in Demand /\ KeyOf(n) \in Key
  BY <1>1, <1>2, <1>4, <1>5, NeedIs
<1>7. /\ selected' \in [DOMAIN selected' -> Versions] /\ DOMAIN selected' \subseteq Ids
      /\ depths' \in [DOMAIN depths' -> Nat] /\ DOMAIN depths' = DOMAIN depths \cup {KeyOf(n)}
      /\ DOMAIN depths' \subseteq Key
      /\ DOMAIN selected' = DOMAIN selected \cup {n.id} /\ selected'[n.id] = n.version
      /\ \A i \in DOMAIN selected : selected'[i] = selected[i]
  BY <1>1, <1>2, <1>4, LabelledIs
<1>8. CASE ~Matches(n)
  <2>1. phase' = "refused" /\ UNCHANGED stack
    BY <1>4, <1>8 DEF VisitAgain
  <2>2. touches = 0 => ~Sound
    BY <1>1, <1>2, <1>4, <1>5, <1>6, <1>8, EverythingMatches
  <2> QED
    BY <1>3, <1>7, <2>1, <2>2, Refusing
<1>9. CASE Matches(n)
  <2>1. stack' = Drop(stack, n) /\ UNCHANGED phase
    BY <1>4, <1>9 DEF VisitAgain
  <2>2. stack \in Seq(Frame) /\ top >= 1
    BY <1>1, <1>6 DEF Shaped, Frame
  <2>3. /\ stack' \in Seq(Frame) /\ Len(stack') = top /\ DOMAIN stack' = 1..top
        /\ \A i \in 1..top : stack'[i].key = stack[i].key /\ stack'[i].left \subseteq stack[i].left
        /\ \A i \in 1..top - 1 : stack'[i] = stack[i]
        /\ stack'[top].left = stack[top].left \ {n}
    BY <1>5, <2>1, <2>2, DropIs
  <2>4. Walked' /\ phase' = "walking"
    BY <1>1, <2>1 DEF Walked
  <2>5. DOMAIN stack = 1..top
    BY <1>5, <2>2
  <2>6. UnderVisit' = UnderVisit /\ Done' = Done
    BY <1>3, <2>3, <2>5 DEF UnderVisit, Done
  <2>7. \A k : NeedsOf(k)' = NeedsOf(k)
    BY <1>3 DEF NeedsOf
  <2>8. \A m : Met(m)' = Met(m)
    BY <1>3, <2>6 DEF Met, Matches
  <2>9. Shaped'
    <3>1. stack' \in Seq([key : Key \cup {Absent}, left : SUBSET Demand])
      BY <2>3 DEF Frame
    <3>2. DOMAIN resolved' \subseteq DOMAIN depths'
      BY <1>1, <1>3, <1>7 DEF Shaped
    <3>3. entries' \in [DOMAIN entries' -> Places] /\ DOMAIN entries' \subseteq Key
      BY <1>1, <1>3 DEF Shaped
    <3>4. /\ disk' \in [Places -> Pack \cup {Absent}]
          /\ \A p \in Places : disk'[p] # Absent => Unique(disk'[p].needs)
          /\ touches' \in 0..MaxTouches /\ roots' \in Projects
          /\ resolved' \in [DOMAIN resolved' -> Record] /\ \A k \in DOMAIN resolved' : Unique(resolved'[k].needs)
      BY <1>1, <1>3 DEF Shaped
    <3> QED
      BY <1>7, <2>4, <3>1, <3>2, <3>3, <3>4 DEF Shaped
  <2>10. Stacked'
    <3>1. top >= 1 /\ stack'[1].key = Absent
      BY <1>2, <1>6, <2>2, <2>3 DEF Stacked
    <3>2. \A i \in 2..top : i \in 1..top /\ stack'[i].key \in DOMAIN resolved
      BY <1>2, <1>5, <2>3 DEF Stacked
    <3>3. \A i, j \in 1..top : stack'[i].key = stack'[j].key => i = j
      BY <1>2, <1>5, <2>3 DEF Stacked
    <3>4. \A i \in 1..top : stack'[i].left \subseteq NeedsOf(stack'[i].key)
      BY <1>2, <1>5, <2>3 DEF Stacked
    <3>5. ASSUME NEW i \in 1..top - 1 PROVE stack'[i].left # {} /\ KeyOf(First(stack'[i].left)) = stack'[i + 1].key
      <4>1. i \in 1..top /\ i + 1 \in 1..top
        BY <1>6
      <4>2. stack[i].left # {} /\ KeyOf(First(stack[i].left)) = stack[i + 1].key
        BY <1>2, <1>5 DEF Stacked
      <4> QED
        BY <2>3, <4>1, <4>2
    <3>6. \A i \in 1..top : NeedsOf(stack[i].key)' = NeedsOf(stack'[i].key)
      BY <1>3 DEF NeedsOf
    <3> QED
      BY <1>3, <2>3, <2>4, <3>1, <3>2, <3>3, <3>4, <3>5, <3>6 DEF Stacked
  <2>11. Kept'
    <3>1. Met(n)
      BY <1>1, <1>4, <1>9 DEF Met, Done, Labelled, Cyclic
    <3>2. ASSUME NEW i \in 1..top, NEW m \in NeedsOf(stack'[i].key) \ stack'[i].left PROVE Met(m)
      <4>1. m \in NeedsOf(stack[i].key)
        BY <2>3
      <4>2. CASE m \notin stack[i].left
        BY <1>2, <1>5, <4>1, <4>2 DEF Kept
      <4>3. CASE m \in stack[i].left
        <5>1. i = top /\ m = n
          <6>1. i # top => i \in 1..top - 1
            BY <1>6
          <6> QED
            BY <2>3, <4>3, <6>1
        <5> QED
          BY <3>1, <5>1
      <4> QED
        BY <4>2, <4>3
    <3>3. \A i \in 1..top : NeedsOf(stack[i].key)' = NeedsOf(stack'[i].key)
      BY <1>3 DEF NeedsOf
    <3>4. \A k \in Done : \A m \in resolved[k].needs : Met(m)
      BY <1>2 DEF Kept
    <3> QED
      BY <1>3, <2>3, <2>6, <2>8, <3>2, <3>3, <3>4 DEF Kept
  <2>12. Ordered'
    BY <1>2, <1>3, <2>6 DEF Ordered
  <2>13. Chosen'
    BY <1>1, <1>2, <1>3, <1>4, <1>7 DEF Chosen, KeyOf
  <2>14. Reached'
    <3>1. Needs' = Needs
      BY <1>3 DEF Needs
    <3>2. \A S : Closed(S, Needs)' = Closed(S, Needs)
      BY <3>1 DEF Closed
    <3>3. 2..top \subseteq 1..top
      BY <1>6
    <3> QED
      BY <1>2, <1>3, <1>5, <2>3, <3>1, <3>2, <3>3 DEF Reached
  <2>15. Faithful' /\ Deserved'
    BY <1>1, <1>2, <1>3, <2>4, ReadKept DEF Deserved
  <2> QED
    BY <2>9, <2>10, <2>11, <2>12, <2>13, <2>14, <2>15 DEF PInv
<1> QED
  BY <1>8, <1>9

LEMMA VisitKeeps == ASSUME PInv, Visit PROVE PInv'
<1>1. Walking /\ phase = "walking" /\ Walked /\ Shaped /\ Labelled(Need) /\ KeyOf(Need) \notin DOMAIN resolved
  BY DEF Visit, Walking, Walked, PInv
<1>2. Stacked /\ Kept /\ Ordered /\ Chosen /\ Reached /\ Faithful
  BY <1>1 DEF PInv
<1>3. UNCHANGED <<disk, touches, roots, entries>>
  BY DEF Visit
<1>4. PICK n : n = Need
  OBVIOUS
<1>5. PICK top : top = Len(stack)
  OBVIOUS
<1>6. /\ top \in Nat /\ top \in 1..top /\ Top = stack[top] /\ n \in Top.left
      /\ n \in NeedsOf(stack[top].key) /\ n \in Demand /\ KeyOf(n) \in Key
  BY <1>1, <1>2, <1>4, <1>5, NeedIs
<1>7. /\ selected' \in [DOMAIN selected' -> Versions] /\ DOMAIN selected' \subseteq Ids
      /\ depths' \in [DOMAIN depths' -> Nat] /\ DOMAIN depths' = DOMAIN depths \cup {KeyOf(n)}
      /\ DOMAIN depths' \subseteq Key
      /\ DOMAIN selected' = DOMAIN selected \cup {n.id} /\ selected'[n.id] = n.version
      /\ \A i \in DOMAIN selected : selected'[i] = selected[i]
  BY <1>1, <1>2, <1>4, LabelledIs
<1>8. PICK k : k = KeyOf(n)
  OBVIOUS
<1>9. CASE ~Readable(k)
  <2>1. phase' = "refused" /\ UNCHANGED <<resolved, stack>>
    BY <1>4, <1>8, <1>9 DEF Visit
  <2>2. touches = 0 => ~Sound
    BY <1>1, <1>2, <1>4, <1>8, <1>9, NothingContradicts
  <2> QED
    BY <1>3, <1>7, <2>1, <2>2, Refusing
<1>10. CASE Readable(k)
  <2>1. PICK pack : pack = ReadAt(entries[k])
    OBVIOUS
  <2>2. PICK frame : frame = [key |-> k, left |-> pack.needs]
    OBVIOUS
  <2>3. resolved' = Put(resolved, k, pack) /\ stack' = Append(stack, frame) /\ UNCHANGED phase
    BY <1>4, <1>8, <1>10, <2>1, <2>2 DEF Visit
  <2>4. /\ DOMAIN resolved' = DOMAIN resolved \cup {k} /\ resolved'[k] = pack
        /\ \A x \in DOMAIN resolved : resolved'[x] = resolved[x]
        /\ k \notin DOMAIN resolved /\ k \in Key /\ k = <<n.id, n.version>>
    BY <1>1, <1>4, <1>6, <1>8, <2>3 DEF Put, KeyOf
  <2>5. pack \in Record /\ Unique(pack.needs) /\ pack.needs \subseteq Demand
    <3>1. PICK p : p = entries[k]
      OBVIOUS
    <3>2. k \in DOMAIN entries /\ disk[p] # Absent
      BY <1>10, <3>1 DEF Readable
    <3>3. p \in Occupied
      BY <1>1, <3>1, <3>2 DEF Occupied, Shaped
    <3>4. KeyAt(p) \in Key /\ disk[p] \in Pack /\ Unique(disk[p].needs)
      BY <1>1, <3>3, EntriesAre
    <3>5. pack = [key |-> KeyAt(p), needs |-> disk[p].needs, content |-> disk[p].content]
      BY <2>1, <3>1 DEF ReadAt
    <3> QED
      BY <3>4, <3>5 DEF Record, Pack, Demand
  <2>6. frame \in Frame /\ frame.key = k /\ frame.left = pack.needs
    BY <2>2, <2>4, <2>5 DEF Frame
  <2>7. stack \in Seq(Frame) /\ top >= 1 /\ DOMAIN stack = 1..top
    BY <1>1, <1>5, <1>6 DEF Shaped, Frame
  <2>8. PICK next : next = top + 1
    OBVIOUS
  <2>9. /\ stack' \in Seq(Frame) /\ Len(stack') = next /\ DOMAIN stack' = 1..next /\ next \in Nat
        /\ stack'[next] = frame /\ \A i \in 1..top : stack'[i] = stack[i]
    BY <1>5, <1>6, <2>3, <2>6, <2>7, <2>8
  <2>10. /\ 1..next = 1..top \cup {next} /\ next \notin 1..top /\ next - 1 = top /\ next > 1
         /\ 2..next = 2..top \cup {next} /\ 2..top \subseteq 1..top /\ next \notin 2..top
    BY <1>6, <2>7, <2>8
  <2>11. Walked' /\ phase' = "walking"
    BY <1>1, <2>3 DEF Walked
  <2>12. Absent \notin Key
    BY PackAssumption
  <2>13. UnderVisit' = UnderVisit \cup {k}
    BY <2>6, <2>7, <2>9, <2>10 DEF UnderVisit
  <2>14. k \notin UnderVisit
    BY <1>1, <1>4, <1>8 DEF Labelled, Cyclic
  <2>15. Done' = Done
    BY <2>4, <2>13 DEF Done
  <2>16. \A i \in 1..top : stack[i].key = Absent \/ stack[i].key \in DOMAIN resolved
    BY <1>1, <1>2, <1>5, <2>7, FrameIs, <2>10 DEF Stacked
  <2>17. \A i \in 1..top : NeedsOf(stack[i].key)' = NeedsOf(stack[i].key)
    <3> SUFFICES ASSUME NEW i \in 1..top PROVE NeedsOf(stack[i].key)' = NeedsOf(stack[i].key)
      OBVIOUS
    <3>1. stack'[i] = stack[i]
      BY <2>9
    <3>2. CASE stack[i].key = Absent
      BY <1>3, <3>1, <3>2 DEF NeedsOf
    <3>3. CASE stack[i].key # Absent
      BY <2>4, <2>16, <3>1, <3>3 DEF NeedsOf
    <3> QED
      BY <3>2, <3>3
  <2>18. NeedsOf(stack[next].key)' = pack.needs
    BY <2>4, <2>6, <2>9, <2>12 DEF NeedsOf
  <2>19. \A m : Met(m) => Met(m)'
    <3> SUFFICES ASSUME NEW m, Met(m) PROVE Met(m)'
      OBVIOUS
    <3>1. KeyOf(m) \in Done /\ Matches(m) /\ KeyOf(m) \in DOMAIN resolved
      BY DEF Met, Done
    <3>2. resolved'[KeyOf(m)] = resolved[KeyOf(m)]
      BY <2>4, <3>1
    <3> QED
      BY <2>15, <3>1, <3>2 DEF Met, Matches
  <2>20. Shaped'
    <3>1. stack' \in Seq([key : Key \cup {Absent}, left : SUBSET Demand])
      BY <2>9 DEF Frame
    <3>2. DOMAIN resolved' \subseteq DOMAIN depths'
      BY <1>1, <1>7, <1>8, <2>4 DEF Shaped
    <3>3. entries' \in [DOMAIN entries' -> Places] /\ DOMAIN entries' \subseteq Key
      BY <1>1, <1>3 DEF Shaped
    <3>4. /\ disk' \in [Places -> Pack \cup {Absent}]
          /\ \A p \in Places : disk'[p] # Absent => Unique(disk'[p].needs)
          /\ touches' \in 0..MaxTouches /\ roots' \in Projects
      BY <1>1, <1>3 DEF Shaped
    <3>5. \A x \in DOMAIN resolved' : resolved'[x] \in Record /\ Unique(resolved'[x].needs)
      BY <1>1, <2>4, <2>5 DEF Shaped
    <3>6. resolved' = [x \in DOMAIN resolved' |-> resolved'[x]]
      BY <2>3 DEF Put
    <3>7. resolved' \in [DOMAIN resolved' -> Record]
      BY <3>5, <3>6
    <3> QED
      BY <1>7, <2>11, <3>1, <3>2, <3>3, <3>4, <3>5, <3>7 DEF Shaped
  <2>21. Stacked'
    <3>1. next >= 1 /\ stack'[1].key = Absent
      BY <1>2, <2>7, <2>9, <2>10 DEF Stacked
    <3>2. \A i \in 2..next : stack'[i].key \in DOMAIN resolved'
      BY <1>2, <1>5, <2>4, <2>6, <2>9, <2>10 DEF Stacked
    <3>3. \A i, j \in 1..next : stack'[i].key = stack'[j].key => i = j
      <4>1. \A i \in 1..top : stack[i].key # k
        BY <2>4, <2>12, <2>16
      <4> QED
        BY <1>2, <1>5, <2>6, <2>9, <2>10, <4>1 DEF Stacked
    <3>4. ASSUME NEW i \in 1..next PROVE stack'[i].left \subseteq NeedsOf(stack[i].key)'
      <4>1. CASE i = next
        BY <2>6, <2>9, <2>18, <4>1
      <4>2. CASE i \in 1..top
        BY <1>2, <1>5, <2>9, <2>17, <4>2 DEF Stacked
      <4> QED
        BY <2>10, <4>1, <4>2
    <3>5. ASSUME NEW i \in 1..top PROVE stack'[i].left # {} /\ KeyOf(First(stack'[i].left)) = stack'[i + 1].key
      <4>1. CASE i = top
        <5>1. stack'[i] = stack[top] /\ stack'[i + 1] = frame
          BY <2>8, <2>9, <4>1
        <5>2. stack[top].left # {} /\ First(stack[top].left) = n
          BY <1>1, <1>4, <1>6 DEF Walking, Need
        <5> QED
          BY <1>8, <2>6, <5>1, <5>2
      <4>2. CASE i # top
        <5>1. i \in 1..top - 1 /\ i + 1 \in 1..top
          BY <1>6, <4>2
        <5>2. stack[i].left # {} /\ KeyOf(First(stack[i].left)) = stack[i + 1].key
          BY <1>2, <1>5, <5>1 DEF Stacked
        <5> QED
          BY <2>9, <5>1, <5>2
      <4> QED
        BY <4>1, <4>2
    <3> QED
      BY <2>9, <2>10, <2>11, <3>1, <3>2, <3>3, <3>4, <3>5 DEF Stacked
  <2>22. Kept'
    <3>1. ASSUME NEW i \in 1..next, NEW m \in NeedsOf(stack[i].key)' \ stack'[i].left PROVE Met(m)'
      <4>1. i # next
        BY <2>6, <2>9, <2>18
      <4>2. m \in NeedsOf(stack[i].key) \ stack[i].left /\ i \in 1..top
        BY <2>9, <2>10, <2>17, <4>1
      <4>3. Met(m)
        BY <1>2, <1>5, <4>2 DEF Kept
      <4> QED
        BY <2>19, <4>3
    <3>2. ASSUME NEW x \in Done, NEW m \in resolved'[x].needs PROVE Met(m)'
      <4>1. m \in resolved[x].needs
        BY <2>4 DEF Done
      <4>2. Met(m)
        BY <1>2, <4>1 DEF Kept
      <4> QED
        BY <2>19, <4>2
    <3> QED
      BY <2>9, <2>15, <3>1, <3>2 DEF Kept
  <2>23. Ordered'
    <3>1. \A x \in Done : resolved'[x] = resolved[x]
      BY <2>4 DEF Done
    <3> SUFFICES ASSUME NEW x \in Done
                 PROVE  \E S \in SUBSET Done :
                          /\ x \notin S /\ \A m \in resolved'[x].needs : KeyOf(m) \in S
                          /\ \A l \in S : \A m \in resolved'[l].needs : KeyOf(m) \in S
      BY <2>15 DEF Ordered
    <3>2. PICK S \in SUBSET Done :
            /\ x \notin S /\ \A m \in resolved[x].needs : KeyOf(m) \in S
            /\ \A l \in S : \A m \in resolved[l].needs : KeyOf(m) \in S
      BY <1>2 DEF Ordered
    <3> QED
      BY <3>1, <3>2
  <2>24. Chosen'
    <3>1. \A x \in DOMAIN resolved : x[1] \in DOMAIN selected' /\ selected'[x[1]] = x[2]
      BY <1>2, <1>7 DEF Chosen
    <3>2. k[1] \in DOMAIN selected' /\ selected'[k[1]] = k[2]
      BY <1>7, <2>4
    <3>3. \A i \in DOMAIN selected' : <<i, selected'[i]>> \in DOMAIN resolved'
      BY <1>2, <1>7, <2>4 DEF Chosen
    <3> QED
      BY <2>4, <3>1, <3>2, <3>3 DEF Chosen
  <2>25. Reached'
    <3>1. ASSUME NEW S, Closed(S, Needs)' PROVE Closed(S, Needs)
      BY <2>4, <3>1 DEF Closed, Needs
    <3>2. ASSUME NEW S \in SUBSET Key, roots' \subseteq S, Closed(S, Needs)' PROVE DOMAIN resolved' \subseteq S
      <4>1. Closed(S, Needs) /\ DOMAIN resolved \subseteq S
        BY <1>2, <1>3, <3>1, <3>2 DEF Reached
      <4>2. k \in S
        <5>1. CASE top = 1
          <6>1. PICK r \in roots : n = Wanted(r)
            BY <1>2, <1>6, <5>1 DEF Stacked, NeedsOf
          <6>2. r \in Key
            BY <1>3, <3>2
          <6>3. KeyOf(n) = r
            BY <6>1, <6>2 DEF KeyOf, Wanted, Key
          <6> QED
            BY <1>3, <1>8, <3>2, <6>1, <6>3
        <5>2. CASE top > 1
          <6>1. stack[top].key \in DOMAIN resolved /\ n \in resolved[stack[top].key].needs
            BY <1>1, <1>2, <1>5, <1>6, <5>2, FrameIs DEF NeedsOf
          <6> QED
            BY <1>8, <4>1, <6>1 DEF Closed, Needs
        <5> QED
          BY <1>6, <5>1, <5>2
      <4> QED
        BY <2>4, <4>1, <4>2
    <3>3. ASSUME NEW i \in 2..next, NEW j \in 2..next, NEW S \in SUBSET Key,
                 i < j, \A m \in resolved'[stack'[i].key].needs : KeyOf(m) \in S, Closed(S, Needs)'
          PROVE  stack'[j].key \in S
      <4>1. Closed(S, Needs)
        BY <3>1, <3>3
      <4>2. i \in 2..top /\ i \in 1..top
        BY <1>6, <2>8, <3>3
      <4>3. stack'[i] = stack[i] /\ stack[i].key \in DOMAIN resolved /\ resolved'[stack[i].key] = resolved[stack[i].key]
        BY <1>2, <1>5, <2>4, <2>9, <4>2 DEF Stacked
      <4>4. \A m \in resolved[stack[i].key].needs : KeyOf(m) \in S
        BY <3>3, <4>3
      <4>5. CASE j \in 2..top
        <5>1. stack'[j] = stack[j]
          BY <2>9, <2>10, <4>5
        <5>2. stack[j].key \in S
          BY <1>2, <1>5, <3>3, <4>1, <4>2, <4>4, <4>5 DEF Reached
        <5> QED
          BY <5>1, <5>2
      <4>6. CASE j = next
        <5>1. top > 1 /\ top \in 2..top
          BY <1>6, <4>2
        <5>2. stack[top].key \in DOMAIN resolved /\ n \in resolved[stack[top].key].needs
          BY <1>1, <1>2, <1>5, <1>6, <5>1, FrameIs DEF NeedsOf
        <5>3. i = top \/ i < top
          BY <1>6, <4>2
        <5>4. CASE i = top
          BY <1>8, <2>6, <2>9, <4>4, <4>6, <5>2, <5>4
        <5>5. CASE i < top
          <6>1. stack[top].key \in S
            BY <1>2, <1>5, <4>1, <4>2, <4>4, <5>1, <5>5 DEF Reached
          <6>2. KeyOf(n) \in S
            BY <4>1, <5>2, <6>1 DEF Closed, Needs
          <6> QED
            BY <1>8, <2>6, <2>9, <4>6, <6>2
        <5> QED
          BY <5>3, <5>4, <5>5
      <4> QED
        BY <2>10, <4>5, <4>6
    <3> QED
      BY <2>9, <3>2, <3>3 DEF Reached
  <2>26. Faithful'
    <3> SUFFICES ASSUME touches' = 0
                 PROVE  /\ Scannable' /\ entries' = Entries'
                        /\ \A x \in DOMAIN resolved' :
                             /\ x \in DOMAIN Entries' /\ resolved'[x].needs = DiskNeeds'[x]
                             /\ resolved'[x].content = DiskContents'[x]
                             /\ disk'[Entries'[x]].lock = DiskContents'[x]
      BY DEF Faithful
    <3>1. Scannable' = Scannable /\ Entries' = Entries /\ DiskNeeds' = DiskNeeds /\ DiskContents' = DiskContents
      BY <1>3, DiskIs
    <3>2. /\ Scannable /\ entries = Entries
          /\ \A x \in DOMAIN resolved :
               /\ x \in DOMAIN Entries /\ resolved[x].needs = DiskNeeds[x]
               /\ resolved[x].content = DiskContents[x] /\ disk[Entries[x]].lock = DiskContents[x]
      BY <1>1, <1>2, <1>3 DEF Faithful
    <3>3. k \in DOMAIN Entries /\ disk[Entries[k]].lock = disk[Entries[k]].content
      BY <1>10, <3>2 DEF Readable
    <3>4. pack.needs = disk[Entries[k]].needs /\ pack.content = disk[Entries[k]].content
      BY <2>1, <3>2 DEF ReadAt
    <3>5. DiskNeeds[k] = disk[Entries[k]].needs /\ DiskContents[k] = disk[Entries[k]].content
      BY <3>3 DEF DiskNeeds, DiskContents
    <3> QED
      BY <1>3, <2>4, <3>1, <3>2, <3>3, <3>4, <3>5
  <2>27. Deserved'
    BY <2>11 DEF Deserved
  <2> QED
    BY <2>20, <2>21, <2>22, <2>23, <2>24, <2>25, <2>26, <2>27 DEF PInv
<1> QED
  BY <1>9, <1>10

LEMMA ReturnKeeps == ASSUME PInv, Return PROVE PInv'
<1>1. phase = "walking" /\ Walked /\ Shaped /\ Len(stack) > 1 /\ Top.left = {}
  BY DEF Return, Walked, PInv
<1>2. Stacked /\ Kept /\ Ordered /\ Chosen /\ Reached /\ Faithful
  BY <1>1 DEF PInv
<1>3. UNCHANGED <<disk, touches, roots, entries, selected, resolved, depths>>
  BY DEF Return
<1>4. PICK last : last = Len(stack)
  OBVIOUS
<1>5. PICK top : top = last - 1
  OBVIOUS
<1>6. /\ last \in Nat /\ top \in Nat /\ last = top + 1 /\ top \in 1..last /\ last \in 1..last /\ top \in 1..top
      /\ 1..last = 1..top \cup {last} /\ last \notin 1..top /\ last \in 2..last
      /\ top \in 1..last - 1 /\ top >= 1 /\ 2..top \subseteq 2..last /\ 1..top \subseteq 1..last
      /\ 1..top - 1 \subseteq 1..last - 1
  <2>1. last \in Nat /\ last > 1
    BY <1>1, <1>4 DEF Shaped
  <2> QED
    BY <1>5, <2>1
<1>7. PICK below : below = Front(stack)
  OBVIOUS
<1>8. stack \in Seq(Frame) /\ DOMAIN stack = 1..last
  BY <1>1, <1>4 DEF Shaped, Frame
<1>9. below \in Seq(Frame) /\ Len(below) = top /\ \A i \in 1..top : below[i] = stack[i]
  BY <1>4, <1>5, <1>6, <1>7, <1>8, FrontIs
<1>10. Last(below) = stack[top]
  BY <1>6, <1>9 DEF Last
<1>11. PICK n : n = First(stack[top].left)
  OBVIOUS
<1>12. PICK k : k = stack[last].key
  OBVIOUS
<1>13. stack[top].left # {} /\ KeyOf(n) = k
  BY <1>2, <1>4, <1>6, <1>11, <1>12 DEF Stacked
<1>14. n \in stack[top].left /\ n \in NeedsOf(stack[top].key)
  <2>1. stack[top].left \subseteq Demand /\ Unique(stack[top].left)
    BY <1>1, <1>2, <1>4, <1>6, FrameIs DEF Frame
  <2>2. stack[top].left \subseteq NeedsOf(stack[top].key)
    BY <1>2, <1>4, <1>6 DEF Stacked
  <2> QED
    BY <1>11, <1>13, <2>1, <2>2, FirstIs
<1>15. k \in DOMAIN resolved /\ k # Absent
  <2>1. last > 1
    BY <1>6
  <2> QED
    BY <1>1, <1>2, <1>4, <1>6, <1>12, <2>1, FrameIs
<1>16. stack[last].left = {}
  BY <1>1, <1>4 DEF Top, Last
<1>17. CASE ~Matches(n)
  <2>1. phase' = "refused" /\ UNCHANGED stack
    BY <1>7, <1>10, <1>11, <1>17 DEF Return
  <2>2. touches = 0 => ~Sound
    BY <1>1, <1>2, <1>4, <1>6, <1>13, <1>14, <1>15, <1>17, EverythingMatches
  <2>3. /\ selected' \in [DOMAIN selected' -> Versions] /\ DOMAIN selected' \subseteq Ids
        /\ depths' \in [DOMAIN depths' -> Nat] /\ DOMAIN depths' \subseteq Key /\ DOMAIN depths \subseteq DOMAIN depths'
    BY <1>1, <1>3 DEF Shaped
  <2> QED
    BY <1>3, <2>1, <2>2, <2>3, Refusing
<1>18. CASE Matches(n)
  <2>1. stack' = Drop(below, n) /\ UNCHANGED phase
    BY <1>7, <1>10, <1>11, <1>18 DEF Return
  <2>2. /\ stack' \in Seq(Frame) /\ Len(stack') = top /\ DOMAIN stack' = 1..top
        /\ \A i \in 1..top : stack'[i].key = below[i].key /\ stack'[i].left \subseteq below[i].left
        /\ \A i \in 1..top - 1 : stack'[i] = below[i]
        /\ stack'[top].left = below[top].left \ {n}
    <3>1. top >= 1
      BY <1>6
    <3> QED
      BY <1>9, <2>1, <3>1, DropIs
  <2>3. /\ \A i \in 1..top : stack'[i].key = stack[i].key /\ stack'[i].left \subseteq stack[i].left
        /\ \A i \in 1..top - 1 : stack'[i] = stack[i]
        /\ stack'[top].left = stack[top].left \ {n}
    <3>1. \A i \in 1..top - 1 : i \in 1..top
      BY <1>6
    <3> QED
      BY <1>6, <1>9, <2>2, <3>1
  <2>4. Walked' /\ phase' = "walking"
    BY <1>1, <2>1 DEF Walked
  <2>5. \A i \in 1..top : stack[i].key # k
    BY <1>2, <1>4, <1>6, <1>12 DEF Stacked
  <2>6. UnderVisit' = UnderVisit \ {k} /\ k \in UnderVisit
    BY <1>6, <1>8, <1>12, <2>2, <2>3, <2>5 DEF UnderVisit
  <2>7. Done' = Done \cup {k} /\ k \notin Done
    BY <1>3, <1>15, <2>6 DEF Done
  <2>8. \A i \in 1..top : NeedsOf(stack[i].key)' = NeedsOf(stack[i].key)
    BY <1>3, <2>3 DEF NeedsOf
  <2>9. \A m : Met(m) => Met(m)'
    BY <1>3, <2>7 DEF Met, Matches
  <2>10. \A m \in resolved[k].needs : Met(m)
    BY <1>2, <1>4, <1>6, <1>12, <1>15, <1>16 DEF Kept, NeedsOf
  <2>11. Met(n)'
    BY <1>3, <1>13, <1>18, <2>7 DEF Met, Matches
  <2>12. Shaped'
    <3>1. stack' \in Seq([key : Key \cup {Absent}, left : SUBSET Demand])
      BY <2>2 DEF Frame
    <3>2. entries' \in [DOMAIN entries' -> Places] /\ DOMAIN entries' \subseteq Key
      BY <1>1, <1>3 DEF Shaped
    <3> QED
      BY <1>1, <1>3, <2>4, <3>1, <3>2 DEF Shaped
  <2>13. Stacked'
    <3>1. stack'[1].key = Absent
      <4>1. 1 \in 1..top
        BY <1>6
      <4> QED
        BY <1>2, <2>3, <4>1 DEF Stacked
    <3>2. ASSUME NEW i \in 2..top PROVE stack'[i].key \in DOMAIN resolved'
      <4>1. i \in 1..top /\ i \in 2..last
        BY <1>6
      <4> QED
        BY <1>2, <1>3, <1>4, <2>3, <4>1 DEF Stacked
    <3>3. \A i, j \in 1..top : stack'[i].key = stack'[j].key => i = j
      BY <1>2, <1>4, <1>6, <2>3 DEF Stacked
    <3>4. \A i \in 1..top : stack'[i].left \subseteq NeedsOf(stack[i].key)'
      BY <1>2, <1>4, <1>6, <2>3, <2>8 DEF Stacked
    <3>5. ASSUME NEW i \in 1..top - 1 PROVE stack'[i].left # {} /\ KeyOf(First(stack'[i].left)) = stack'[i + 1].key
      <4>1. i \in 1..last - 1 /\ i + 1 \in 1..top
        BY <1>6
      <4>2. stack[i].left # {} /\ KeyOf(First(stack[i].left)) = stack[i + 1].key
        BY <1>2, <1>4, <4>1 DEF Stacked
      <4> QED
        BY <2>3, <4>1, <4>2
    <3> QED
      BY <1>6, <2>2, <2>4, <3>1, <3>2, <3>3, <3>4, <3>5 DEF Stacked
  <2>14. Kept'
    <3>1. ASSUME NEW i \in 1..top, NEW m \in NeedsOf(stack[i].key)' \ stack'[i].left PROVE Met(m)'
      <4>1. m \in NeedsOf(stack[i].key) /\ i \in 1..last
        BY <1>6, <2>8
      <4>2. CASE m \notin stack[i].left
        BY <1>2, <1>4, <2>9, <4>1, <4>2 DEF Kept
      <4>3. CASE m \in stack[i].left
        <5>1. i # top => i \in 1..top - 1
          BY <1>6
        <5>2. m = n
          BY <2>3, <4>3, <5>1
        <5> QED
          BY <2>11, <5>2
      <4> QED
        BY <4>2, <4>3
    <3>2. ASSUME NEW x \in Done', NEW m \in resolved'[x].needs PROVE Met(m)'
      <4>1. Met(m)
        BY <1>2, <1>3, <2>7, <2>10 DEF Kept
      <4> QED
        BY <2>9, <4>1
    <3> QED
      BY <2>2, <3>1, <3>2 DEF Kept
  <2>15. Ordered'
    <3> SUFFICES ASSUME NEW x \in Done'
                 PROVE  \E S \in SUBSET Done' :
                          /\ x \notin S /\ \A m \in resolved'[x].needs : KeyOf(m) \in S
                          /\ \A l \in S : \A m \in resolved'[l].needs : KeyOf(m) \in S
      BY DEF Ordered
    <3>1. CASE x = k
      <4>1. \A m \in resolved[k].needs : KeyOf(m) \in Done
        BY <2>10 DEF Met
      <4>2. \A l \in Done : \A m \in resolved[l].needs : KeyOf(m) \in Done
        BY <1>2 DEF Kept, Met
      <4> QED
        BY <1>3, <2>7, <3>1, <4>1, <4>2
    <3>2. CASE x \in Done
      <4>1. PICK S \in SUBSET Done :
              /\ x \notin S /\ \A m \in resolved[x].needs : KeyOf(m) \in S
              /\ \A l \in S : \A m \in resolved[l].needs : KeyOf(m) \in S
        BY <1>2, <3>2 DEF Ordered
      <4> QED
        BY <1>3, <2>7, <4>1
    <3> QED
      BY <2>7, <3>1, <3>2
  <2>16. Chosen'
    BY <1>2, <1>3 DEF Chosen
  <2>17. Reached'
    <3>1. Needs' = Needs
      BY <1>3 DEF Needs
    <3>2. \A S : Closed(S, Needs)' = Closed(S, Needs)
      BY <3>1 DEF Closed
    <3>3. \A i \in 2..top : i \in 1..top /\ i \in 2..last
      BY <1>6
    <3> QED
      BY <1>2, <1>3, <1>4, <2>2, <2>3, <3>1, <3>2, <3>3 DEF Reached
  <2>18. Faithful' /\ Deserved'
    BY <1>1, <1>2, <1>3, <2>4, ReadKept DEF Deserved
  <2> QED
    BY <2>12, <2>13, <2>14, <2>15, <2>16, <2>17, <2>18 DEF PInv
<1> QED
  BY <1>17, <1>18

\* What is said of the walk alone.
LEMMA WalkIs == ASSUME UNCHANGED <<roots, stack, selected, resolved>>
                PROVE  Kept' = Kept /\ Ordered' = Ordered /\ Chosen' = Chosen /\ Reached' = Reached
<1>1. Done' = Done /\ Needs' = Needs
  BY DEF Done, UnderVisit, Needs
<1>2. \A i : NeedsOf(stack[i].key)' = NeedsOf(stack[i].key)
  BY DEF NeedsOf
<1>3. \A m : Met(m)' = Met(m)
  BY <1>1 DEF Met, Matches
<1>4. Kept' = Kept
  BY <1>1, <1>2, <1>3 DEF Kept
<1>5. Ordered' = Ordered /\ Chosen' = Chosen
  BY <1>1 DEF Ordered, Chosen
<1>6. Reached' = Reached
  BY <1>1 DEF Reached, Closed
<1> QED
  BY <1>4, <1>5, <1>6

LEMMA StackIs ==
  ASSUME Stacked, UNCHANGED <<roots, stack, resolved>>,
         phase' = "accepted" => Len(stack) = 1 /\ stack[1].left = {}
  PROVE  Stacked'
<1>1. \A i : NeedsOf(stack[i].key)' = NeedsOf(stack[i].key)
  BY DEF NeedsOf
<1>2. /\ Len(stack') >= 1 /\ stack'[1].key = Absent
      /\ \A i \in 2..Len(stack') : stack'[i].key \in DOMAIN resolved'
      /\ \A i, j \in 1..Len(stack') : stack'[i].key = stack'[j].key => i = j
  BY DEF Stacked
<1>3. \A i \in 1..Len(stack') : stack'[i].left \subseteq NeedsOf(stack[i].key)'
  BY <1>1 DEF Stacked
<1>4. \A i \in 1..Len(stack') - 1 : stack'[i].left # {} /\ KeyOf(First(stack'[i].left)) = stack'[i + 1].key
  BY DEF Stacked
<1>5. phase' = "accepted" => Len(stack') = 1 /\ stack'[1].left = {}
  OBVIOUS
<1> QED
  BY <1>2, <1>3, <1>4, <1>5 DEF Stacked

LEMMA AcceptKeeps == ASSUME PInv, Accept PROVE PInv'
<1>1. phase = "walking" /\ Walked /\ Shaped /\ Len(stack) = 1 /\ Top.left = {}
  BY DEF Accept, Walked, PInv
<1>2. Stacked /\ Kept /\ Ordered /\ Chosen /\ Reached /\ Faithful
  BY <1>1 DEF PInv
<1>3. phase' = "accepted" /\ UNCHANGED <<disk, touches, roots, entries, stack, selected, resolved, depths>>
  BY DEF Accept
<1>4. Walked'
  BY <1>3 DEF Walked
<1>5. Shaped'
  BY <1>1, <1>3, <1>4 DEF Shaped
<1>6. Stacked'
  <2>1. stack[1].left = {}
    BY <1>1 DEF Top, Last
  <2> QED
    BY <1>1, <1>2, <1>3, <2>1, StackIs
<1>7. Kept' /\ Ordered' /\ Chosen' /\ Reached'
  BY <1>2, <1>3, WalkIs
<1>8. Faithful' /\ Deserved'
  BY <1>1, <1>2, <1>3, ReadKept DEF Deserved
<1> QED
  BY <1>5, <1>6, <1>7, <1>8 DEF PInv

\* What others do to the packs: the walk has what it read.
LEMMA TouchKeeps ==
  ASSUME PInv, touches' = touches + 1, touches < MaxTouches, UNCHANGED walk,
         disk' \in [Places -> Pack \cup {Absent}],
         \A p \in Places : disk'[p] # Absent => Unique(disk'[p].needs)
  PROVE  PInv'
<1>1. UNCHANGED <<roots, entries, phase, stack, selected, resolved, depths>>
  BY DEF walk
<1>2. Shaped
  BY DEF PInv
<1>3. Walked' = Walked
  BY <1>1 DEF Walked
<1>4. touches \in 0..MaxTouches /\ MaxTouches \in Nat
  BY <1>2, PackAssumption DEF Shaped
<1>5. touches' \in 0..MaxTouches /\ touches' # 0
  BY <1>4
<1>6. Shaped'
  BY <1>1, <1>2, <1>3, <1>5 DEF Shaped
<1>7. Stacked => Stacked'
  <2>1. Stacked /\ phase' = "accepted" => Len(stack) = 1 /\ stack[1].left = {}
    BY <1>1 DEF Stacked
  <2> QED
    BY <1>1, <2>1, StackIs
<1>8. Kept' = Kept /\ Ordered' = Ordered /\ Chosen' = Chosen /\ Reached' = Reached
  BY <1>1, WalkIs
<1>9. Faithful' /\ Deserved'
  BY <1>5 DEF Faithful, Deserved
<1> QED
  BY <1>3, <1>6, <1>7, <1>8, <1>9 DEF PInv

LEMMA EditKeeps == ASSUME PInv, NEW p \in Places, NEW v \in Versions, Edit(p, v) PROVE PInv'
<1>1. /\ touches < MaxTouches /\ disk[p] # Absent /\ touches' = touches + 1 /\ UNCHANGED walk
      /\ disk' = [disk EXCEPT ![p] = [@ EXCEPT !.version = v, !.content = touches + 1]]
  BY DEF Edit
<1>2. Shaped
  BY DEF PInv
<1>3. disk \in [Places -> Pack \cup {Absent}] /\ disk[p] \in Pack /\ Unique(disk[p].needs) /\ touches \in 0..MaxTouches
  BY <1>1, <1>2 DEF Shaped
<1>4. PICK touched : touched = [disk[p] EXCEPT !.version = v, !.content = touches + 1]
  OBVIOUS
<1>5. touched \in Pack /\ touched.needs = disk[p].needs
  <2>1. touches + 1 \in Nat
    BY <1>3, PackAssumption
  <2> QED
    BY <1>3, <1>4, <2>1 DEF Pack
<1>6. disk' = [disk EXCEPT ![p] = touched]
  BY <1>1, <1>4
<1>7. /\ disk' \in [Places -> Pack \cup {Absent}]
      /\ \A q \in Places : disk'[q] # Absent => Unique(disk'[q].needs)
  BY <1>2, <1>3, <1>5, <1>6 DEF Shaped
<1> QED
  BY <1>1, <1>7, TouchKeeps

LEMMA LockKeeps == ASSUME PInv, NEW p \in Places, LockPack(p) PROVE PInv'
<1>1. /\ touches < MaxTouches /\ disk[p] # Absent /\ touches' = touches + 1 /\ UNCHANGED walk
      /\ disk' = [disk EXCEPT ![p].lock = disk[p].content]
  BY DEF LockPack
<1>2. Shaped
  BY DEF PInv
<1>3. disk \in [Places -> Pack \cup {Absent}] /\ disk[p] \in Pack /\ Unique(disk[p].needs)
  BY <1>1, <1>2 DEF Shaped
<1>4. PICK locked : locked = [disk[p] EXCEPT !.lock = disk[p].content]
  OBVIOUS
<1>5. locked \in Pack /\ locked.needs = disk[p].needs
  BY <1>3, <1>4 DEF Pack
<1>6. disk' = [disk EXCEPT ![p] = locked]
  BY <1>1, <1>4
<1>7. /\ disk' \in [Places -> Pack \cup {Absent}]
      /\ \A q \in Places : disk'[q] # Absent => Unique(disk'[q].needs)
  BY <1>2, <1>3, <1>5, <1>6 DEF Shaped
<1> QED
  BY <1>1, <1>7, TouchKeeps

LEMMA SameKeeps == ASSUME PInv, UNCHANGED pvars PROVE PInv'
<1>1. UNCHANGED <<disk, touches, roots, entries, phase, stack, selected, resolved, depths>>
  BY DEF pvars, walk
<1>2. Shaped /\ Faithful /\ Deserved /\ (Walked => Stacked /\ Kept /\ Ordered /\ Chosen /\ Reached)
  BY DEF PInv
<1>3. Walked' = Walked
  BY <1>1 DEF Walked
<1>4. Shaped'
  BY <1>1, <1>2, <1>3 DEF Shaped
<1>5. Stacked => Stacked'
  <2>1. Stacked /\ phase' = "accepted" => Len(stack) = 1 /\ stack[1].left = {}
    BY <1>1 DEF Stacked
  <2> QED
    BY <1>1, <2>1, StackIs
<1>6. Kept' = Kept /\ Ordered' = Ordered /\ Chosen' = Chosen /\ Reached' = Reached
  BY <1>1, WalkIs
<1>7. Faithful'
  BY <1>1, <1>2, <1>3, ReadKept DEF Faithful
<1>8. Deserved'
  BY <1>1, <1>2, DiskIs DEF Deserved
<1> QED
  BY <1>2, <1>3, <1>4, <1>5, <1>6, <1>7, <1>8 DEF PInv

LEMMA PackStepInv == PInv /\ [PNext]_pvars => PInv'
<1> SUFFICES ASSUME PInv, [PNext]_pvars PROVE PInv'
  OBVIOUS
<1>1. CASE Ended \/ UNCHANGED pvars
  BY <1>1, SameKeeps DEF Ended
<1> QED
  BY <1>1, ScanKeeps, ContradictKeeps, VisitAgainKeeps, VisitKeeps, ReturnKeeps, AcceptKeeps, EditKeeps, LockKeeps DEF PNext

\* When the walk is accepted, everything it read is done.
LEMMA AcceptedIs ==
  ASSUME PInv, phase = "accepted", NEW all, all = DOMAIN resolved
  PROVE  /\ all \subseteq Key /\ roots \subseteq all
         /\ \A k \in all : \A n \in resolved[k].needs :
              KeyOf(n) \in all /\ n \in Dependency /\ resolved[KeyOf(n)].content = n.content
         /\ \A k \in all, l \in all : k[1] = l[1] => k = l
         /\ \A k \in all : \E S \in SUBSET all :
              /\ k \notin S /\ \A n \in resolved[k].needs : KeyOf(n) \in S
              /\ \A l \in S : \A n \in resolved[l].needs : KeyOf(n) \in S
         /\ \A S \in SUBSET Key : roots \subseteq S /\ Closed(S, Needs) => all \subseteq S
<1>1. Shaped /\ Stacked /\ Kept /\ Ordered /\ Chosen /\ Reached
  BY DEF PInv, Walked
<1>2. Len(stack) = 1 /\ stack[1].left = {} /\ stack[1].key = Absent /\ DOMAIN stack = {1} /\ 1 \in 1..Len(stack)
  BY <1>1 DEF Stacked, Shaped
<1>3. all \subseteq Key /\ Absent \notin Key /\ Absent \notin Nat /\ roots \subseteq Key
  BY <1>1, PackAssumption DEF Shaped
<1>4. Done = all
  BY <1>2, <1>3 DEF Done, UnderVisit
<1>5. ASSUME NEW r \in roots PROVE r \in all
  <2>1. Wanted(r) \in NeedsOf(stack[1].key) \ stack[1].left
    BY <1>2 DEF NeedsOf
  <2>2. Met(Wanted(r))
    BY <1>1, <1>2, <2>1 DEF Kept
  <2>3. KeyOf(Wanted(r)) = r
    BY <1>3 DEF KeyOf, Wanted, Key
  <2> QED
    BY <1>4, <2>2, <2>3 DEF Met
<1>6. ASSUME NEW k \in all, NEW n \in resolved[k].needs
      PROVE  KeyOf(n) \in all /\ n \in Dependency /\ resolved[KeyOf(n)].content = n.content
  <2>1. Met(n)
    BY <1>1, <1>4 DEF Kept
  <2>2. n \in Dependency
    BY <1>1 DEF Shaped, Record
  <2>3. n.content # Absent
    BY <1>3, <2>2 DEF Dependency
  <2> QED
    BY <1>4, <2>1, <2>2, <2>3 DEF Met, Matches
<1>7. ASSUME NEW k \in all, NEW l \in all, k[1] = l[1] PROVE k = l
  <2>1. k[2] = l[2]
    BY <1>1, <1>7 DEF Chosen
  <2> QED
    BY <1>3, <1>7, <2>1 DEF Key
<1>8. \A k \in all : \E S \in SUBSET all :
        /\ k \notin S /\ \A n \in resolved[k].needs : KeyOf(n) \in S
        /\ \A l \in S : \A n \in resolved[l].needs : KeyOf(n) \in S
  BY <1>1, <1>4 DEF Ordered
<1>9. \A S \in SUBSET Key : roots \subseteq S /\ Closed(S, Needs) => all \subseteq S
  BY <1>1 DEF Reached
<1> QED
  BY <1>3, <1>5, <1>6, <1>7, <1>8, <1>9

LEMMA ClosureIs == ASSUME PInv PROVE ClosureIsExact
<1> SUFFICES ASSUME phase = "accepted"
             PROVE  DOMAIN resolved = Reach(roots, Needs) /\ Consistent(DOMAIN resolved, Needs, Contents)
  BY DEF ClosureIsExact
<1>1. PICK all : all = DOMAIN resolved
  OBVIOUS
<1>2. /\ all \subseteq Key /\ roots \subseteq all
      /\ \A k \in all : \A n \in resolved[k].needs :
           KeyOf(n) \in all /\ n \in Dependency /\ resolved[KeyOf(n)].content = n.content
      /\ \A k \in all, l \in all : k[1] = l[1] => k = l
      /\ \A k \in all : \E S \in SUBSET all :
           /\ k \notin S /\ \A n \in resolved[k].needs : KeyOf(n) \in S
           /\ \A l \in S : \A n \in resolved[l].needs : KeyOf(n) \in S
      /\ \A S \in SUBSET Key : roots \subseteq S /\ Closed(S, Needs) => all \subseteq S
  BY <1>1, AcceptedIs
<1>3. DOMAIN Needs = all /\ \A k \in all : Needs[k] = resolved[k].needs
  BY <1>1 DEF Needs
<1>4. DOMAIN Contents = all /\ \A k \in all : Contents[k] = resolved[k].content
  BY <1>1 DEF Contents
<1>5. PICK reach : reach = Reach(roots, Needs)
  OBVIOUS
<1>6. reach \subseteq all
  <2>1. Closed(all, Needs)
    BY <1>2, <1>3 DEF Closed
  <2> QED
    BY <1>2, <1>5, <2>1, ReachIsLeast
<1>7. all \subseteq reach
  <2>1. roots \subseteq reach /\ Closed(reach, Needs)
    BY <1>5, ReachHas, ReachIsClosed
  <2>2. reach \in SUBSET Key
    BY <1>2, <1>6
  <2> QED
    BY <1>2, <2>1, <2>2
<1>8. ASSUME NEW k \in all PROVE k \notin Reach({KeyOf(n) : n \in Needs[k]}, Needs)
  <2>1. PICK S \in SUBSET all :
          /\ k \notin S /\ \A n \in resolved[k].needs : KeyOf(n) \in S
          /\ \A l \in S : \A n \in resolved[l].needs : KeyOf(n) \in S
    BY <1>2
  <2>2. PICK start : start = {KeyOf(n) : n \in Needs[k]}
    OBVIOUS
  <2>3. start \subseteq S /\ Closed(S, Needs)
    BY <1>3, <2>1, <2>2 DEF Closed
  <2>4. Reach(start, Needs) \subseteq S
    BY <2>3, ReachIsLeast
  <2> QED
    BY <2>1, <2>2, <2>4
<1>9. \A k \in all : \A n \in Needs[k] : KeyOf(n) \in all /\ Contents[KeyOf(n)] = n.content
  BY <1>2, <1>3, <1>4
<1>10. Consistent(all, Needs, Contents)
  BY <1>2, <1>3, <1>8, <1>9 DEF Consistent
<1> QED
  BY <1>1, <1>5, <1>6, <1>7, <1>10

LEMMA VerdictIs == ASSUME PInv PROVE VerdictIsExact
<1> SUFFICES ASSUME touches = 0, phase = "accepted" PROVE Sound
  BY DEF VerdictIsExact, PInv, Deserved
<1>1. PICK all : all = DOMAIN resolved
  OBVIOUS
<1>2. /\ all \subseteq Key /\ roots \subseteq all
      /\ \A k \in all : \A n \in resolved[k].needs :
           KeyOf(n) \in all /\ n \in Dependency /\ resolved[KeyOf(n)].content = n.content
      /\ \A k \in all, l \in all : k[1] = l[1] => k = l
      /\ \A k \in all : \E S \in SUBSET all :
           /\ k \notin S /\ \A n \in resolved[k].needs : KeyOf(n) \in S
           /\ \A l \in S : \A n \in resolved[l].needs : KeyOf(n) \in S
      /\ \A S \in SUBSET Key : roots \subseteq S /\ Closed(S, Needs) => all \subseteq S
  BY <1>1, AcceptedIs
<1>3. /\ Scannable
      /\ \A k \in all : /\ k \in DOMAIN Entries /\ resolved[k].needs = DiskNeeds[k]
                        /\ resolved[k].content = DiskContents[k] /\ disk[Entries[k]].lock = DiskContents[k]
  BY <1>1 DEF PInv, Faithful, Walked
<1>4. DOMAIN DiskNeeds = DOMAIN Entries
  BY DEF DiskNeeds
<1>5. PICK keys : keys = Reach(roots, DiskNeeds)
  OBVIOUS
<1>6. keys \subseteq all
  <2>1. Closed(all, DiskNeeds)
    BY <1>2, <1>3 DEF Closed
  <2> QED
    BY <1>2, <1>5, <2>1, ReachIsLeast
<1>7. ASSUME NEW k \in keys PROVE k \notin Reach({KeyOf(n) : n \in DiskNeeds[k]}, DiskNeeds)
  <2>1. PICK S \in SUBSET all :
          /\ k \notin S /\ \A n \in resolved[k].needs : KeyOf(n) \in S
          /\ \A l \in S : \A n \in resolved[l].needs : KeyOf(n) \in S
    BY <1>2, <1>6
  <2>2. PICK start : start = {KeyOf(n) : n \in DiskNeeds[k]}
    OBVIOUS
  <2>3. start \subseteq S /\ Closed(S, DiskNeeds)
    BY <1>3, <1>6, <2>1, <2>2 DEF Closed
  <2>4. Reach(start, DiskNeeds) \subseteq S
    BY <2>3, ReachIsLeast
  <2> QED
    BY <2>1, <2>2, <2>4
<1>8. ASSUME NEW k \in keys, NEW n \in DiskNeeds[k] PROVE KeyOf(n) \in keys /\ DiskContents[KeyOf(n)] = n.content
  <2>1. k \in DOMAIN DiskNeeds
    BY <1>3, <1>4, <1>6
  <2>2. KeyOf(n) \in keys
    BY <1>5, <2>1, ReachIsClosed DEF Closed
  <2> QED
    BY <1>2, <1>3, <1>6, <2>2
<1>9. Consistent(keys, DiskNeeds, DiskContents)
  BY <1>2, <1>3, <1>4, <1>6, <1>7, <1>8 DEF Consistent
<1> QED
  BY <1>3, <1>5, <1>6, <1>9 DEF Sound

LEMMA PackTypeIs == ASSUME PInv PROVE PTypeOK
<1>1. Shaped
  BY DEF PInv
<1>2. ASSUME NEW i \in DOMAIN stack PROVE stack[i].key \in Key \cup {Absent}
  <2>1. stack \in Seq(Frame) /\ i \in 1..Len(stack)
    BY <1>1 DEF Shaped, Frame
  <2>2. stack[i] \in Frame
    BY <2>1, ElementOfSeq
  <2> QED
    BY <2>2 DEF Frame
<1>3. /\ DOMAIN selected \subseteq Ids /\ Range(selected) \subseteq Versions
      /\ DOMAIN resolved \subseteq DOMAIN depths /\ DOMAIN depths \subseteq Key /\ Range(depths) \subseteq Nat
  BY <1>1 DEF Shaped, Range
<1>4. entries = Absent \/ (DOMAIN entries \subseteq Key /\ Range(entries) \subseteq Places)
  BY <1>1 DEF Shaped, Range
<1>5. /\ disk \in [Places -> Pack \cup {Absent}] /\ touches \in 0..MaxTouches /\ roots \in Projects
      /\ phase \in {"idle", "walking", "accepted", "refused"}
  BY <1>1 DEF Shaped
<1> QED
  BY <1>2, <1>3, <1>4, <1>5 DEF PTypeOK

\* A lock that is accepted is the closure of what the project asks for, also while
\* packs are edited, and while they are not it is accepted exactly when there is one
\* (domain_packs/resolver.py:27-56, domain_packs/registry.py:54-102).
THEOREM AcceptedPacksAreClosed == PSpec => []AcceptedIsClosed
<1>1. PInv => AcceptedIsClosed
  BY PackTypeIs, ClosureIs, VerdictIs DEF AcceptedIsClosed
<1> QED
  BY <1>1, PackInitInv, PackStepInv, PTL DEF PSpec

(***************************************************************************)
(* What an upload leaves in place.                                         *)
(***************************************************************************)

\* A request has said what it brings; who put a blob in place has been inside.
Started ==
  /\ \A r \in Requests : stage[r] # "new" => asked[r] \in Offer
  /\ \A r \in created : stage[r] \notin {"new", "receiving", "locked"}
  /\ \A r \in partials : stage[r] \notin {"new", "done"}
  /\ holder \in Requests \cup {Nobody}

\* The blob of u was put in place by a request that is not yet accepted.
Pending(u) == \E r \in created : stage[r] \in {"placed", "described"} /\ Upload(r) = u
HasJob(u) == \E j \in jobs : j.upload = u

\* What is in place while nothing but refusals went wrong.
Accounted ==
  /\ \A j \in jobs : j.state # "FAILED" /\ InPlace(j.upload)
  /\ \A r \in created : stage[r] \in {"placed", "described"} => ~HasJob(Upload(r))
  /\ \A u \in blobs : HasJob(u) \/ Pending(u)
  /\ records \subseteq blobs
  /\ \A u \in blobs \ records : \E r \in created : stage[r] = "placed" /\ Upload(r) = u
  /\ \A r \in Requests : stage[r] \in {"placed", "described"} => Upload(r) \in blobs
  /\ \A r \in Requests : stage[r] = "described" => Upload(r) \in records
  /\ \A r \in Requests : stage[r] # "dead"

\* The inductive invariant of the uploads.
UInv == UTypeOK /\ Started /\ (Undisturbed => Accounted)

LEMMA UploadInit == UInit => UInv
BY UploadAssumption DEF UInit, UInv, UTypeOK, Started, Accounted, Stages, Inside, Jobs, Undisturbed

\* A request moves; the others stay where they are.
LEMMA StageMoves ==
  ASSUME UTypeOK, NEW r \in Requests, NEW here, NEW there \in Stages, Moves(r, here, there)
  PROVE  stage[r] = here /\ stage'[r] = there /\ stage' \in [Requests -> Stages]
         /\ \A q \in Requests : q # r => stage'[q] = stage[q]
BY DEF UTypeOK, Moves

LEMMA ReceiveKeeps ==
  ASSUME UInv, NEW r \in Requests, NEW u \in Blobs, NEW k \in Keys, Receive(r, u, k)
  PROVE  UInv'
<1> USE DEF UInv, Receive
<1>1. /\ stage[r] = "new" /\ stage'[r] = "receiving" /\ stage' \in [Requests -> Stages]
      /\ \A q \in Requests : q # r => stage'[q] = stage[q]
  BY DEF UTypeOK, Moves, Stages
<1>2. asked' \in [Requests -> Offer \cup {Nobody}] /\ asked'[r] \in Offer /\ \A q \in Requests : q # r => asked'[q] = asked[q]
  BY DEF UTypeOK, Offer
<1>3. UTypeOK'
  BY <1>1, <1>2 DEF UTypeOK, Inside
<1>4. Started'
  BY <1>1, <1>2 DEF Started, UTypeOK
<1>5. \A q \in created : q # r /\ q \in Requests
  BY <1>1 DEF Started, UTypeOK
<1>6. ASSUME Undisturbed' PROVE Accounted'
  <2>1. Accounted
    BY <1>6 DEF Undisturbed
  <2>2. \A v : HasJob(v)' <=> HasJob(v)
    BY DEF HasJob
  <2>3. \A q \in created : Upload(q)' = Upload(q) /\ stage'[q] = stage[q]
    BY <1>1, <1>2, <1>5 DEF Upload
  <2>4. \A v : Pending(v) => Pending(v)'
    BY <2>3 DEF Pending
  <2>5. \A j : InPlace(j)' <=> InPlace(j)
    BY DEF InPlace
  <2> QED
    BY <1>1, <1>2, <1>5, <2>1, <2>2, <2>3, <2>4, <2>5 DEF Accounted, Upload
<1> QED
  BY <1>3, <1>4, <1>6

\* Enter and Abandon: nothing but the place of a request that put nothing there.
LEMMA EntersKeeps ==
  ASSUME UInv, NEW r \in Requests, Enter(r) \/ Abandon(r)
  PROVE  UInv'
<1> USE DEF UInv
<1>1. /\ stage[r] = "receiving" /\ stage'[r] \in {"locked", "done"} /\ stage' \in [Requests -> Stages]
      /\ \A q \in Requests : q # r => stage'[q] = stage[q]
  BY DEF UTypeOK, Moves, Stages, Enter, Abandon
<1>2. UNCHANGED <<asked, created, blobs, records, jobs, mishaps>>
  BY DEF Enter, Abandon
<1>3. UTypeOK'
  BY <1>1, UploadAssumption DEF UTypeOK, Inside, Enter, Abandon, Moves
<1>5. \A q \in created : q # r /\ q \in Requests
  BY <1>1 DEF Started, UTypeOK
<1>4. Started'
  BY <1>1, <1>5 DEF Started, UTypeOK, Enter, Abandon, Moves
<1>6. ASSUME Undisturbed' PROVE Accounted'
  <2>1. Accounted
    BY <1>2, <1>6 DEF Undisturbed
  <2>2. \A v : HasJob(v)' <=> HasJob(v)
    BY <1>2 DEF HasJob
  <2>3. \A q \in created : stage'[q] = stage[q]
    BY <1>1, <1>5
  <2>4. \A v : Pending(v) => Pending(v)'
    BY <1>2, <2>3 DEF Pending, Upload
  <2> QED
    BY <1>1, <1>2, <1>5, <2>1, <2>2, <2>3, <2>4 DEF Accounted, Upload, InPlace
<1> QED
  BY <1>3, <1>4, <1>6

LEMMA PlaceKeeps ==
  ASSUME UInv, NEW r \in Requests, Place(r)
  PROVE  UInv'
<1> USE DEF UInv
<1>1. /\ stage[r] = "locked" /\ stage'[r] = "placed" /\ stage' \in [Requests -> Stages] /\ holder = r
      /\ \A q \in Requests : q # r => stage'[q] = stage[q]
  BY DEF UTypeOK, Moves, Stages, Place, Inside
<1>2. UNCHANGED <<asked, records, holder, jobs, live, mishaps>>
  BY DEF Place
<1>3. PICK u : u = Upload(r)
  OBVIOUS
<1>4. u \in Blobs /\ asked[r] \in Offer
  BY <1>1, <1>3 DEF Started, Offer, Upload
<1>5. \/ u \notin blobs /\ blobs' = blobs \cup {u} /\ partials' = partials \ {r} /\ created' = created \cup {r}
      \/ u \in blobs /\ UNCHANGED <<blobs, partials, created>>
  BY <1>3 DEF Place, Missing
<1>6. UTypeOK'
  BY <1>1, <1>2, <1>4, <1>5 DEF UTypeOK, Inside
<1>7. Started'
  BY <1>1, <1>2, <1>5 DEF Started, UTypeOK
<1>8. \A q \in created : q # r /\ q \in Requests
  BY <1>1 DEF Started, UTypeOK
<1>9. ASSUME Undisturbed' PROVE Accounted'
  <2>1. Accounted
    BY <1>2, <1>9 DEF Undisturbed
  <2>2. \A v : HasJob(v)' <=> HasJob(v)
    BY <1>2 DEF HasJob
  <2>3. \A q : Upload(q)' = Upload(q)
    BY <1>2 DEF Upload
  <2>4. \A v : Pending(v) => Pending(v)'
    BY <1>1, <1>5, <1>8, <2>3 DEF Pending
  <2>5. \A q \in Requests : stage[q] \in {"placed", "described"} => q = r
    BY <1>1 DEF UTypeOK, Inside
  <2>6. CASE u \in blobs
    BY <1>1, <1>2, <1>3, <1>5, <1>8, <2>1, <2>2, <2>3, <2>4, <2>5, <2>6 DEF Accounted, InPlace
  <2>7. CASE u \notin blobs
    <3>1. blobs' = blobs \cup {u} /\ created' = created \cup {r}
      BY <1>5, <2>7
    <3>2. ~HasJob(u)
      BY <2>1, <2>7 DEF Accounted, HasJob, InPlace
    <3>3. Pending(u)'
      BY <1>1, <1>3, <2>3, <3>1 DEF Pending
    <3>4. \A j \in jobs' : j.state # "FAILED" /\ InPlace(j.upload)'
      BY <1>2, <2>1, <3>1 DEF Accounted, InPlace
    <3>5. \A q \in created' : stage'[q] \in {"placed", "described"} => ~HasJob(Upload(q))'
      BY <1>1, <1>3, <1>8, <2>1, <2>2, <2>3, <3>1, <3>2 DEF Accounted
    <3>6. \A v \in blobs' : HasJob(v)' \/ Pending(v)'
      BY <2>1, <2>2, <2>4, <3>1, <3>3 DEF Accounted
    <3>7. \A v \in blobs' \ records' : \E q \in created' : stage'[q] = "placed" /\ Upload(q)' = v
      BY <1>1, <1>2, <1>3, <1>8, <2>1, <2>3, <3>1 DEF Accounted
    <3>8. \A q \in Requests : /\ stage'[q] \in {"placed", "described"} => Upload(q)' \in blobs'
                              /\ stage'[q] = "described" => Upload(q)' \in records'
                              /\ stage'[q] # "dead"
      BY <1>1, <1>2, <1>3, <2>1, <2>3, <3>1 DEF Accounted
    <3> QED
      BY <1>2, <2>1, <3>1, <3>4, <3>5, <3>6, <3>7, <3>8 DEF Accounted
  <2> QED
    BY <2>6, <2>7
<1> QED
  BY <1>6, <1>7, <1>9

LEMMA DescribeKeeps ==
  ASSUME UInv, NEW r \in Requests, Describe(r)
  PROVE  UInv'
<1> USE DEF UInv
<1>1. /\ stage[r] = "placed" /\ stage'[r] = "described" /\ stage' \in [Requests -> Stages] /\ holder = r
      /\ \A q \in Requests : q # r => stage'[q] = stage[q]
  BY DEF UTypeOK, Moves, Stages, Describe, Inside
<1>2. UNCHANGED <<asked, partials, created, blobs, holder, jobs, live, mishaps>>
  BY DEF Describe
<1>3. PICK u : u = Upload(r)
  OBVIOUS
<1>4. u \in Blobs
  BY <1>1, <1>3 DEF Started, Offer, Upload
<1>5. \/ r \in created /\ records' = records \cup {u}
      \/ r \notin created /\ records' = records
  BY <1>3 DEF Describe
<1>6. UTypeOK'
  BY <1>1, <1>2, <1>4, <1>5 DEF UTypeOK, Inside
<1>7. Started'
  BY <1>1, <1>2 DEF Started, UTypeOK
<1>9. ASSUME Undisturbed' PROVE Accounted'
  <2>1. Accounted
    BY <1>2, <1>9 DEF Undisturbed
  <2>2. \A v : HasJob(v)' <=> HasJob(v)
    BY <1>2 DEF HasJob
  <2>3. \A q : Upload(q)' = Upload(q)
    BY <1>2 DEF Upload
  <2>4. created \subseteq Requests
    BY DEF UTypeOK
  <2>5. \A q \in Requests : stage[q] \in {"placed", "described"} => q = r
    BY <1>1 DEF UTypeOK, Inside
  <2>6. \A v : Pending(v) => Pending(v)'
    BY <1>1, <1>2, <2>3, <2>4 DEF Pending
  <2>7. u \in blobs /\ u \in records'
    <3>1. u \in blobs
      BY <1>1, <1>3, <2>1 DEF Accounted
    <3>2. CASE r \notin created
      BY <1>5, <2>1, <2>4, <2>5, <3>1, <3>2 DEF Accounted
    <3> QED
      BY <1>5, <3>1, <3>2
  <2>8. \A v \in blobs \ records : v = u
    BY <1>3, <2>1, <2>4, <2>5 DEF Accounted
  <2>9. records \subseteq records' /\ records' \subseteq blobs' /\ blobs' \ records' = {}
    BY <1>2, <1>5, <2>1, <2>7, <2>8 DEF Accounted
  <2>10. \A j \in jobs' : j.state # "FAILED" /\ InPlace(j.upload)'
    BY <1>2, <2>1, <2>9 DEF Accounted, InPlace
  <2>11. \A q \in created' : stage'[q] \in {"placed", "described"} => ~HasJob(Upload(q))'
    BY <1>1, <1>2, <2>1, <2>2, <2>3, <2>4 DEF Accounted
  <2>12. \A v \in blobs' : HasJob(v)' \/ Pending(v)'
    BY <1>2, <2>1, <2>2, <2>6 DEF Accounted
  <2>13. \A q \in Requests : /\ stage'[q] \in {"placed", "described"} => Upload(q)' \in blobs'
                             /\ stage'[q] = "described" => Upload(q)' \in records'
                             /\ stage'[q] # "dead"
    BY <1>1, <1>2, <1>3, <2>1, <2>3, <2>7, <2>9 DEF Accounted
  <2> QED
    BY <2>9, <2>10, <2>11, <2>12, <2>13 DEF Accounted
<1> QED
  BY <1>6, <1>7, <1>9

LEMMA AcceptUploadKeeps ==
  ASSUME UInv, NEW r \in Requests, AcceptUpload(r)
  PROVE  UInv'
<1> USE DEF UInv
<1>1. /\ stage[r] = "described" /\ stage'[r] = "accepted" /\ stage' \in [Requests -> Stages] /\ holder = r
      /\ \A q \in Requests : q # r => stage'[q] = stage[q]
  BY DEF UTypeOK, Stages, AcceptUpload, Inside
<1>2. UNCHANGED <<asked, partials, created, blobs, records, holder, live, mishaps>>
  BY DEF AcceptUpload
<1>3. PICK u, k : u = Upload(r) /\ k = asked[r].key
  OBVIOUS
<1>4. u \in Blobs /\ k \in Keys
  BY <1>1, <1>3 DEF Started, Offer, Upload
<1>5. PICK n : n = [key |-> k, upload |-> u, state |-> "QUEUED"]
  OBVIOUS
<1>6. n \in Jobs /\ n.upload = u /\ n.key = k /\ n.state = "QUEUED"
  BY <1>4, <1>5 DEF Jobs
<1>7. \/ jobs' = jobs /\ HasJob(u)
      \/ jobs' = jobs \cup {n} /\ \A j \in jobs : j.key # k
  <2>1. CASE Keyed(r) = {}
    <3>1. jobs' = jobs \cup {n}
      BY <1>3, <1>5, <2>1 DEF AcceptUpload
    <3> QED
      BY <1>3, <2>1, <3>1 DEF Keyed
  <2>2. CASE Keyed(r) # {}
    BY <1>3, <2>2 DEF AcceptUpload, Keyed, HasJob
  <2> QED
    BY <2>1, <2>2
<1>8. UTypeOK'
  BY <1>1, <1>2, <1>6, <1>7 DEF UTypeOK, Inside
<1>9. Started'
  BY <1>1, <1>2 DEF Started, UTypeOK
<1>10. ASSUME Undisturbed' PROVE Accounted'
  <2>1. Accounted
    BY <1>2, <1>10 DEF Undisturbed
  <2>2. \A v : HasJob(v)' <=> (HasJob(v) \/ v = u)
    BY <1>6, <1>7 DEF HasJob
  <2>3. \A q : Upload(q)' = Upload(q)
    BY <1>2 DEF Upload
  <2>4. created \subseteq Requests
    BY DEF UTypeOK
  <2>5. \A q \in Requests : stage[q] \in {"placed", "described"} => q = r
    BY <1>1 DEF UTypeOK, Inside
  <2>6. u \in blobs /\ u \in records
    BY <1>1, <1>3, <2>1 DEF Accounted
  <2>7. \A j \in jobs' : j.state # "FAILED" /\ InPlace(j.upload)'
    BY <1>2, <1>6, <1>7, <2>1, <2>6 DEF Accounted, InPlace
  <2>8. \A q \in created' : stage'[q] \notin {"placed", "described"}
    BY <1>1, <1>2, <2>4, <2>5
  <2>9. \A v : Pending(v) => HasJob(v)'
    BY <1>3, <2>2, <2>4, <2>5 DEF Pending
  <2>10. \A v \in blobs' : HasJob(v)'
    BY <1>2, <2>1, <2>2, <2>9 DEF Accounted
  <2>11. blobs' \ records' = {}
    BY <1>1, <1>2, <2>1, <2>4, <2>5 DEF Accounted
  <2>12. \A q \in Requests : stage'[q] \notin {"placed", "described", "dead"}
    BY <1>1, <2>1, <2>5 DEF Accounted
  <2>13. records' \subseteq blobs'
    BY <1>2, <2>1 DEF Accounted
  <2> QED
    BY <2>7, <2>8, <2>10, <2>11, <2>12, <2>13 DEF Accounted
<1> QED
  BY <1>8, <1>9, <1>10

\* A request ends that is inside: what it put in place and no job names is removed, or all stays.
LEMMA EndKeeps ==
  ASSUME UInv, NEW r \in Requests,
         \/ Answer(r) /\ UNCHANGED <<blobs, records>>
         \/ RefuseUpload(r) /\ mishaps' = mishaps
         \/ RaiseLate(r) \/ WriteFails(r)
  PROVE  UInv'
<1> USE DEF UInv
<1>1. /\ stage[r] \in {"placed", "described", "accepted"} /\ stage' = [stage EXCEPT ![r] = "done"]
      /\ partials' = partials \ {r} /\ holder' = Nobody
      /\ UNCHANGED <<asked, created, jobs>>
  BY DEF Answer, RefuseUpload, RaiseLate, WriteFails, Leave
<1>2. /\ stage' \in [Requests -> Stages] /\ stage'[r] = "done" /\ holder = r
      /\ \A q \in Requests : q # r => stage'[q] = stage[q]
  BY <1>1 DEF UTypeOK, Stages, Inside
<1>3. blobs' \subseteq blobs /\ records' \subseteq records
  BY DEF Answer, RefuseUpload, RaiseLate, WriteFails, DiscardUpload
<1>4. mishaps' \in [deaths : 0..MaxCrashes, errors : 0..MaxErrors]
  <2>1. CASE mishaps' = mishaps
    BY <2>1 DEF UTypeOK
  <2>2. CASE mishaps.errors < MaxErrors /\ mishaps' = [mishaps EXCEPT !.errors = @ + 1]
    BY <2>2, UploadAssumption DEF UTypeOK
  <2> QED
    BY <2>1, <2>2 DEF Answer, RefuseUpload, RaiseLate, WriteFails
<1>5. \A q \in Requests : q # r => stage[q] \notin Inside
  BY <1>2 DEF UTypeOK
<1>6. UTypeOK'
  BY <1>1, <1>2, <1>3, <1>4, <1>5, UploadAssumption DEF UTypeOK, Inside
<1>7. Started'
  BY <1>1, <1>2 DEF Started, UTypeOK
<1>8. ASSUME Undisturbed' PROVE Accounted'
  <2>1. (Answer(r) /\ UNCHANGED <<blobs, records>>) \/ (RefuseUpload(r) /\ mishaps' = mishaps)
    <3>1. ASSUME mishaps' = [mishaps EXCEPT !.errors = @ + 1] PROVE FALSE
      BY <1>8, <3>1 DEF Undisturbed, UTypeOK
    <3> QED
      BY <3>1 DEF RaiseLate, WriteFails
  <2>2. Accounted
    BY <1>8, <2>1 DEF Undisturbed, Answer
  <2>3. PICK u : u = Upload(r)
    OBVIOUS
  <2>4. created \subseteq Requests
    BY DEF UTypeOK
  <2>5. \A q \in Requests : stage'[q] \notin {"placed", "described", "dead"}
    BY <1>2, <1>5, <2>2 DEF Inside, Accounted
  <2>6. \A v : HasJob(v)' <=> HasJob(v)
    BY <1>1 DEF HasJob
  <2>7. /\ \A v \in blobs' : HasJob(v)
        /\ \A v \in blobs : HasJob(v) => v \in blobs'
        /\ blobs' = records'
    <3>1. \A q \in created : stage[q] \in {"placed", "described"} => q = r
      BY <1>5, <2>4 DEF Inside
    <3>2. CASE Answer(r) /\ UNCHANGED <<blobs, records>>
      <4>1. stage[r] = "accepted"
        BY <3>2 DEF Answer
      <4> QED
        BY <2>2, <3>1, <3>2, <4>1 DEF Accounted, Pending
    <3>3. CASE RefuseUpload(r)
      <4>1. stage[r] = "described"
        BY <3>3 DEF RefuseUpload
      <4>2. blobs = records
        BY <2>2, <3>1, <4>1 DEF Accounted
      <4>3. CASE r \in created
        <5>1. blobs' = blobs \ {u} /\ records' = records \ {u}
          BY <2>3, <3>3, <4>3 DEF RefuseUpload, DiscardUpload
        <5>2. ~HasJob(u)
          BY <2>2, <2>3, <4>1, <4>3 DEF Accounted
        <5> QED
          BY <2>2, <2>3, <3>1, <4>2, <5>1, <5>2 DEF Accounted, Pending
      <4>4. CASE r \notin created
        <5>1. blobs' = blobs /\ records' = records
          BY <3>3, <4>4 DEF RefuseUpload, DiscardUpload
        <5> QED
          BY <2>2, <3>1, <4>2, <4>4, <5>1 DEF Accounted, Pending
      <4> QED
        BY <4>3, <4>4
    <3> QED
      BY <2>1, <3>2, <3>3
  <2>8. \A j \in jobs' : j.state # "FAILED" /\ InPlace(j.upload)'
    BY <1>1, <2>2, <2>7 DEF Accounted, InPlace, HasJob
  <2> QED
    BY <1>1, <2>4, <2>5, <2>6, <2>7, <2>8 DEF Accounted
<1> QED
  BY <1>6, <1>7, <1>8

LEMMA DeathKeeps ==
  ASSUME UInv, NEW r \in Requests, ProcessDies(r)
  PROVE  UInv'
<1> USE DEF UInv, ProcessDies
<1>1. /\ stage[r] \notin {"new", "done", "dead"} /\ stage'[r] = "dead" /\ stage' \in [Requests -> Stages]
      /\ \A q \in Requests : q # r => stage'[q] = stage[q]
  BY DEF UTypeOK, Stages
<1>2. mishaps' \in [deaths : 0..MaxCrashes, errors : 0..MaxErrors] /\ mishaps'.deaths > 0
  BY UploadAssumption DEF UTypeOK
<1>3. UTypeOK'
  BY <1>1, <1>2, UploadAssumption DEF UTypeOK, Inside
<1>4. Started'
  BY <1>1 DEF Started, UTypeOK
<1> QED
  BY <1>2, <1>3, <1>4 DEF Undisturbed

LEMMA LoadKeeps ==
  ASSUME UInv, NEW j \in jobs, Load(j)
  PROVE  UInv'
<1> USE DEF UInv
<1>1. PICK n : n = [j EXCEPT !.state = IF InPlace(j.upload) THEN "SUCCEEDED" ELSE "FAILED"]
  OBVIOUS
<1>2. j \in Jobs
  BY DEF UTypeOK
<1>3. /\ n \in Jobs /\ n.key = j.key /\ n.upload = j.upload
      /\ n.state = IF InPlace(j.upload) THEN "SUCCEEDED" ELSE "FAILED"
  BY <1>1, <1>2 DEF Jobs
<1>4. jobs' = (jobs \ {j}) \cup {n} /\ UNCHANGED <<stage, asked, partials, created, blobs, records, holder, live, mishaps>>
  BY <1>1 DEF Load
<1>5. UTypeOK'
  BY <1>3, <1>4 DEF UTypeOK, Inside
<1>6. Started'
  BY <1>4 DEF Started
<1>7. ASSUME Undisturbed' PROVE Accounted'
  <2>1. Accounted
    BY <1>4, <1>7 DEF Undisturbed
  <2>2. \A v : HasJob(v)' <=> HasJob(v)
    BY <1>3, <1>4 DEF HasJob
  <2>3. (\A q : Upload(q)' = Upload(q)) /\ (\A v : Pending(v)' <=> Pending(v))
    BY <1>4 DEF Upload, Pending
  <2>4. \A i \in jobs' : i.state # "FAILED" /\ InPlace(i.upload)'
    BY <1>3, <1>4, <2>1 DEF Accounted, InPlace
  <2> QED
    BY <1>4, <2>1, <2>2, <2>3, <2>4 DEF Accounted
<1> QED
  BY <1>5, <1>6, <1>7

LEMMA UploadsSame ==
  ASSUME UInv, UNCHANGED <<stage, asked, partials, created, blobs, records, holder, jobs, mishaps>>
  PROVE  UInv'
BY DEF UInv, UTypeOK, Started, Undisturbed, Accounted, Pending, HasJob, Upload, InPlace

\* An upload that is left behind: no request that put it there is at work.
LeftBehind(u) ==
  /\ u \in blobs \ records
  /\ \A r \in created : Upload(r) = u => stage[r] \in {"done", "dead"}

LEMMA UploadStep == ASSUME UInv, [UNext]_uvars PROVE UInv'
<1>1. ASSUME NEW r \in Requests, Answer(r) PROVE UInv'
  BY <1>1, EndKeeps DEF Answer
<1>2. ASSUME NEW r \in Requests, RefuseUpload(r) PROVE UInv'
  BY <1>2, EndKeeps DEF RefuseUpload
<1>3. CASE UNCHANGED uvars
  BY <1>3, UploadsSame DEF uvars
<1>4. CASE Revoke
  BY <1>4, UploadsSame DEF Revoke
<1> QED
  BY <1>1, <1>2, <1>3, <1>4, ReceiveKeeps, EntersKeeps, PlaceKeeps, DescribeKeeps, AcceptUploadKeeps, EndKeeps,
     DeathKeeps, LoadKeeps DEF UNext

LEMMA LeftBehindStays ==
  ASSUME UInv, [UNext]_uvars, NEW u \in Blobs, LeftBehind(u)
  PROVE  LeftBehind(u)'
<1> USE DEF UInv
<1>1. created \subseteq Requests /\ stage \in [Requests -> Stages] /\ asked \in [Requests -> Offer \cup {Nobody}]
  BY DEF UTypeOK
<1>2. ASSUME NEW r \in Requests, NEW v \in Blobs, NEW k \in Keys, Receive(r, v, k) PROVE LeftBehind(u)'
  <2>1. r \notin created
    BY <1>2 DEF Started, Receive, Moves
  <2> QED
    BY <1>1, <1>2, <2>1 DEF LeftBehind, Receive, Moves, Upload
<1>3. ASSUME NEW r \in Requests, Enter(r) \/ Abandon(r) PROVE LeftBehind(u)'
  <2>1. r \notin created
    BY <1>3 DEF Started, Enter, Abandon, Moves
  <2> QED
    BY <1>1, <1>3, <2>1 DEF LeftBehind, Enter, Abandon, Moves, Upload
<1>4. ASSUME NEW r \in Requests, Place(r) PROVE LeftBehind(u)'
  <2>1. r \notin created
    BY <1>4 DEF Started, Place, Moves
  <2>2. Upload(r) = u => UNCHANGED created
    BY <1>4 DEF Place, Missing, LeftBehind
  <2>3. \A q \in created' : q \in created \/ (q = r /\ Upload(r) # u)
    BY <1>4, <2>2 DEF Place
  <2>4. blobs \subseteq blobs' /\ records' = records /\ asked' = asked
    BY <1>4 DEF Place
  <2>5. \A q \in created : stage'[q] = stage[q]
    BY <1>1, <1>4, <2>1 DEF Place, Moves
  <2> QED
    BY <2>3, <2>4, <2>5 DEF LeftBehind, Upload
<1>5. ASSUME NEW r \in Requests, Describe(r) PROVE LeftBehind(u)'
  <2>1. stage[r] = "placed" /\ stage' = [stage EXCEPT ![r] = "described"] /\ UNCHANGED <<created, blobs, asked>>
    BY <1>5 DEF Describe, Moves
  <2>2. r \in created => Upload(r) # u
    BY <2>1 DEF LeftBehind
  <2>3. u \notin records'
    BY <1>5, <2>2 DEF Describe, LeftBehind
  <2> QED
    BY <1>1, <2>1, <2>2, <2>3 DEF LeftBehind, Upload
<1>6. ASSUME NEW r \in Requests, AcceptUpload(r) PROVE LeftBehind(u)'
  BY <1>1, <1>6 DEF LeftBehind, AcceptUpload, Upload
<1>7. ASSUME NEW r \in Requests, Answer(r) \/ WriteFails(r) PROVE LeftBehind(u)'
  BY <1>1, <1>7 DEF LeftBehind, Answer, WriteFails, Leave, Upload
<1>8. ASSUME NEW r \in Requests, RefuseUpload(r) \/ RaiseLate(r) PROVE LeftBehind(u)'
  <2>1. stage[r] \in {"described", "accepted"} /\ stage' = [stage EXCEPT ![r] = "done"] /\ UNCHANGED <<created, asked>>
        /\ DiscardUpload(r)
    BY <1>8 DEF RefuseUpload, RaiseLate, Leave
  <2>2. r \in created => Upload(r) # u
    BY <2>1 DEF LeftBehind
  <2>3. u \in blobs' /\ u \notin records'
    BY <2>1, <2>2 DEF DiscardUpload, LeftBehind
  <2> QED
    BY <1>1, <2>1, <2>3 DEF LeftBehind, Upload
<1>9. ASSUME NEW r \in Requests, ProcessDies(r) PROVE LeftBehind(u)'
  BY <1>1, <1>9 DEF LeftBehind, ProcessDies, Upload
<1>10. CASE (\E j \in jobs : Load(j)) \/ Revoke \/ UNCHANGED uvars
  BY <1>10 DEF LeftBehind, Load, Revoke, uvars, Upload
<1> QED
  BY <1>2, <1>3, <1>4, <1>5, <1>6, <1>7, <1>8, <1>9, <1>10 DEF UNext

LEMMA UploadSafe == ASSUME UInv PROVE UTypeOK /\ (Undisturbed => AcceptedIsReadable /\ NothingLeftOver)
<1>1. UTypeOK /\ Started
  BY DEF UInv
<1>2. ASSUME Undisturbed PROVE AcceptedIsReadable
  BY <1>2 DEF UInv, Accounted, AcceptedIsReadable
<1>3. ASSUME Undisturbed, \A r \in Requests : stage[r] \in {"new", "done"}
      PROVE  partials = {} /\ blobs = records /\ \A u \in blobs : \E j \in jobs : j.upload = u
  <2>1. Accounted /\ created \subseteq Requests /\ partials \subseteq Requests
    BY <1>3 DEF UInv, UTypeOK
  <2>2. created = {}  \/ \A r \in created : stage[r] = "done"
    BY <1>1, <1>3, <2>1 DEF Started
  <2>3. partials = {}
    BY <1>1, <1>3, <2>1 DEF Started
  <2> QED
    BY <2>1, <2>2, <2>3 DEF Accounted, Pending, HasJob
<1> QED
  BY <1>1, <1>2, <1>3 DEF NothingLeftOver

LEMMA OrphanIsLeftBehind == ASSUME UInv, NEW u \in Blobs, u \in Orphans PROVE LeftBehind(u)
<1>1. holder = Nobody /\ u \in blobs \ records
  BY DEF Orphans
<1>2. \A r \in Requests : stage[r] \notin Inside /\ stage[r] \in Stages
  BY <1>1, UploadAssumption DEF UInv, UTypeOK
<1> QED
  BY <1>1, <1>2 DEF LeftBehind, UInv, UTypeOK, Started, Inside, Stages

\* Whoever uploads at once, is refused, disconnects, dies or cannot write: what an accepted job is
\* going to read is there and what no job names is removed, unless a process died or a write
\* failed; and what that leaves behind is never mended (services/uploads.py).
THEOREM UploadsAreAccountedFor == USpec => UploadsAreKept
<1>1. USpec => []UInv
  BY UploadInit, UploadStep, PTL DEF USpec
<1>2. ASSUME NEW u \in Blobs PROVE USpec => [](u \in Orphans => [](u \in blobs \ records))
  <2>1. UInv /\ [UNext]_uvars /\ LeftBehind(u) => LeftBehind(u)'
    BY LeftBehindStays
  <2>2. UInv /\ u \in Orphans => LeftBehind(u)
    BY OrphanIsLeftBehind
  <2>3. LeftBehind(u) => u \in blobs \ records
    BY DEF LeftBehind
  <2> QED
    BY <1>1, <2>1, <2>2, <2>3, PTL DEF USpec
<1>3. USpec => OrphanIsFinal
  BY <1>2 DEF OrphanIsFinal
<1>4. UInv => UTypeOK /\ (Undisturbed => AcceptedIsReadable /\ NothingLeftOver)
  BY UploadSafe
<1> QED
  BY <1>1, <1>3, <1>4, PTL DEF UploadsAreKept

(***************************************************************************)
(* The commit of runs and builds.                                          *)
(***************************************************************************)

Moving == {"move", "moved", "undo"}

\* The directories of a work are those its process has moved.
Owned(p) == pc[p] \in Moving => dirs[work[p]] = FirstOf(work[p], moved[p])

\* How far a process is says how many directories it has moved.
Counted(p) ==
  /\ pc[p] \in {"idle", "lock", "begin", "check"} => moved[p] = 0
  /\ pc[p] = "move" => moved[p] < Len(Roles(work[p]))
  /\ pc[p] = "moved" => moved[p] = Len(Roles(work[p]))

\* What is final: a work that was made, and what a dead process has moved.
Final(p) == pc[p] = "succeeded" \/ (pc[p] = "dead" /\ moved[p] > 0)

KeptWhole(p) ==
  Final(p) =>
    /\ dirs[work[p]] # {}
    /\ pc[p] = "succeeded" => Whole(work[p])
    /\ \A q \in Procs : work[q] = work[p] => pc[q] \notin Moving

\* What is being moved clashes with no package that is there.
Unrivalled(p) == pc[p] \in Moving => ~Clash(work[p])

\* The inductive invariant of the commits.
CInv ==
  /\ CTypeOK
  /\ \A p \in Procs : Owned(p) /\ Counted(p) /\ KeptWhole(p)
  /\ \A w \in Works : Partial(w) => \E p \in Procs : work[p] = w /\ pc[p] \in Moving \cup {"dead"}
  /\ OnePackagePerVersion
  /\ \A p \in Procs : Unrivalled(p)

LEMMA RolesAre ==
  ASSUME NEW w \in Works
  PROVE  /\ Len(Roles(w)) \in {3, 4} /\ FirstOf(w, 0) = {}
         /\ \A n \in 0..Len(Roles(w)) : FirstOf(w, n) \subseteq FirstOf(w, Len(Roles(w)))
         /\ \A n \in 1..Len(Roles(w)) :
              /\ FirstOf(w, n) = FirstOf(w, n - 1) \cup {Roles(w)[n]}
              /\ Roles(w)[n] \notin FirstOf(w, n - 1)
<1>1. PICK s, m : s = Roles(w) /\ m = Len(s)
  OBVIOUS
<1>2. \/ s = <<"build", "evidence", "ir", "validation">> /\ m = 4
      \/ s = <<"build", "validation", "package">> /\ m = 3
  BY <1>1 DEF Roles
<1>3. \A i, j \in 1..m : s[i] = s[j] => i = j
  <2>1. CASE s = <<"build", "evidence", "ir", "validation">> /\ m = 4
    <3>1. s[1] = "build" /\ s[2] = "evidence" /\ s[3] = "ir" /\ s[4] = "validation"
      BY <2>1
    <3>2. \A i \in 1..m : i = 1 \/ i = 2 \/ i = 3 \/ i = 4
      BY <2>1
    <3> QED
      BY <3>1, <3>2
  <2>2. CASE s = <<"build", "validation", "package">> /\ m = 3
    <3>1. s[1] = "build" /\ s[2] = "validation" /\ s[3] = "package"
      BY <2>2
    <3>2. \A i \in 1..m : i = 1 \/ i = 2 \/ i = 3
      BY <2>2
    <3> QED
      BY <3>1, <3>2
  <2> QED
    BY <1>2, <2>1, <2>2
<1>4. m \in {3, 4}
  BY <1>2
<1>5. FirstOf(w, 0) = {}
  BY DEF FirstOf
<1>6. \A n \in 0..m : FirstOf(w, n) = {s[i] : i \in 1..n}
  BY <1>1 DEF FirstOf
<1>7. \A n \in 0..m : 1..n \subseteq 1..m
  BY <1>4
<1>8. \A n \in 0..m : FirstOf(w, n) \subseteq FirstOf(w, m)
  BY <1>4, <1>6, <1>7
<1>9. ASSUME NEW n \in 1..m
      PROVE  FirstOf(w, n) = FirstOf(w, n - 1) \cup {s[n]} /\ s[n] \notin FirstOf(w, n - 1)
  <2>1. 1..n = (1..n - 1) \cup {n} /\ n \notin 1..n - 1 /\ n \in 0..m /\ n - 1 \in 0..m /\ \A i \in 1..n - 1 : i \in 1..m /\ i # n
    BY <1>4
  <2> QED
    BY <1>3, <1>6, <2>1
<1> QED
  BY <1>1, <1>4, <1>5, <1>8, <1>9

LEMMA OfRun == ASSUME NEW w \in Works, "package" \in dirs[w], CTypeOK PROVE w \in Builds
<1>1. CASE w \in Runs
  <2>1. PICK i \in 1..4 : "package" = <<"build", "evidence", "ir", "validation">>[i]
    BY <1>1 DEF CTypeOK, FirstOf, Roles
  <2>2. i = 1 \/ i = 2 \/ i = 3 \/ i = 4
    OBVIOUS
  <2> QED
    BY <2>1, <2>2
<1> QED
  BY <1>1 DEF Works

LEMMA CommitInit == CInit => CInv
<1> SUFFICES ASSUME CInit PROVE CInv
  OBVIOUS
<1>1. \A w \in Works : dirs[w] = {}
  BY DEF CInit
<1>2. \A p \in Procs : pc[p] = "idle" /\ moved[p] = 0 /\ work[p] \in Works
  BY DEF CInit
<1>3. \A w \in Works : 0 \in 0..Len(Roles(w)) /\ ~Partial(w)
  BY <1>1, RolesAre DEF Partial
<1>4. CTypeOK
  BY <1>1, <1>2, <1>3, CommitAssumption DEF CTypeOK, CInit, Positions, Working
<1>5. Packages = {}
  BY <1>1 DEF Packages, Works
<1> QED
  BY <1>1, <1>2, <1>3, <1>4, <1>5 DEF CInv, Owned, Counted, KeptWhole, Final, Moving, OnePackagePerVersion, Unrivalled

\* Two that work under one lock are one.
LEMMA OneInside ==
  ASSUME CTypeOK, NEW p \in Procs, NEW q \in Procs, Working(p), Working(q), LockOf(p) = LockOf(q)
  PROVE  p = q
BY DEF CTypeOK

LEMMA MovingWorks == \A p \in Procs : pc[p] \in Moving => Working(p)
BY DEF Moving, Working

\* No other process moves the directories of a work that one process is moving.
LEMMA MovesAlone ==
  ASSUME CTypeOK, NEW p \in Procs, NEW q \in Procs, pc[p] \in Moving, pc[q] \in Moving, work[p] = work[q]
  PROVE  p = q
BY MovingWorks, OneInside DEF LockOf

\* A process goes on and moves nothing.
LEMMA GoesOn ==
  ASSUME CInv, CTypeOK', NEW p \in Procs, NEW there \in Positions, pc' = [pc EXCEPT ![p] = there],
         UNCHANGED <<dirs, moved, work>>, Counted(p)',
         there \in Moving => pc[p] \in Moving \/ (dirs[work[p]] = {} /\ ~Clash(work[p]) /\ moved[p] = 0),
         there = "succeeded" => pc[p] = "moved",
         there = "dead" => Working(p),
         there \notin Moving \cup {"dead"} => pc[p] \notin Moving \cup {"dead"} \/ ~Partial(work[p])
  PROVE  CInv'
<1>1. /\ pc'[p] = there /\ \A q \in Procs : q # p => pc'[q] = pc[q]
      /\ CTypeOK /\ \A q \in Procs : work[q] \in Works /\ moved[q] \in 0..Len(Roles(work[q]))
  BY DEF CInv, CTypeOK
<1>2. \A w : /\ Partial(w)' <=> Partial(w)
             /\ Whole(w)' <=> Whole(w)
             /\ Clash(w)' <=> Clash(w)
  BY DEF Partial, Whole, Clash, Packages
<1>3. OnePackagePerVersion'
  BY DEF CInv, OnePackagePerVersion, Packages
<1>4. ASSUME NEW q \in Procs PROVE Owned(q)'
  <2>1. CASE q # p
    BY <1>1, <2>1 DEF CInv, Owned
  <2>2. CASE q = p
    <3>1. there \in Moving => dirs[work[p]] = FirstOf(work[p], moved[p])
      <4>1. CASE pc[p] \in Moving
        BY <4>1 DEF CInv, Owned
      <4>2. CASE dirs[work[p]] = {} /\ moved[p] = 0
        BY <1>1, <4>2, RolesAre
      <4> QED
        BY <4>1, <4>2
    <3> QED
      BY <1>1, <2>2, <3>1 DEF Owned
  <2> QED
    BY <2>1, <2>2
<1>5. ASSUME NEW q \in Procs PROVE Counted(q)'
  BY <1>1 DEF CInv, Counted
<1>6. ASSUME NEW q \in Procs PROVE Unrivalled(q)'
  <2>1. CASE q # p
    BY <1>1, <1>2, <2>1 DEF CInv, Unrivalled
  <2>2. CASE q = p
    BY <1>1, <1>2, <2>2 DEF CInv, Unrivalled
  <2> QED
    BY <2>1, <2>2
<1>7. ASSUME NEW w \in Works, Partial(w)' PROVE \E q \in Procs : work'[q] = w /\ pc'[q] \in Moving \cup {"dead"}
  <2>1. PICK q \in Procs : work[q] = w /\ pc[q] \in Moving \cup {"dead"}
    BY <1>2, <1>7 DEF CInv
  <2>2. CASE q # p
    BY <1>1, <2>1, <2>2
  <2>3. CASE q = p
    BY <1>1, <1>2, <1>7, <2>1, <2>3
  <2> QED
    BY <2>2, <2>3
<1>8. ASSUME NEW q \in Procs, Final(q)'
      PROVE  /\ dirs[work[q]] # {} /\ (pc'[q] = "succeeded" => Whole(work[q]))
             /\ \A o \in Procs : work[o] = work[q] => pc'[o] \notin Moving
  <2>1. CASE q # p
    <3>1. Final(q) /\ pc'[q] = pc[q]
      BY <1>1, <1>8, <2>1 DEF Final
    <3>2. /\ dirs[work[q]] # {} /\ (pc[q] = "succeeded" => Whole(work[q]))
          /\ \A o \in Procs : work[o] = work[q] => pc[o] \notin Moving
      BY <3>1 DEF CInv, KeptWhole
    <3>3. ASSUME work[p] = work[q] PROVE there \notin Moving
      BY <3>2, <3>3
    <3> QED
      BY <1>1, <3>1, <3>2, <3>3
  <2>2. CASE q = p
    <3>1. there \in {"succeeded", "dead"} /\ (there = "dead" => moved[p] > 0)
      BY <1>1, <1>8, <2>2 DEF Final
    <3>2. pc[p] \in Moving /\ (there = "succeeded" => pc[p] = "moved")
      <4>1. Counted(p)
        BY DEF CInv
      <4> QED
        BY <1>1, <3>1, <4>1 DEF Counted, Working, Moving
    <3>3. PICK n, w : n = moved[p] /\ w = work[p]
      OBVIOUS
    <3>4. dirs[w] = FirstOf(w, n) /\ n \in 0..Len(Roles(w)) /\ w \in Works
      BY <1>1, <3>2, <3>3 DEF CInv, Owned
    <3>5. there = "succeeded" => n = Len(Roles(w))
      BY <3>2, <3>3 DEF CInv, Counted
    <3>6. n > 0
      BY <3>1, <3>3, <3>4, <3>5, RolesAre
    <3>7. dirs[w] # {}
      <4>1. n \in 1..Len(Roles(w))
        BY <3>4, <3>6, RolesAre
      <4>2. FirstOf(w, n) = FirstOf(w, n - 1) \cup {Roles(w)[n]}
        BY <3>4, <4>1, RolesAre
      <4> QED
        BY <3>4, <4>2
    <3>8. there = "succeeded" => Whole(w)
      BY <3>4, <3>5 DEF Whole
    <3>9. \A o \in Procs : work[o] = w /\ o # p => pc[o] \notin Moving
      BY <1>1, <3>2, <3>3, MovesAlone
    <3>10. there \notin Moving
      BY <3>1 DEF Moving
    <3> QED
      BY <1>1, <2>2, <3>3, <3>7, <3>8, <3>9, <3>10
  <2> QED
    BY <2>1, <2>2
<1>9. \A q \in Procs : KeptWhole(q)'
  BY <1>2, <1>8 DEF KeptWhole
<1> QED
  BY <1>3, <1>4, <1>5, <1>6, <1>7, <1>9 DEF CInv

\* A process is over and releases its lock.
LEMMA ReleaseType ==
  ASSUME CTypeOK, NEW p \in Procs, NEW there \in Positions, Working(p), Release(p, there),
         there \in {"reused", "refused", "failed", "succeeded"},
         UNCHANGED <<dirs, moved, work>>, faults' \in 0..MaxFaults
  PROVE  CTypeOK'
<1>1. /\ pc' = [pc EXCEPT ![p] = there] /\ staging' = staging \ {p}
      /\ lock' = [lock EXCEPT ![LockOf(p)] = IF @ = p THEN NoOne ELSE @]
  BY DEF Release, Goto
<1>2. LockOf(p) \in Kinds /\ lock[LockOf(p)] = p
  BY DEF LockOf, Kind, Kinds, CTypeOK
<1>3. lock'[LockOf(p)] = NoOne /\ \A k \in Kinds : k # LockOf(p) => lock'[k] = lock[k]
  BY <1>1, <1>2 DEF CTypeOK
<1>4. pc'[p] = there /\ \A q \in Procs : q # p => pc'[q] = pc[q]
  BY <1>1 DEF CTypeOK
<1>5. ~Working(p)' /\ \A q \in Procs : q # p => (Working(q)' <=> Working(q))
  BY <1>4 DEF Working
<1>6. \A q : LockOf(q)' = LockOf(q)
  BY DEF LockOf
<1>7. \A q \in Procs : Working(q)' => lock'[LockOf(q)'] = q
  <2> SUFFICES ASSUME NEW q \in Procs, Working(q)' PROVE lock'[LockOf(q)] = q
    BY <1>6
  <2>1. q # p /\ Working(q) /\ lock[LockOf(q)] = q /\ LockOf(q) \in Kinds
    BY <1>5 DEF CTypeOK, LockOf, Kind, Kinds
  <2> QED
    BY <1>2, <1>3, <2>1
<1>8. \A k \in Kinds : lock'[k] # NoOne => lock'[k] \in Procs /\ LockOf(lock[k])' = k /\ (Working(lock[k])' \/ pc'[lock'[k]] = "dead")
  <2> SUFFICES ASSUME NEW k \in Kinds, lock'[k] # NoOne
               PROVE  lock'[k] \in Procs /\ LockOf(lock[k])' = k /\ (Working(lock[k])' \/ pc'[lock'[k]] = "dead")
    OBVIOUS
  <2>1. k # LockOf(p) /\ lock'[k] = lock[k]
    BY <1>3
  <2>2. lock[k] \in Procs /\ LockOf(lock[k]) = k /\ (Working(lock[k]) \/ pc[lock[k]] = "dead")
    BY <2>1 DEF CTypeOK
  <2>3. lock[k] # p
    BY <2>1 DEF CTypeOK
  <2> QED
    BY <1>4, <1>5, <1>6, <2>1, <2>2, <2>3, lock'[k] = lock[k]
<1>9. lock' \in [Kinds -> Procs \cup {NoOne}] /\ staging' \subseteq Procs /\ pc' \in [Procs -> Positions]
  BY <1>1 DEF CTypeOK
<1>10. \A q \in staging' : Working(q)' \/ pc'[q] = "dead"
  BY <1>1, <1>4, <1>5 DEF CTypeOK
<1>11. DOMAIN dirs = Works /\ \A w \in Works : dirs[w] \subseteq FirstOf(w, Len(Roles(w)))
  BY DEF CTypeOK
<1>12. work \in [Procs -> Works] /\ DOMAIN moved = Procs /\ \A q \in Procs : moved[q] \in 0..Len(Roles(work[q]))
  BY DEF CTypeOK
<1> QED
  BY <1>7, <1>8, <1>9, <1>10, <1>11, <1>12 DEF CTypeOK

\* A process that holds its lock, or has not asked for it, goes on.
LEMMA StepType ==
  ASSUME CTypeOK, NEW p \in Procs, NEW there \in Positions, pc' = [pc EXCEPT ![p] = there],
         work' = work, faults' \in 0..MaxFaults, staging' \subseteq staging \cup {p},
         DOMAIN dirs' = Works, \A w \in Works : dirs'[w] \subseteq FirstOf(w, Len(Roles(w))),
         DOMAIN moved' = Procs, \A q \in Procs : moved'[q] \in 0..Len(Roles(work[q])),
         \/ ~Working(p) /\ lock' = lock /\ staging' = staging
            /\ there \notin {"begin", "check", "move", "moved", "undo", "dead"} /\ pc[p] # "dead"
         \/ Working(p) /\ lock' = lock /\ there \in {"begin", "check", "move", "moved", "undo", "dead"}
         \/ ~Working(p) /\ pc[p] # "dead" /\ lock[LockOf(p)] = NoOne /\ staging' = staging
            /\ lock' = [lock EXCEPT ![LockOf(p)] = p] /\ there = "begin"
  PROVE  CTypeOK'
<1>1. pc'[p] = there /\ \A q \in Procs : q # p => pc'[q] = pc[q]
  BY DEF CTypeOK
<1>2. LockOf(p) \in Kinds /\ \A q : LockOf(q)' = LockOf(q)
  BY DEF LockOf, Kind, Kinds
<1>3. \A q \in Procs : q # p => (Working(q)' <=> Working(q))
  BY <1>1 DEF Working
<1>4. Working(p)' <=> there \in {"begin", "check", "move", "moved", "undo"}
  BY <1>1 DEF Working
<1>5. \/ lock' = lock
      \/ /\ lock[LockOf(p)] = NoOne /\ lock' \in [Kinds -> Procs \cup {NoOne}] /\ lock'[LockOf(p)] = p
         /\ there = "begin" /\ \A k \in Kinds : k # LockOf(p) => lock'[k] = lock[k]
  BY <1>2 DEF CTypeOK
<1>6. ASSUME NEW q \in Procs, Working(q)' PROVE lock'[LockOf(q)] = q
  <2>1. CASE q # p
    <3>1. lock[LockOf(q)] = q /\ LockOf(q) \in Kinds
      BY <1>3, <1>6, <2>1 DEF CTypeOK, LockOf, Kind, Kinds
    <3> QED
      BY <1>5, <3>1, CommitAssumption
  <2>2. CASE q = p
    <3>1. there \in {"begin", "check", "move", "moved", "undo"}
      BY <1>4, <1>6, <2>2
    <3>2. CASE Working(p) /\ lock' = lock
      BY <2>2, <3>2 DEF CTypeOK
    <3>3. CASE lock' = [lock EXCEPT ![LockOf(p)] = p]
      BY <1>2, <2>2, <3>3 DEF CTypeOK
    <3> QED
      BY <3>1, <3>2, <3>3
  <2> QED
    BY <2>1, <2>2
<1>7. ASSUME NEW k \in Kinds, lock'[k] # NoOne
      PROVE  LockOf(lock'[k]) = k /\ (Working(lock[k])' \/ pc'[lock'[k]] = "dead")
  <2>1. CASE lock'[k] = p
    <3>1. CASE lock' = lock
      <4>1. LockOf(p) = k /\ (Working(p) \/ pc[p] = "dead")
        BY <1>7, <2>1, <3>1 DEF CTypeOK
      <4> QED
        BY <1>1, <1>4, <2>1, <4>1 DEF Working
    <3>2. CASE there = "begin" /\ lock[LockOf(p)] = NoOne /\ \A m \in Kinds : m # LockOf(p) => lock'[m] = lock[m]
      <4>1. k = LockOf(p)
        <5>1. SUFFICES ASSUME k # LockOf(p) PROVE FALSE
          OBVIOUS
        <5>2. lock[k] = p
          BY <2>1, <3>2, <5>1
        <5> QED
          BY <1>7, <2>1, <5>1, <5>2 DEF CTypeOK
      <4> QED
        BY <1>1, <1>4, <2>1, <3>2, <4>1 DEF Working
    <3> QED
      BY <1>5, <3>1, <3>2
  <2>2. CASE lock'[k] # p
    <3>1. lock'[k] = lock[k]
      BY <1>5, <2>2
    <3>2. lock[k] \in Procs /\ LockOf(lock[k]) = k /\ (Working(lock[k]) \/ pc[lock[k]] = "dead")
      BY <1>7, <3>1 DEF CTypeOK
    <3> QED
      BY <1>1, <1>3, <2>2, <3>1, <3>2
  <2> QED
    BY <2>1, <2>2
<1>8. ASSUME NEW q \in staging' PROVE q \in Procs /\ (Working(q)' \/ pc'[q] = "dead")
  <2>1. q \in Procs
    BY DEF CTypeOK
  <2>2. CASE q # p
    BY <1>1, <1>3, <2>1, <2>2 DEF CTypeOK
  <2>3. CASE q = p
    BY <1>1, <1>4, <2>3 DEF CTypeOK
  <2> QED
    BY <2>1, <2>2, <2>3
<1>9. lock' \in [Kinds -> Procs \cup {NoOne}] /\ pc' \in [Procs -> Positions] /\ work \in [Procs -> Works]
  BY <1>5 DEF CTypeOK
<1>10. \A k \in Kinds : lock'[k] # NoOne => LockOf(lock[k])' = k /\ (Working(lock[k])' \/ pc'[lock'[k]] = "dead")
  BY <1>7 DEF LockOf
<1>11. \A q \in Procs : Working(q)' => lock'[LockOf(q)'] = q
  BY <1>2, <1>6
<1> QED
  BY <1>8, <1>9, <1>10, <1>11 DEF CTypeOK

LEMMA LookKeeps == ASSUME CInv, NEW p \in Procs, LookFirst(p) PROVE CInv'
<1>1. PICK there : there = Found(p)
  OBVIOUS
<1>2. there \in {"lock", "reused", "refused"} /\ there \in Positions
  BY <1>1 DEF Found, Positions
<1>3. /\ pc[p] = "idle" /\ pc' = [pc EXCEPT ![p] = there] /\ CTypeOK
      /\ UNCHANGED <<dirs, lock, staging, formal, moved, work, faults>>
  BY <1>1 DEF LookFirst, AtStep, Goto, CInv
<1>4. ~Working(p) /\ moved[p] = 0 /\ pc'[p] = there
  BY <1>3 DEF Working, CInv, Counted, CTypeOK
<1>5. CTypeOK'
  BY <1>2, <1>3, <1>4, StepType DEF CTypeOK
<1>6. Counted(p)'
  BY <1>2, <1>3, <1>4 DEF Counted
<1> QED
  BY <1>2, <1>3, <1>5, <1>6, GoesOn DEF Moving

LEMMA LockFileKeeps == ASSUME CInv, NEW p \in Procs, Lock(p) PROVE CInv'
<1>1. /\ pc[p] = "lock" /\ CTypeOK
      /\ UNCHANGED <<dirs, staging, formal, moved, work, faults>>
  BY DEF Lock, AtStep, Goto, CInv
<1>2. PICK there \in {"begin", "refused"} :
        /\ pc' = [pc EXCEPT ![p] = there]
        /\ \/ there = "refused" /\ lock' = lock
           \/ there = "begin" /\ lock[LockOf(p)] = NoOne /\ lock' = [lock EXCEPT ![LockOf(p)] = p]
  BY DEF Lock, Goto
<1>3. there \in Positions
  BY DEF Positions
<1>4. ~Working(p) /\ moved[p] = 0 /\ pc'[p] = there
  BY <1>1, <1>2 DEF Working, CInv, Counted, CTypeOK
<1>5. CTypeOK'
  BY <1>1, <1>2, <1>3, <1>4, StepType DEF CTypeOK
<1>6. Counted(p)'
  BY <1>1, <1>4 DEF Counted
<1> QED
  BY <1>1, <1>2, <1>3, <1>5, <1>6, GoesOn DEF Moving

\* A process stops before it has moved anything, or after it has moved or taken back all.
LEMMA StopKeeps ==
  ASSUME CInv, NEW p \in Procs, NEW there \in {"reused", "refused", "failed", "succeeded"}, Release(p, there),
         UNCHANGED <<dirs, moved, work>>, faults' \in 0..MaxFaults,
         \/ pc[p] \in {"begin", "check"} /\ there # "succeeded"
         \/ pc[p] = "moved"
         \/ pc[p] = "undo" /\ moved[p] = 0 /\ there # "succeeded"
  PROVE  CInv'
<1>1. there \in Positions /\ Working(p) /\ CTypeOK /\ pc' = [pc EXCEPT ![p] = there]
  BY DEF Positions, Working, CInv, Release, Goto
<1>2. CTypeOK'
  BY <1>1, ReleaseType
<1>3. pc'[p] = there
  BY <1>1 DEF CTypeOK
<1>4. Counted(p)'
  BY <1>3 DEF Counted
<1>5. pc[p] \in Moving => ~Partial(work[p])
  <2>1. CASE pc[p] = "moved"
    BY <2>1 DEF CInv, Counted, Owned, Moving, Partial, Whole
  <2>2. CASE pc[p] = "undo" /\ moved[p] = 0
    <3>1. work[p] \in Works /\ dirs[work[p]] = FirstOf(work[p], 0)
      BY <1>1, <2>2 DEF CInv, Owned, Moving, CTypeOK
    <3> QED
      BY <3>1, RolesAre DEF Partial
  <2> QED
    BY <2>1, <2>2 DEF Moving
<1>6. there = "succeeded" => pc[p] = "moved"
  OBVIOUS
<1> QED
  BY <1>1, <1>2, <1>4, <1>5, <1>6, GoesOn DEF Moving

LEMMA BeginKeeps == ASSUME CInv, NEW p \in Procs, BeginWork(p) PROVE CInv'
<1>1. pc[p] = "begin" /\ CTypeOK /\ UNCHANGED <<dirs, moved, work, faults>> /\ faults \in 0..MaxFaults
  BY DEF BeginWork, AtStep, CInv, CTypeOK
<1>2. CASE work[p] \in Runs /\ dirs[work[p]] # {}
  <2>1. PICK there \in {"reused", "refused"} : Release(p, there)
    BY <1>2 DEF BeginWork
  <2> QED
    BY <1>1, <2>1, StopKeeps
<1>3. CASE ~(work[p] \in Runs /\ dirs[work[p]] # {})
  <2>1. pc' = [pc EXCEPT ![p] = "check"] /\ staging' = staging \cup {p} /\ lock' = lock
    BY <1>3 DEF BeginWork, Goto
  <2>2. "check" \in Positions /\ Working(p)
    BY <1>1 DEF Positions, Working
  <2>3. CTypeOK'
    BY <1>1, <2>1, <2>2, StepType DEF CTypeOK
  <2>4. moved[p] = 0 /\ pc'[p] = "check"
    BY <1>1, <2>1 DEF CInv, Counted, CTypeOK
  <2>5. Counted(p)'
    BY <1>1, <2>4 DEF Counted
  <2> QED
    BY <1>1, <2>1, <2>2, <2>3, <2>5, GoesOn DEF Moving
<1> QED
  BY <1>2, <1>3

LEMMA CheckKeeps == ASSUME CInv, NEW p \in Procs, Check(p) PROVE CInv'
<1>1. pc[p] = "check" /\ CTypeOK /\ UNCHANGED <<dirs, moved, work, faults>> /\ faults \in 0..MaxFaults
  BY DEF Check, AtStep, CInv, CTypeOK
<1>2. CASE ClearToMove(p)
  <2>1. pc' = [pc EXCEPT ![p] = "move"] /\ staging' = staging /\ lock' = lock
    BY <1>2 DEF Check, Goto
  <2>2. "move" \in Positions /\ Working(p)
    BY <1>1 DEF Positions, Working
  <2>3. CTypeOK'
    BY <1>1, <2>1, <2>2, StepType DEF CTypeOK
  <2>4. moved[p] = 0 /\ pc'[p] = "move" /\ work[p] \in Works
    BY <1>1, <2>1 DEF CInv, Counted, CTypeOK
  <2>5. Counted(p)'
    BY <1>1, <2>4, RolesAre DEF Counted
  <2>6. dirs[work[p]] = {} /\ ~Clash(work[p])
    BY <1>2 DEF ClearToMove
  <2> QED
    BY <1>1, <2>1, <2>2, <2>3, <2>4, <2>5, <2>6, GoesOn DEF Moving
<1>3. CASE ~ClearToMove(p)
  BY <1>1, <1>3, StopKeeps DEF Check
<1> QED
  BY <1>2, <1>3

LEMMA GiveUpKeeps == ASSUME CInv, NEW p \in Procs, GiveUp(p) PROVE CInv'
BY StopKeeps DEF GiveUp, CInv, CTypeOK

LEMMA FinishKeeps == ASSUME CInv, NEW p \in Procs, Finish(p) PROVE CInv'
BY StopKeeps DEF Finish, AtStep, CInv, CTypeOK

LEMMA TidyFailsKeeps == ASSUME CInv, NEW p \in Procs, TidyFails(p) PROVE CInv'
<1>1. faults' \in 0..MaxFaults
  BY CommitAssumption DEF TidyFails, CInv, CTypeOK
<1> QED
  BY <1>1, StopKeeps DEF TidyFails, AtStep

LEMMA MoveFailsKeeps == ASSUME CInv, NEW p \in Procs, MoveFails(p) PROVE CInv'
<1>1. /\ pc[p] \in {"move", "moved"} /\ CTypeOK /\ pc' = [pc EXCEPT ![p] = "undo"]
      /\ UNCHANGED <<dirs, lock, staging, formal, moved, work>>
  BY DEF MoveFails, Goto, CInv
<1>2. faults' \in 0..MaxFaults
  BY CommitAssumption DEF MoveFails, CInv, CTypeOK
<1>3. "undo" \in Positions /\ Working(p) /\ pc'[p] = "undo"
  BY <1>1 DEF Positions, Working, CTypeOK
<1>4. CTypeOK'
  BY <1>1, <1>2, <1>3, StepType DEF CTypeOK
<1>5. Counted(p)'
  BY <1>3 DEF Counted
<1> QED
  BY <1>1, <1>3, <1>4, <1>5, GoesOn DEF Moving

LEMMA WorkerDiesKeeps == ASSUME CInv, NEW p \in Procs, WorkerDies(p) PROVE CInv'
<1>1. /\ Working(p) /\ CTypeOK /\ pc' = [pc EXCEPT ![p] = "dead"]
      /\ UNCHANGED <<dirs, lock, staging, formal, moved, work>>
  BY DEF WorkerDies, Goto, CInv
<1>2. faults' \in 0..MaxFaults
  BY CommitAssumption DEF WorkerDies, CInv, CTypeOK
<1>3. "dead" \in Positions /\ pc'[p] = "dead"
  BY <1>1 DEF Positions, CTypeOK
<1>4. CTypeOK'
  BY <1>1, <1>2, <1>3, StepType DEF CTypeOK
<1>5. Counted(p)'
  BY <1>3 DEF Counted
<1> QED
  BY <1>1, <1>3, <1>4, <1>5, GoesOn DEF Moving

\* One directory is moved or taken back.
LEMMA OneDirectoryKeeps ==
  ASSUME CInv, CTypeOK', NEW p \in Procs, pc[p] \in Moving, NEW there \in Moving, NEW m \in 0..Len(Roles(work[p])),
         pc' = [pc EXCEPT ![p] = there], moved' = [moved EXCEPT ![p] = m], work' = work,
         dirs' = [dirs EXCEPT ![work[p]] = FirstOf(work[p], m)], Counted(p)'
  PROVE  CInv'
<1>1. PICK w : w = work[p]
  OBVIOUS
<1>2. /\ CTypeOK /\ w \in Works /\ \A q \in Procs : work[q] \in Works
      /\ dirs'[w] = FirstOf(w, m) /\ \A v \in Works : v # w => dirs'[v] = dirs[v]
      /\ pc'[p] = there /\ moved'[p] = m
      /\ \A q \in Procs : q # p => pc'[q] = pc[q] /\ moved'[q] = moved[q]
  BY <1>1 DEF CInv, CTypeOK
<1>3. \A q \in Procs : q # p /\ work[q] = w => pc[q] \notin Moving
  BY <1>1, <1>2, MovesAlone
<1>4. Packages' \subseteq Packages \cup {w} /\ (w \notin Builds => Packages' \subseteq Packages)
  BY <1>2 DEF Packages, Works
<1>5. w \in Builds => \A v \in Packages \ {w} : VersionOf[v] # VersionOf[w]
  BY <1>1 DEF CInv, Unrivalled, Clash
<1>6. ASSUME NEW q \in Procs PROVE Owned(q)' /\ Counted(q)'
  <2>1. CASE q = p
    BY <1>1, <1>2, <2>1 DEF Owned
  <2>2. CASE q # p
    <3>1. Owned(q) /\ Counted(q)
      BY DEF CInv
    <3>2. pc[q] \in Moving => dirs'[work[q]] = dirs[work[q]]
      BY <1>2, <1>3, <2>2
    <3> QED
      BY <1>2, <2>2, <3>1, <3>2 DEF Owned, Counted
  <2> QED
    BY <2>1, <2>2
<1>7. ASSUME NEW q \in Procs PROVE KeptWhole(q)'
  <2>1. CASE q = p
    BY <1>2, <2>1 DEF KeptWhole, Final, Moving
  <2>2. CASE q # p /\ Final(q)
    <3>1. /\ dirs[work[q]] # {} /\ (pc[q] = "succeeded" => Whole(work[q]))
          /\ \A o \in Procs : work[o] = work[q] => pc[o] \notin Moving
      BY <2>2 DEF CInv, KeptWhole
    <3>2. work[q] # w
      BY <1>1, <3>1
    <3>3. dirs'[work[q]] = dirs[work[q]]
      BY <1>2, <3>2
    <3>4. \A o \in Procs : work[o] = work[q] => pc'[o] \notin Moving
      BY <1>1, <1>2, <3>1, <3>2
    <3> QED
      BY <1>2, <2>2, <3>1, <3>3, <3>4 DEF KeptWhole, Whole
  <2>3. CASE q # p /\ ~Final(q)
    BY <1>2, <2>3 DEF KeptWhole, Final
  <2> QED
    BY <2>1, <2>2, <2>3
<1>8. ASSUME NEW v \in Works, Partial(v)' PROVE \E q \in Procs : work'[q] = v /\ pc'[q] \in Moving \cup {"dead"}
  <2>1. CASE v = w
    BY <1>1, <1>2, <2>1
  <2>2. CASE v # w
    <3>1. Partial(v)
      BY <1>2, <1>8, <2>2 DEF Partial, Whole
    <3>2. PICK q \in Procs : work[q] = v /\ pc[q] \in Moving \cup {"dead"}
      BY <3>1 DEF CInv
    <3> QED
      BY <1>1, <1>2, <2>2, <3>2
  <2> QED
    BY <2>1, <2>2
<1>9. OnePackagePerVersion'
  <2>1. \A u, v \in Packages : VersionOf[u] = VersionOf[v] => u = v
    BY DEF CInv, OnePackagePerVersion
  <2>2. \A u, v \in Packages' : VersionOf[u] = VersionOf[v] => u = v
    BY <1>4, <1>5, <2>1
  <2> QED
    BY <2>2 DEF OnePackagePerVersion
<1>10. ASSUME NEW q \in Procs PROVE Unrivalled(q)'
  <2>1. CASE q = p
    <3>1. w \in Builds => \A v \in Packages' \ {w} : VersionOf[v] # VersionOf[w]
      BY <1>4, <1>5
    <3> QED
      BY <1>1, <2>1, <3>1 DEF Unrivalled, Clash
  <2>2. CASE q # p /\ pc[q] \in Moving
    <3>1. ~Clash(work[q])
      BY <2>2 DEF CInv, Unrivalled
    <3>2. work[q] \in Builds => w \notin Builds
      <4>1. SUFFICES ASSUME work[q] \in Builds, w \in Builds PROVE FALSE
        OBVIOUS
      <4>2. LockOf(q) = LockOf(p)
        BY <1>1, <4>1, CommitAssumption DEF LockOf, Kind
      <4>3. Working(p) /\ Working(q)
        BY <2>2, MovingWorks
      <4> QED
        BY <1>2, <2>2, <4>2, <4>3, OneInside
    <3>3. work[q] \in Builds => Packages' \subseteq Packages
      BY <1>4, <3>2
    <3>4. ~(work[q] \in Builds /\ \E v \in Packages' \ {work[q]} : VersionOf[v] = VersionOf[work[q]])
      BY <3>1, <3>3 DEF Clash
    <3> QED
      BY <3>4 DEF Unrivalled, Clash
  <2>3. CASE q # p /\ pc[q] \notin Moving
    BY <1>2, <2>3 DEF Unrivalled
  <2> QED
    BY <2>1, <2>2, <2>3
<1> QED
  BY <1>6, <1>7, <1>8, <1>9, <1>10 DEF CInv

LEMMA MoveKeeps == ASSUME CInv, NEW p \in Procs, Move(p) PROVE CInv'
<1>1. PICK w, n, k : w = work[p] /\ n = moved[p] /\ k = Len(Roles(w))
  OBVIOUS
<1>2. /\ pc[p] = "move" /\ CTypeOK /\ UNCHANGED <<lock, staging, formal, work, faults>>
      /\ dirs' = [dirs EXCEPT ![w] = @ \cup {Next1(p)}] /\ moved' = [moved EXCEPT ![p] = n + 1]
      /\ pc' = [pc EXCEPT ![p] = IF moved'[p] = k THEN "moved" ELSE "move"]
  BY <1>1 DEF Move, AtStep, Goto, CInv
<1>3. w \in Works /\ DOMAIN dirs = Works /\ DOMAIN moved = Procs /\ dirs[w] = FirstOf(w, n) /\ n \in 0..k /\ n < k
  BY <1>1, <1>2 DEF CInv, Counted, Owned, CTypeOK, Moving
<1>4. k \in Nat /\ n + 1 \in 1..k /\ n + 1 \in 0..k
  BY <1>1, <1>3, RolesAre
<1>5. FirstOf(w, n + 1) = FirstOf(w, n) \cup {Next1(p)} /\ FirstOf(w, n + 1) \subseteq FirstOf(w, k)
  <2>1. FirstOf(w, n + 1) = FirstOf(w, (n + 1) - 1) \cup {Roles(w)[n + 1]} /\ FirstOf(w, n + 1) \subseteq FirstOf(w, k)
    BY <1>1, <1>3, <1>4, RolesAre
  <2>2. (n + 1) - 1 = n
    BY <1>3
  <2> QED
    BY <1>1, <2>1, <2>2 DEF Next1
<1>6. dirs' = [dirs EXCEPT ![w] = FirstOf(w, n + 1)]
  BY <1>2, <1>3, <1>5
<1>7. PICK there \in {"move", "moved"} : pc' = [pc EXCEPT ![p] = there] /\ there = IF n + 1 = k THEN "moved" ELSE "move"
  BY <1>2, <1>3
<1>8. there \in Positions /\ there \in Moving /\ pc[p] \in Moving /\ Working(p) /\ moved'[p] = n + 1 /\ pc'[p] = there
  BY <1>2, <1>3, <1>7 DEF Positions, Moving, Working, CTypeOK
<1>9. CTypeOK'
  <2>1. DOMAIN dirs' = Works /\ \A v \in Works : dirs'[v] \subseteq FirstOf(v, Len(Roles(v)))
    BY <1>1, <1>2, <1>3, <1>5, <1>6 DEF CTypeOK
  <2>2. DOMAIN moved' = Procs /\ \A q \in Procs : moved'[q] \in 0..Len(Roles(work[q]))
    BY <1>1, <1>2, <1>3, <1>4 DEF CTypeOK
  <2>3. faults' \in 0..MaxFaults
    BY <1>2 DEF CTypeOK
  <2> QED
    BY <1>2, <1>7, <1>8, <2>1, <2>2, <2>3, StepType
<1>10. Counted(p)'
  BY <1>1, <1>2, <1>4, <1>7, <1>8 DEF Counted
<1> QED
  BY <1>1, <1>2, <1>4, <1>6, <1>7, <1>8, <1>9, <1>10, OneDirectoryKeeps

LEMMA UndoKeeps == ASSUME CInv, NEW p \in Procs, Undo(p) PROVE CInv'
<1>1. PICK w, n, k : w = work[p] /\ n = moved[p] /\ k = Len(Roles(w))
  OBVIOUS
<1>2. pc[p] = "undo" /\ CTypeOK /\ UNCHANGED <<formal, work, faults>> /\ faults' \in 0..MaxFaults
  BY DEF Undo, AtStep, CInv, CTypeOK
<1>3. w \in Works /\ DOMAIN dirs = Works /\ DOMAIN moved = Procs /\ dirs[w] = FirstOf(w, n) /\ n \in 0..k
  BY <1>1, <1>2 DEF CInv, Owned, CTypeOK, Moving
<1>4. CASE n = 0
  BY <1>1, <1>2, <1>4, StopKeeps DEF Undo
<1>5. CASE n # 0
  <2>1. /\ dirs' = [dirs EXCEPT ![w] = @ \ {Roles(w)[n]}] /\ moved' = [moved EXCEPT ![p] = n - 1]
        /\ UNCHANGED <<pc, staging, lock>>
    BY <1>1, <1>5 DEF Undo
  <2>2. k \in Nat /\ n \in 1..k /\ n - 1 \in 0..k
    BY <1>1, <1>3, <1>5, RolesAre
  <2>3. FirstOf(w, n - 1) = FirstOf(w, n) \ {Roles(w)[n]} /\ FirstOf(w, n - 1) \subseteq FirstOf(w, k)
    <3>1. FirstOf(w, n) = FirstOf(w, n - 1) \cup {Roles(w)[n]} /\ Roles(w)[n] \notin FirstOf(w, n - 1)
          /\ FirstOf(w, n - 1) \subseteq FirstOf(w, k)
      BY <1>1, <1>3, <2>2, RolesAre
    <3> QED
      BY <3>1
  <2>4. dirs' = [dirs EXCEPT ![w] = FirstOf(w, n - 1)]
    BY <1>3, <2>1, <2>3
  <2>5. pc' = [pc EXCEPT ![p] = "undo"] /\ "undo" \in Positions /\ "undo" \in Moving /\ Working(p)
    BY <1>2, <2>1 DEF Positions, Moving, Working, CTypeOK
  <2>6. CTypeOK'
    <3>1. DOMAIN dirs' = Works /\ \A v \in Works : dirs'[v] \subseteq FirstOf(v, Len(Roles(v)))
      BY <1>1, <1>2, <1>3, <2>3, <2>4 DEF CTypeOK
    <3>2. DOMAIN moved' = Procs /\ \A q \in Procs : moved'[q] \in 0..Len(Roles(work[q]))
      BY <1>1, <1>2, <1>3, <2>1, <2>2 DEF CTypeOK
    <3> QED
      BY <1>2, <2>1, <2>5, <3>1, <3>2, StepType
  <2>7. Counted(p)'
    BY <1>2, <2>1 DEF Counted
  <2> QED
    BY <1>1, <1>2, <2>1, <2>2, <2>4, <2>5, <2>6, <2>7, OneDirectoryKeeps
<1> QED
  BY <1>4, <1>5

LEMMA UnlockKeeps == ASSUME CInv, NEW k \in Kinds, Unlock(k) PROVE CInv'
<1>1. /\ lock[k] # NoOne /\ pc[lock[k]] = "dead" /\ lock' = [lock EXCEPT ![k] = NoOne] /\ CTypeOK
      /\ UNCHANGED <<dirs, staging, formal, moved, pc, work, faults>>
  BY DEF Unlock, CInv
<1>2. lock' \in [Kinds -> Procs \cup {NoOne}] /\ lock'[k] = NoOne /\ \A m \in Kinds : m # k => lock'[m] = lock[m]
  BY <1>1 DEF CTypeOK
<1>3. \A q : (Working(q)' <=> Working(q)) /\ LockOf(q)' = LockOf(q)
  BY <1>1 DEF Working, LockOf
<1>4. ASSUME NEW q \in Procs, Working(q) PROVE lock'[LockOf(q)] = q
  <2>1. lock[LockOf(q)] = q /\ LockOf(q) \in Kinds
    BY <1>1, <1>4 DEF CTypeOK, LockOf, Kind, Kinds
  <2>2. LockOf(q) # k
    BY <1>1, <1>4, <2>1 DEF Working
  <2> QED
    BY <1>2, <2>1, <2>2
<1>5. \A m \in Kinds : lock'[m] # NoOne => LockOf(lock[m])' = m /\ (Working(lock[m])' \/ pc'[lock'[m]] = "dead")
  BY <1>1, <1>2 DEF CTypeOK, LockOf, Working
<1>6. \A q \in Procs : Working(q)' => lock'[LockOf(q)'] = q
  BY <1>3, <1>4
<1>7. CTypeOK'
  <2>1. \A q \in staging' : Working(q)' \/ pc'[q] = "dead"
    BY <1>1, <1>3 DEF CTypeOK
  <2> QED
    BY <1>1, <1>2, <1>5, <1>6, <2>1 DEF CTypeOK
<1> QED
  BY <1>1, <1>7 DEF CInv, Owned, Counted, KeptWhole, Final, Whole, Partial, OnePackagePerVersion, Packages, Unrivalled, Clash

LEMMA CommitStep == ASSUME CInv, [CNext]_cvars PROVE CInv'
<1>1. CASE UNCHANGED cvars
  <2>1. UNCHANGED <<dirs, lock, staging, formal, moved, pc, work, faults>>
    BY <1>1 DEF cvars
  <2>2. CTypeOK'
    BY <2>1 DEF CInv, CTypeOK, Working, LockOf
  <2> QED
    BY <2>1, <2>2 DEF CInv, Owned, Counted, KeptWhole, Final, Whole, Partial, OnePackagePerVersion, Packages, Unrivalled, Clash
<1> QED
  BY <1>1, LookKeeps, LockFileKeeps, BeginKeeps, GiveUpKeeps, CheckKeeps, MoveKeeps, MoveFailsKeeps, TidyFailsKeeps,
     UndoKeeps, FinishKeeps, WorkerDiesKeeps, UnlockKeeps DEF CNext

\* Nobody touches the directories of a process that died over them.
LEMMA DeadStays ==
  ASSUME CInv, [CNext]_cvars, NEW p \in Procs, pc[p] = "dead", moved[p] > 0
  PROVE  dirs'[work[p]] = dirs[work[p]]
<1>1. \A q \in Procs : work[q] = work[p] => pc[q] \notin Moving
  BY DEF CInv, KeptWhole, Final
<1>2. DOMAIN dirs = Works /\ work \in [Procs -> Works]
  BY DEF CInv, CTypeOK
<1>3. ASSUME NEW q \in Procs, Move(q) PROVE dirs'[work[p]] = dirs[work[p]]
  <2>1. work[q] # work[p]
    BY <1>1, <1>3 DEF Move, AtStep, Moving
  <2> QED
    BY <1>2, <1>3, <2>1 DEF Move
<1>4. ASSUME NEW q \in Procs, Undo(q) PROVE dirs'[work[p]] = dirs[work[p]]
  <2>1. work[q] # work[p]
    BY <1>1, <1>4 DEF Undo, AtStep, Moving
  <2> QED
    BY <1>2, <1>4, <2>1 DEF Undo
<1>5. ASSUME ~\E q \in Procs : Move(q) \/ Undo(q) PROVE dirs' = dirs
  BY <1>5 DEF CNext, LookFirst, Lock, BeginWork, GiveUp, Check, MoveFails, TidyFails, Finish, WorkerDies, Unlock, cvars
<1> QED
  BY <1>3, <1>4, <1>5

\* Whoever commits at once, fails, dies over it or is unlocked: a failed commit leaves nothing, what
\* a process was told it has made stays, what a dead one moved is never completed or cleared away,
\* and no two packages share a version (ingestion/transaction.py, semantic_kernel/transaction.py).
THEOREM CommitsStayWhole == CSpec => CommitsAreWhole
<1>1. CSpec => []CInv
  BY CommitInit, CommitStep, PTL DEF CSpec
<1>2. CInv => CTypeOK /\ FailuresLeaveNothing /\ MadeIsThere /\ OnePackagePerVersion
  <2> SUFFICES ASSUME CInv PROVE CTypeOK /\ FailuresLeaveNothing /\ MadeIsThere /\ OnePackagePerVersion
    OBVIOUS
  <2>1. FailuresLeaveNothing
    BY DEF CInv, FailuresLeaveNothing, AtWork, Moving
  <2>2. MadeIsThere
    BY DEF CInv, KeptWhole, Final, MadeIsThere
  <2> QED
    BY <2>1, <2>2 DEF CInv
<1>3. CInv /\ [CNext]_cvars => [\A p \in Procs : pc[p] = "dead" /\ moved[p] > 0 => dirs'[work[p]] = dirs[work[p]]]_cvars
  BY DeadStays
<1> QED
  BY <1>1, <1>2, <1>3, PTL DEF CSpec, CommitsAreWhole, PartialFailsClosed
=============================================================================
