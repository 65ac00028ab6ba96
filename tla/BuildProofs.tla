------------------------------ MODULE BuildProofs ------------------------------
(***************************************************************************)
(* Proofs about SemanticBuild for any authorities, builders, copies, edits,*)
(* failures and kills, about BatchExport for any exporters, directories and*)
(* kills, about StepAudit for any attempts, calls and failed writes, and   *)
(* about TrajectoryDelivery for any runs, reviews, batches and workers.    *)
(***************************************************************************)
EXTENDS SemanticBuild, BatchExport, StepAudit, TrajectoryDelivery, FiniteSetTheorems, SequenceTheorems, WellFoundedInduction, TLAPS

(***************************************************************************)
(* The copies of an authority.                                             *)
(***************************************************************************)

\* Every copy of an authority has one of the contents so far, and the place it was
\* written to stays.
Stored ==
  /\ DOMAIN copies = Docs
  /\ \A d \in Docs :
       /\ copies[d] = [x \in DOMAIN copies[d] |-> copies[d][x]]
       /\ Home[d] \in DOMAIN copies[d] /\ DOMAIN copies[d] \subseteq Nat
       /\ \A x \in DOMAIN copies[d] : copies[d][x] \in 0..edits
  /\ edits \in Nat

\* A set of paths has a first one.
LEMMA FirstPath ==
  ASSUME NEW S, S \subseteq Nat, S # {}
  PROVE  Min(S) \in S /\ \A y \in S : Min(S) =< y
<1> DEFINE R == OpToRel(<, Nat)
<1>1. PICK x \in S : \A y \in S : ~(<<y, x>> \in R)
  <2>1. IsWellFoundedOn(R, Nat)
    BY NatLessThanWellFounded
  <2> HIDE DEF R
  <2> QED
    BY <2>1, WFMin
<1>2. ASSUME NEW y \in S PROVE x =< y
  <2>1. y < x => <<y, x>> \in R
    BY DEF OpToRel
  <2> HIDE DEF R
  <2> QED
    BY <1>1, <2>1
<1> QED
  BY <1>2 DEF Min

LEMMA PlaceIsThere == ASSUME Stored, NEW d \in Docs PROVE Place(d) \in DOMAIN copies[d]
BY FirstPath DEF Stored, Place

\* What is attested is whole in every copy.
LEMMA AttestedIsWhole ==
  ASSUME Stored, Attested, NEW d \in Docs, NEW x \in DOMAIN copies[d]
  PROVE  copies[d][x] = 0
<1>1. Range(copies[d]) \subseteq 0..edits
  BY DEF Stored, Range
<1>2. IsFiniteSet(Range(copies[d]))
  <2>1. 0 \in Int /\ edits \in Int
    BY DEF Stored
  <2>2. IsFiniteSet(0..edits)
    BY <2>1, FS_Interval
  <2> QED
    BY <1>1, <2>2, FS_Subset
<1>3. PICK c : Range(copies[d]) = {c}
  BY <1>2, FS_Singleton DEF Attested, Unambiguous
<1>4. copies[d][Place(d)] = 0
  BY DEF Attested, Index
<1>5. 0 \in Range(copies[d]) /\ copies[d][x] \in Range(copies[d])
  BY <1>4, PlaceIsThere DEF Range
<1> QED
  BY <1>3, <1>5


\* What an authority was is there still, or an edit has replaced it.
Keeps ==
  /\ undone \subseteq undone' /\ edits =< edits'
  /\ \A d \in Docs : \/ copies'[d][Home[d]] = copies[d][Home[d]]
                     \/ <<d, copies[d][Home[d]]>> \in undone'

LEMMA Unmoved == ASSUME Stored, UNCHANGED <<copies, edits, undone>> PROVE Stored' /\ Keeps
BY DEF Stored, Keeps

LEMMA CopiesAdded ==
  ASSUME Stored, NEW D \in SUBSET Docs, NEW x \in Nat, NEW docs \in [Docs -> 0..edits],
         copies' = WithCopies(D, x, docs), UNCHANGED <<edits, undone>>
  PROVE  Stored' /\ Keeps
<1>1. ASSUME NEW d \in D PROVE copies'[d] = CopiedTo(copies[d], x, docs[d])
  BY DEF WithCopies
<1>2. ASSUME NEW d \in Docs, d \notin D PROVE copies'[d] = copies[d]
  BY <1>2 DEF WithCopies
<1>3. DOMAIN copies' = Docs
  BY DEF WithCopies
<1>4. ASSUME NEW d \in Docs
      PROVE  /\ copies'[d] = [y \in DOMAIN copies'[d] |-> copies'[d][y]]
             /\ DOMAIN copies'[d] \subseteq Nat
             /\ \A y \in DOMAIN copies'[d] : copies'[d][y] \in 0..edits
             /\ DOMAIN copies[d] \subseteq DOMAIN copies'[d]
             /\ \A y \in DOMAIN copies[d] : copies'[d][y] = copies[d][y]
  <2>1. CASE d \in D
    <3> DEFINE f == CopiedTo(copies[d], x, docs[d])
    <3>1. /\ DOMAIN f = DOMAIN copies[d] \cup {x} /\ f = [y \in DOMAIN f |-> f[y]]
          /\ \A y \in DOMAIN copies[d] : f[y] = copies[d][y]
          /\ \A y \in DOMAIN f : f[y] \in 0..edits
      BY DEF Stored, CopiedTo
    <3>2. copies'[d] = f
      BY <1>1, <2>1
    <3> HIDE DEF f
    <3> QED
      BY <3>1, <3>2 DEF Stored
  <2>2. CASE d \notin D
    BY <1>2, <2>2 DEF Stored
  <2> QED
    BY <2>1, <2>2
<1> QED
  BY <1>3, <1>4 DEF Stored, Keeps

LEMMA CopiesTaken ==
  ASSUME Stored, NEW x \in PackPlaces, copies' = WithoutCopies(x), UNCHANGED <<edits, undone>>
  PROVE  Stored' /\ Keeps
<1>1. \A d \in Docs : Home[d] # x
  BY BuildAssumption
<1>2. ASSUME NEW d \in Docs, d \in Packed
      PROVE  /\ copies'[d] = [y \in DOMAIN copies[d] \ {x} |-> copies[d][y]]
             /\ DOMAIN copies'[d] = DOMAIN copies[d] \ {x}
  BY <1>2 DEF WithoutCopies, Restrict, Stored
<1>3. ASSUME NEW d \in Docs, d \notin Packed PROVE copies'[d] = copies[d]
  BY <1>3 DEF WithoutCopies
<1>4. DOMAIN copies' = Docs
  BY DEF WithoutCopies
<1>5. ASSUME NEW d \in Docs
      PROVE  /\ copies'[d] = [y \in DOMAIN copies'[d] |-> copies'[d][y]]
             /\ DOMAIN copies'[d] \subseteq DOMAIN copies[d] /\ Home[d] \in DOMAIN copies'[d]
             /\ \A y \in DOMAIN copies'[d] : copies'[d][y] = copies[d][y]
  <2>1. CASE d \in Packed
    <3> DEFINE f == [y \in DOMAIN copies[d] \ {x} |-> copies[d][y]]
    <3>1. /\ DOMAIN f = DOMAIN copies[d] \ {x} /\ f = [y \in DOMAIN f |-> f[y]]
          /\ \A y \in DOMAIN f : f[y] = copies[d][y]
      OBVIOUS
    <3>2. copies'[d] = f
      BY <1>2, <2>1
    <3> HIDE DEF f
    <3> QED
      BY <1>1, <3>1, <3>2 DEF Stored
  <2>2. CASE d \notin Packed
    BY <1>3, <2>2 DEF Stored
  <2> QED
    BY <2>1, <2>2
<1> QED
  BY <1>4, <1>5 DEF Stored, Keeps

LEMMA CopyEdited ==
  ASSUME Stored, NEW d \in Docs, NEW x \in DOMAIN copies[d], NEW c \in 0..edits + 1, Edit(d, x, c)
  PROVE  Stored' /\ Keeps
<1>1. /\ edits' = edits + 1 /\ DOMAIN copies' = Docs
      /\ undone' = undone \cup {<<d, copies[d][x]>>}
      /\ \A e \in Docs : e # d => copies'[e] = copies[e]
  BY DEF Edit, Stored
<1>2. copies'[d] = [copies[d] EXCEPT ![x] = c]
  BY DEF Edit, Stored
<1>3. ASSUME NEW e \in Docs
      PROVE  /\ copies'[e] = [y \in DOMAIN copies'[e] |-> copies'[e][y]]
             /\ DOMAIN copies'[e] = DOMAIN copies[e]
             /\ \A y \in DOMAIN copies[e] : copies'[e][y] \in {copies[e][y], c}
             /\ \A y \in DOMAIN copies[e] : (e = d /\ y = x) \/ copies'[e][y] = copies[e][y]
  <2>1. CASE e = d
    BY <1>2, <2>1 DEF Stored
  <2>2. CASE e # d
    BY <1>1, <2>2 DEF Stored
  <2> QED
    BY <2>1, <2>2
<1>4. Stored'
  BY <1>1, <1>3 DEF Stored
<1>5. Keeps
  BY <1>1, <1>3 DEF Stored, Keeps
<1> QED
  BY <1>4, <1>5

(***************************************************************************)
(* The builds.                                                             *)
(***************************************************************************)

Stages == {"scanned", "attested", "compiled", "staged", "moving", "undoing"}

Task == [plan : plans, docs : [Docs -> 0..edits], at : Stages, moved : 0..3]

Package == [plan : plans, docs : [Docs -> 0..edits], at : PackPlaces]

Role == {"build", "validation"}

Typed ==
  /\ Stored
  /\ plans \subseteq [Docs -> Nat]
  /\ task \in [Builders -> Task \cup {None}]
  /\ packages \subseteq Package
  /\ dirs \subseteq Role \X plans
  /\ kills \in Nat

\* What a build has read and is not whole was replaced before the second scan, or
\* is where it was written to until then.
Truthful(t) ==
  /\ \A d \in Docs : t.docs[d] # 0 =>
       \/ <<d, t.docs[d]>> \in undone
       \/ t.at = "scanned" /\ copies[d][Home[d]] = t.docs[d]
  /\ t.at \in {"moving", "undoing"} => \A d \in Verified \cap Docs : t.docs[d] = 0

\* One builder is between taking the lock and leaving it.
Locked == \A b \in Builders : Inside(b) => holder = b

\* What the one that moves has moved, and nothing else, is there of its build.
HasMoved(t) ==
  /\ t.at \notin {"moving", "undoing"} => t.moved = 0
  /\ t.at \in {"moving", "undoing"} =>
       /\ <<"build", t.plan>> \in dirs <=> t.moved >= 1
       /\ <<"validation", t.plan>> \in dirs <=> t.moved >= 2
       /\ (\E k \in packages : k.plan = t.plan) <=> t.moved = 3

Unique == \A k1, k2 \in packages : k1.plan = k2.plan => k1 = k2

InPlace == \A k \in packages : <<"build", k.plan>> \in dirs /\ <<"validation", k.plan>> \in dirs

\* A directory without a package is being moved or taken back, unless somebody
\* was killed.
Moving ==
  kills = 0 => \A r \in dirs :
    \/ \E k \in packages : k.plan = r[2]
    \/ \E b \in Builders : /\ task[b] # None /\ task[b].plan = r[2]
                           /\ task[b].at \in {"moving", "undoing"}

MovesAreWhole ==
  /\ \A b \in Builders : task[b] # None => HasMoved(task[b])
  /\ Unique /\ InPlace /\ Moving

\* The inductive invariant.
IInv ==
  /\ Typed
  /\ \A b \in Builders : task[b] # None => Truthful(task[b])
  /\ BuiltAsAttested
  /\ Locked
  /\ MovesAreWhole

LEMMA InitInv == BInit => IInv
<1> SUFFICES ASSUME BInit PROVE IInv
  OBVIOUS
<1>1. \A d \in Docs : copies[d] = [x \in {Home[d]} |-> 0] /\ Home[d] \in Nat
  BY BuildAssumption DEF BInit
<1>2. Stored
  BY <1>1 DEF BInit, Stored
<1>3. task \in [Builders -> {None}]
  BY DEF BInit
<1> QED
  BY <1>2, <1>3 DEF BInit, IInv, Typed, BuiltAsAttested, Locked, MovesAreWhole, Unique, InPlace, Moving, Inside, Doing

(***************************************************************************)
(* The steps of a builder.                                                 *)
(***************************************************************************)

LEMMA TaskIsThere == ASSUME Typed, NEW t \in Task PROVE t # None /\ t \in Tasks
<1>1. 0..edits \subseteq Nat /\ plans \subseteq [Docs -> Nat]
  BY DEF Typed, Stored
<1>2. t = [plan |-> t.plan, docs |-> t.docs, at |-> t.at, moved |-> t.moved]
  BY DEF Task
<1>3. t.docs \in [Docs -> Nat] /\ t.plan \in [Docs -> Nat] /\ t.moved \in Nat /\ t.at \in Stages
  BY <1>1 DEF Task
<1>4. t \in Tasks
  BY <1>2, <1>3 DEF Tasks, Stages
<1> QED
  BY <1>4, NoneIsNoTask

LEMMA RolesOfABuild ==
  /\ DOMAIN Roles = {1, 2} /\ Len(Roles) = 2
  /\ Roles[1] = "build" /\ Roles[2] = "validation"
BY DEF Roles

\* One build takes up, goes on or ends.
Turns(b) ==
  \/ \E plan \in plans : Scan(b, plan)
  \/ Attest(b) \/ Reuse(b) \/ Stale(b) \/ Compile(b) \/ Found(b)
  \/ TakeLock(b) \/ LockedOut(b) \/ Check(b) \/ Refuse(b)
  \/ Fail(b) \/ Leave(b) \/ KillBuilder(b)

\* A directory is put in place or taken back.
Shifts(b) ==
  \/ Move(b) \/ UndoPackage(b) \/ Undo(b)
  \/ \E x \in PackPlaces : MovePackage(b, x)

\* Nobody builds.
Apart ==
  \/ CreatePlan \/ RemoveLock \/ UNCHANGED bvars
  \/ \E x \in RunPlaces : Ingest(x)
  \/ \E d \in Docs : \E x \in DOMAIN copies[d], c \in 0..edits + 1 : Edit(d, x, c)

LEMMA Steps == [BNext]_bvars => Apart \/ \E b \in Builders : Turns(b) \/ Shifts(b)
BY DEF BNext, BuilderStep, Apart, Turns, Shifts

\* What is scanned is what the workspace has.
LEMMA Scanned == ASSUME Stored, Unambiguous
                 PROVE  /\ Index \in [Docs -> 0..edits]
                        /\ \A d \in Docs : Index[d] = copies[d][Home[d]]
<1> SUFFICES ASSUME NEW d \in Docs
             PROVE  Index[d] \in 0..edits /\ Index[d] = copies[d][Home[d]]
  BY DEF Index
<1>1. Range(copies[d]) \subseteq 0..edits
  BY DEF Stored, Range
<1>2. IsFiniteSet(Range(copies[d]))
  <2>1. 0 \in Int /\ edits \in Int
    BY DEF Stored
  <2>2. IsFiniteSet(0..edits)
    BY <2>1, FS_Interval
  <2> QED
    BY <1>1, <2>2, FS_Subset
<1>3. PICK c : Range(copies[d]) = {c}
  BY <1>2, FS_Singleton DEF Unambiguous
<1>4. Place(d) \in DOMAIN copies[d] /\ Home[d] \in DOMAIN copies[d]
  BY PlaceIsThere DEF Stored
<1>5. copies[d][Place(d)] \in Range(copies[d]) /\ copies[d][Home[d]] \in Range(copies[d])
  BY <1>4 DEF Range
<1> QED
  BY <1>1, <1>3, <1>5 DEF Index

LEMMA Turned ==
  ASSUME IInv, NEW b \in Builders, Turns(b)
  PROVE  /\ UNCHANGED <<workspace, packages, dirs>>
         /\ kills' \in Nat /\ kills' >= kills
         /\ \E t \in Task \cup {None} :
              /\ task' = [task EXCEPT ![b] = t]
              /\ t # None => Truthful(t)
<1>1. task[b] \in Task \cup {None} /\ (task[b] # None => Truthful(task[b])) /\ kills \in Nat
  BY DEF IInv, Typed
<1>2. ASSUME NEW plan \in plans, Scan(b, plan)
      PROVE  \E t \in Task : task' = [task EXCEPT ![b] = t] /\ Truthful(t)
  <2> DEFINE t == [plan |-> plan, docs |-> Index, at |-> "scanned", moved |-> 0]
  <2>1. Index \in [Docs -> 0..edits] /\ \A d \in Docs : Index[d] = copies[d][Home[d]]
    BY <1>2, Scanned DEF Scan, IInv, Typed
  <2>2. t \in Task /\ Truthful(t)
    BY <2>1 DEF Task, Stages, Truthful
  <2>3. task' = [task EXCEPT ![b] = t]
    BY <1>2 DEF Scan
  <2> QED
    BY <2>2, <2>3
<1>3. ASSUME Attest(b) PROVE \E t \in Task : task' = [task EXCEPT ![b] = t] /\ Truthful(t)
  <2> DEFINE t == [task[b] EXCEPT !.at = "attested"]
  <2>1. task[b] \in Task /\ Truthful(task[b])
    BY <1>1, <1>3 DEF Attest, Doing
  <2>2. \A d \in Docs : copies[d][Home[d]] = 0
    BY <1>3, AttestedIsWhole DEF Attest, IInv, Typed, Stored
  <2>3. t \in Task /\ t.docs = task[b].docs /\ t.at = "attested"
    BY <2>1 DEF Task, Stages
  <2>4. Truthful(t)
    BY <2>1, <2>2, <2>3 DEF Truthful
  <2>5. task' = [task EXCEPT ![b] = t]
    BY <1>3 DEF Attest, Going
  <2> QED
    BY <2>3, <2>4, <2>5
<1>4. ASSUME Compile(b) \/ TakeLock(b) \/ Check(b) \/ Fail(b)
      PROVE  \E t \in Task : task' = [task EXCEPT ![b] = t] /\ Truthful(t)
  <2>1. PICK at \in Stages \ {"scanned", "attested"} : task' = [task EXCEPT ![b].at = at]
    BY <1>4 DEF Compile, TakeLock, Check, Fail, Going, Stages
  <2> DEFINE t == [task[b] EXCEPT !.at = at]
  <2>2. task[b] \in Task /\ Truthful(task[b]) /\ task[b].at # "scanned"
    BY <1>1, <1>4 DEF Compile, TakeLock, Check, Fail, Doing
  <2>3. t \in Task /\ t.docs = task[b].docs /\ t.at = at
    BY <2>2 DEF Task
  <2>4. at \in {"moving", "undoing"} => \A d \in Verified \cap Docs : task[b].docs[d] = 0
    <3>1. CASE Check(b)
      BY <3>1 DEF Check, Sound
    <3>2. CASE Fail(b)
      BY <2>2, <3>2 DEF Fail, Doing, Truthful
    <3>3. CASE Compile(b) \/ TakeLock(b)
      <4>1. at \in {"compiled", "staged"}
        BY <2>1, <2>2, <3>3 DEF Compile, TakeLock, Going, IInv, Typed, Task
      <4> QED
        BY <4>1
    <3> QED
      BY <1>4, <3>1, <3>2, <3>3
  <2>5. Truthful(t)
    BY <2>2, <2>3, <2>4 DEF Truthful
  <2> QED
    BY <2>1, <2>3, <2>5
<1>5. ASSUME \/ Reuse(b) \/ Stale(b) \/ Found(b) \/ LockedOut(b) \/ Refuse(b) \/ Leave(b)
             \/ KillBuilder(b)
      PROVE  task' = [task EXCEPT ![b] = None]
  BY <1>5 DEF Reuse, Stale, Found, LockedOut, Refuse, Leave, KillBuilder, Ending
<1>6. UNCHANGED <<workspace, packages, dirs>> /\ kills' \in Nat /\ kills' >= kills
  BY <1>1 DEF Turns, Scan, Attest, Reuse, Stale, Compile, Found, TakeLock, LockedOut, Check, Refuse,
              Fail, Leave, KillBuilder, Going, Ending
<1> QED
  BY <1>2, <1>3, <1>4, <1>5, <1>6 DEF Turns

(***************************************************************************)
(* What is attested.                                                       *)
(***************************************************************************)

\* The state has its shape, and what was built and is being built is attested.
Truths ==
  /\ Typed
  /\ \A b \in Builders : task[b] # None => Truthful(task[b])
  /\ BuiltAsAttested

\* Builds that do not change hands keep what is said of them.
LEMMA TasksKept ==
  ASSUME Truths, Keeps, Stored', plans \subseteq plans', NEW b \in Builders,
         task'[b] = task[b], task[b] # None
  PROVE  task'[b] \in Task' /\ Truthful(task[b])'
<1>1. task[b] \in Task /\ Truthful(task[b]) /\ Stored
  BY DEF Truths, Typed
<1>2. 0..edits \subseteq 0..edits'
  BY <1>1 DEF Stored, Keeps
<1>3. task[b] \in Task'
  BY <1>1, <1>2 DEF Task
<1>4. ASSUME NEW d \in Docs, task[b].docs[d] # 0
      PROVE  \/ <<d, task[b].docs[d]>> \in undone'
             \/ task[b].at = "scanned" /\ copies'[d][Home[d]] = task[b].docs[d]
  BY <1>1, <1>4 DEF Truthful, Keeps
<1> QED
  BY <1>1, <1>3, <1>4 DEF Truthful

LEMMA PackagesKept ==
  ASSUME Truths, Keeps, Stored', plans \subseteq plans', NEW k \in packages
  PROVE  k \in Package' /\ \A d \in Docs : k.docs[d] # 0 => d \notin Verified /\ <<d, k.docs[d]>> \in undone'
<1>1. k \in Package /\ Stored
  BY DEF Truths, Typed
<1>2. 0..edits \subseteq 0..edits'
  BY <1>1 DEF Stored, Keeps
<1>3. k \in Package'
  BY <1>1, <1>2 DEF Package
<1> QED
  BY <1>3 DEF Truths, BuiltAsAttested, Keeps

LEMMA TurnedTruths == ASSUME IInv, NEW b \in Builders, Turns(b) PROVE Truths'
<1>1. PICK t \in Task \cup {None} :
        /\ UNCHANGED <<workspace, packages, dirs>> /\ kills' \in Nat
        /\ task' = [task EXCEPT ![b] = t]
        /\ t # None => Truthful(t)
  BY Turned
<1>2. Truths /\ Stored
  BY DEF IInv, Truths, Typed
<1>3. Stored' /\ Keeps
  BY <1>1, <1>2, Unmoved DEF workspace
<1>4. Task' = Task /\ Package' = Package
  BY <1>1 DEF Task, Package, workspace
<1>5. Typed'
  BY <1>1, <1>2, <1>3, <1>4 DEF Truths, Typed, workspace
<1>6. ASSUME NEW c \in Builders, task'[c] # None PROVE Truthful(task[c])'
  <2>1. CASE c = b
    <3>1. task'[c] = t /\ Truthful(t)
      BY <1>1, <1>2, <1>6, <2>1 DEF Truths, Typed
    <3> QED
      BY <1>1, <3>1 DEF Truthful, workspace
  <2>2. CASE c # b
    <3>1. task'[c] = task[c] /\ plans' = plans
      BY <1>1, <1>2, <2>2 DEF Truths, Typed, workspace
    <3> QED
      BY <1>2, <1>3, <1>6, <3>1, TasksKept
  <2> QED
    BY <2>1, <2>2
<1>7. BuiltAsAttested'
  BY <1>1, <1>2 DEF Truths, BuiltAsAttested, workspace
<1> QED
  BY <1>5, <1>6, <1>7 DEF Truths

\* What is moved counts on.
LEMMA Shifted ==
  ASSUME IInv, NEW b \in Builders, Shifts(b)
  PROVE  /\ task[b] \in Task /\ task[b].at \in {"moving", "undoing"}
         /\ \E n \in 0..3 : /\ task' = [task EXCEPT ![b].moved = n]
                          /\ task'[b] = [task[b] EXCEPT !.moved = n]
         /\ UNCHANGED <<plans, holder, kills, edits, undone>>
<1>1. task[b] \in Task /\ task[b].at \in {"moving", "undoing"} /\ task \in [Builders -> Task \cup {None}]
  BY DEF IInv, Typed, Shifts, Move, UndoPackage, Undo, MovePackage, Doing
<1>2. task[b].moved \in 0..3
  BY <1>1 DEF Task
<1>3. UNCHANGED <<plans, holder, kills, edits, undone>>
  BY DEF Shifts, Move, UndoPackage, Undo, MovePackage, workspace
<1>4. ASSUME NEW n, task' = [task EXCEPT ![b].moved = n] PROVE task'[b] = [task[b] EXCEPT !.moved = n]
  BY <1>1, <1>4
<1>5. \E n \in 0..3 : task' = [task EXCEPT ![b].moved = n]
  <2>1. CASE Move(b)
    <3>1. task' = [task EXCEPT ![b].moved = task[b].moved + 1] /\ task[b].moved + 1 \in {1, 2}
      BY <1>1, <2>1, RolesOfABuild DEF Move
    <3>2. task[b].moved + 1 \in 0..3
      BY <1>2, <3>1
    <3> QED
      BY <3>1, <3>2
  <2>2. CASE Undo(b)
    <3>1. task' = [task EXCEPT ![b].moved = task[b].moved - 1] /\ task[b].moved \in {1, 2}
      BY <1>1, <2>2, RolesOfABuild DEF Undo
    <3>2. task[b].moved - 1 \in 0..3
      BY <3>1
    <3> QED
      BY <3>1, <3>2
  <2>3. CASE UndoPackage(b)
    <3>1. task' = [task EXCEPT ![b].moved = task[b].moved - 1] /\ task[b].moved = 3
      BY <1>1, <2>3, RolesOfABuild DEF UndoPackage
    <3> QED
      BY <3>1
  <2>4. CASE \E x \in PackPlaces : MovePackage(b, x)
    <3>1. task' = [task EXCEPT ![b].moved = task[b].moved + 1] /\ task[b].moved = 2
      BY <1>1, <2>4, RolesOfABuild DEF MovePackage
    <3> QED
      BY <3>1
  <2> QED
    BY <2>1, <2>2, <2>3, <2>4 DEF Shifts
<1> QED
  BY <1>1, <1>3, <1>4, <1>5

LEMMA ShiftedTruths == ASSUME IInv, NEW b \in Builders, Shifts(b) PROVE Truths'
<1>1. PICK n \in 0..3 : /\ task[b] \in Task /\ task[b].at \in {"moving", "undoing"}
                        /\ task' = [task EXCEPT ![b].moved = n]
                        /\ task'[b] = [task[b] EXCEPT !.moved = n]
                        /\ UNCHANGED <<plans, holder, kills, edits, undone>>
  BY Shifted
<1>2. Truths /\ Stored /\ Truthful(task[b])
  BY <1>1 DEF IInv, Truths, Typed, Task, Shifts, Move, UndoPackage, Undo, MovePackage, Doing
<1>3. task[b].docs \in [Docs -> 0..edits] /\ task[b].plan \in plans
  BY <1>1 DEF Task
<1>4. Stored' /\ Keeps
  <2>1. CASE Move(b) \/ Undo(b)
    BY <1>2, <2>1, Unmoved DEF Move, Undo, workspace
  <2>2. CASE UndoPackage(b)
    <3>1. PICK k \in packages : copies' = WithoutCopies(k.at)
      BY <2>2 DEF UndoPackage
    <3>2. k.at \in PackPlaces
      BY <1>2 DEF Truths, Typed, Package
    <3> QED
      BY <1>1, <1>2, <3>1, <3>2, CopiesTaken
  <2>3. CASE \E x \in PackPlaces : MovePackage(b, x)
    BY <1>1, <1>2, <1>3, <2>3, CopiesAdded, BuildAssumption DEF MovePackage
  <2> QED
    BY <2>1, <2>2, <2>3 DEF Shifts
<1>5. Task' = Task /\ Package' = Package
  BY <1>1 DEF Task, Package
<1>6. task'[b] \in Task /\ task'[b].docs = task[b].docs /\ task'[b].at = task[b].at
  BY <1>1 DEF Task
<1>7. dirs' \subseteq Role \X plans
  <2>1. CASE Move(b)
    BY <1>2, <1>3, <2>1, RolesOfABuild DEF Move, Dir, Role, Truths, Typed
  <2>2. CASE ~Move(b)
    <3>1. dirs' \subseteq dirs
      BY <2>2 DEF Shifts, Undo, UndoPackage, MovePackage
    <3> QED
      BY <1>2, <3>1 DEF Truths, Typed
  <2> QED
    BY <2>1, <2>2
<1>8. ASSUME NEW k \in packages', k \notin packages
      PROVE  k \in Package /\ k.docs = task[b].docs
  <2>1. PICK x \in PackPlaces : MovePackage(b, x)
    BY <1>8 DEF Shifts, Move, Undo, UndoPackage, workspace
  <2>2. k = [plan |-> task[b].plan, docs |-> task[b].docs, at |-> x]
    BY <1>8, <2>1 DEF MovePackage
  <2> QED
    BY <1>3, <2>2 DEF Package
<1>9. Typed'
  <2>1. task' \in [Builders -> Task \cup {None}]
    BY <1>1, <1>2, <1>6 DEF Truths, Typed
  <2>2. packages' \subseteq Package
    BY <1>2, <1>8 DEF Truths, Typed
  <2> QED
    BY <1>1, <1>2, <1>4, <1>5, <1>7, <2>1, <2>2 DEF Truths, Typed
<1>10. ASSUME NEW c \in Builders, task'[c] # None PROVE Truthful(task[c])'
  <2>1. CASE c = b
    BY <1>1, <1>2, <1>6, <2>1 DEF Truthful
  <2>2. CASE c # b
    <3>1. task'[c] = task[c] /\ plans' = plans
      BY <1>1, <1>2, <2>2 DEF Truths, Typed
    <3> QED
      BY <1>2, <1>4, <1>10, <3>1, TasksKept
  <2> QED
    BY <2>1, <2>2
<1>11. BuiltAsAttested'
  <2> SUFFICES ASSUME NEW k \in packages', NEW d \in Docs, k.docs[d] # 0
               PROVE  d \notin Verified /\ <<d, k.docs[d]>> \in undone'
    BY DEF BuiltAsAttested
  <2>1. CASE k \in packages
    BY <1>1, <1>2, <2>1 DEF Truths, BuiltAsAttested
  <2>2. CASE k \notin packages
    BY <1>1, <1>2, <1>8, <2>2 DEF Truthful
  <2> QED
    BY <2>1, <2>2
<1> QED
  BY <1>9, <1>10, <1>11 DEF Truths

LEMMA ApartTruths == ASSUME IInv, Apart PROVE Truths' /\ plans \subseteq plans'
<1>1. plans \subseteq plans' /\ UNCHANGED <<packages, dirs, task>> /\ kills' = kills
  BY DEF Apart, CreatePlan, RemoveLock, Ingest, Edit, bvars, workspace
<1>2. Truths /\ Stored
  BY DEF IInv, Truths, Typed
<1>3. Stored' /\ Keeps
  <2>1. CASE \E x \in RunPlaces : Ingest(x)
    <3>1. PICK x \in RunPlaces : Ingest(x)
      BY <2>1
    <3>2. [d \in Docs |-> 0] \in [Docs -> 0..edits]
      BY <1>2 DEF Stored
    <3>3. /\ copies' = WithCopies(Ingested, x, [d \in Docs |-> 0])
          /\ UNCHANGED <<edits, undone>> /\ Ingested \in SUBSET Docs /\ x \in Nat
      BY <3>1, BuildAssumption DEF Ingest
    <3> QED
      BY <1>2, <3>2, <3>3, CopiesAdded
  <2>2. CASE \E d \in Docs : \E x \in DOMAIN copies[d], c \in 0..edits + 1 : Edit(d, x, c)
    BY <1>2, <2>2, CopyEdited
  <2>3. CASE CreatePlan \/ RemoveLock \/ UNCHANGED bvars
    BY <1>2, <2>3, Unmoved DEF CreatePlan, RemoveLock, bvars, workspace
  <2> QED
    BY <2>1, <2>2, <2>3 DEF Apart
<1>4. ASSUME NEW c \in Builders, task'[c] # None PROVE task'[c] \in Task' /\ Truthful(task[c])'
  BY <1>1, <1>2, <1>3, <1>4, TasksKept
<1>5. task' \in [Builders -> Task' \cup {None}]
  BY <1>1, <1>2, <1>4 DEF Truths, Typed
<1>6. packages' \subseteq Package' /\ BuiltAsAttested'
  BY <1>1, <1>2, <1>3, PackagesKept DEF BuiltAsAttested
<1>7. dirs' \subseteq Role \X plans'
  BY <1>1, <1>2 DEF Truths, Typed
<1>8. plans' \subseteq [Docs -> Nat]
  <2>1. Rows \in [Docs -> Nat]
    BY <1>2, PlaceIsThere DEF Rows, Stored
  <2>2. plans' \subseteq plans \cup {Rows}
    BY DEF Apart, CreatePlan, RemoveLock, Ingest, Edit, bvars, workspace
  <2> QED
    BY <1>2, <2>1, <2>2 DEF Truths, Typed
<1> QED
  BY <1>1, <1>2, <1>3, <1>4, <1>5, <1>6, <1>7, <1>8 DEF Truths, Typed

(***************************************************************************)
(* What is built is whole.                                                 *)
(***************************************************************************)

LEMMA LockedInv == ASSUME IInv, [BNext]_bvars PROVE Locked'
<1>1. None \notin Builders /\ task \in [Builders -> Task \cup {None}] /\ Locked
  BY BuildAssumption DEF IInv, Typed
<1>2. ASSUME Apart PROVE Locked'
  <2>1. UNCHANGED task
    BY <1>2 DEF Apart, CreatePlan, RemoveLock, Ingest, Edit, bvars
  <2>2. CASE RemoveLock
    <3>1. \A b \in Builders : ~Inside(b)
      BY <1>1, <2>2 DEF RemoveLock, Locked
    <3> QED
      BY <2>1, <3>1 DEF Locked, Inside, Doing
  <2>3. CASE ~RemoveLock
    <3>1. UNCHANGED holder
      BY <1>2, <2>3 DEF Apart, CreatePlan, Ingest, Edit, bvars
    <3> QED
      BY <1>1, <2>1, <3>1 DEF Locked, Inside, Doing
  <2> QED
    BY <2>2, <2>3
<1>3. ASSUME NEW b \in Builders, Turns(b) \/ Shifts(b) PROVE Locked'
  <2>1. \A c \in Builders : c # b => task'[c] = task[c]
    <3>1. CASE Turns(b)
      BY <1>1, <3>1, Turned
    <3>2. CASE Shifts(b)
      BY <1>1, <3>2, Shifted
    <3> QED
      BY <1>3, <3>1, <3>2
  <2>2. \A c \in Builders : c # b => (Inside(c)' <=> Inside(c))
    BY <2>1 DEF Inside, Doing
  <2>3. CASE Refuse(b) \/ Leave(b)
    <3>1. Inside(b) /\ task'[b] = None
      BY <1>1, <2>3 DEF Refuse, Leave, Inside, Doing, Ending
    <3>2. \A c \in Builders : c # b => ~Inside(c)
      BY <1>1, <3>1 DEF Locked
    <3> QED
      BY <2>2, <3>1, <3>2 DEF Locked, Inside, Doing
  <2>4. CASE TakeLock(b)
    <3>1. \A c \in Builders : ~Inside(c)
      BY <1>1, <2>4 DEF TakeLock, Locked
    <3> QED
      BY <2>2, <2>4, <3>1 DEF Locked, TakeLock
  <2>5. CASE ~(Refuse(b) \/ Leave(b) \/ TakeLock(b))
    <3>1. UNCHANGED holder
      BY <1>3, <2>5 DEF Turns, Shifts, Scan, Attest, Reuse, Stale, Compile, Found, LockedOut, Check,
                        Fail, KillBuilder, Move, MovePackage, Undo, UndoPackage
    <3>2. Inside(b)' => Inside(b)
      <4>1. CASE Shifts(b)
        BY <4>1 DEF Shifts, Move, MovePackage, Undo, UndoPackage, Inside, Doing
      <4>2. CASE Check(b) \/ Fail(b)
        BY <4>2 DEF Check, Fail, Inside, Doing
      <4>3. CASE Reuse(b) \/ Stale(b) \/ Found(b) \/ LockedOut(b) \/ KillBuilder(b)
        <5>1. task'[b] = None
          BY <1>1, <4>3 DEF Reuse, Stale, Found, LockedOut, KillBuilder, Ending
        <5> QED
          BY <5>1 DEF Inside, Doing
      <4>4. CASE Attest(b) \/ Compile(b)
        <5>1. task[b] \in Task
          BY <1>1, <4>4 DEF Attest, Compile, Doing
        <5>2. task'[b].at \in {"attested", "compiled"}
          BY <1>1, <4>4, <5>1 DEF Attest, Compile, Going, Task
        <5> QED
          BY <5>2 DEF Inside, Doing
      <4>5. CASE \E plan \in plans : Scan(b, plan)
        <5>1. task'[b].at = "scanned"
          BY <1>1, <4>5 DEF Scan
        <5> QED
          BY <5>1 DEF Inside, Doing
      <4> QED
        BY <1>3, <2>5, <4>1, <4>2, <4>3, <4>4, <4>5 DEF Turns
    <3> QED
      BY <1>1, <2>2, <3>1, <3>2 DEF Locked
  <2> QED
    BY <2>3, <2>4, <2>5
<1> QED
  BY <1>2, <1>3, Steps

\* A build that turns keeps the directories; it begins to move where there is
\* nothing of it, and leaves when all of it is there or nothing is.
LEMMA TurnedWhole == ASSUME IInv, NEW b \in Builders, Turns(b) PROVE MovesAreWhole'
<1>1. PICK t \in Task \cup {None} :
        /\ UNCHANGED <<workspace, packages, dirs>> /\ kills' \in Nat /\ kills' >= kills
        /\ task' = [task EXCEPT ![b] = t]
  BY Turned
<1>2. /\ task \in [Builders -> Task \cup {None}] /\ kills \in Nat /\ dirs \subseteq Role \X plans
      /\ MovesAreWhole /\ Typed
  BY DEF IInv, Typed
<1>3. task'[b] = t /\ \A c \in Builders : c # b => task'[c] = task[c]
  BY <1>1, <1>2
<1>4. Unique' /\ InPlace'
  BY <1>1, <1>2 DEF MovesAreWhole, Unique, InPlace
<1>5. ASSUME NEW u, HasMoved(u) PROVE HasMoved(u)'
  BY <1>1, <1>5 DEF HasMoved
<1>6. ASSUME t # None PROVE HasMoved(t)
  <2>1. CASE \E plan \in plans : Scan(b, plan)
    BY <1>2, <1>3, <2>1 DEF Scan, HasMoved
  <2>2. CASE Check(b)
    <3>1. /\ task[b] \in Task /\ task[b].at = "staged" /\ HasMoved(task[b]) /\ ~Taken(task[b].plan)
      BY <1>2, <2>2 DEF Check, Doing, MovesAreWhole
    <3>2. t = [task[b] EXCEPT !.at = "moving"]
      BY <1>2, <1>3, <2>2 DEF Check, Going
    <3>3. t.at = "moving" /\ t.plan = task[b].plan /\ t.moved = 0
      BY <3>1, <3>2 DEF Task, HasMoved
    <3>4. /\ <<"build", t.plan>> \notin dirs /\ <<"validation", t.plan>> \notin dirs
          /\ \A k \in packages : k.plan # t.plan
      BY <3>1, <3>3, RolesOfABuild DEF Taken
    <3> QED
      BY <3>3, <3>4 DEF HasMoved
  <2>3. CASE Fail(b)
    <3>1. /\ task[b] \in Task /\ task[b].at = "moving" /\ HasMoved(task[b])
      BY <1>2, <2>3 DEF Fail, Doing, MovesAreWhole
    <3>2. t = [task[b] EXCEPT !.at = "undoing"]
      BY <1>2, <1>3, <2>3 DEF Fail, Going
    <3>3. t.at = "undoing" /\ t.plan = task[b].plan /\ t.moved = task[b].moved
      BY <3>1, <3>2 DEF Task
    <3> QED
      BY <3>1, <3>3 DEF HasMoved
  <2>4. CASE Attest(b) \/ Compile(b) \/ TakeLock(b)
    <3>1. /\ task[b] \in Task /\ task[b].at \in {"scanned", "attested", "compiled"} /\ HasMoved(task[b])
      BY <1>2, <2>4 DEF Attest, Compile, TakeLock, Doing, MovesAreWhole
    <3>2. PICK at \in {"attested", "compiled", "staged"} : t = [task[b] EXCEPT !.at = at]
      BY <1>2, <1>3, <2>4 DEF Attest, Compile, TakeLock, Going
    <3>3. t.at = at /\ t.moved = task[b].moved
      BY <3>1, <3>2 DEF Task
    <3> QED
      BY <3>1, <3>3 DEF HasMoved
  <2>5. CASE \/ Reuse(b) \/ Stale(b) \/ Found(b) \/ LockedOut(b) \/ Refuse(b) \/ Leave(b)
             \/ KillBuilder(b)
    <3>1. task'[b] = None
      BY <1>2, <2>5 DEF Reuse, Stale, Found, LockedOut, Refuse, Leave, KillBuilder, Ending
    <3> QED
      BY <1>3, <1>6, <3>1
  <2> QED
    BY <2>1, <2>2, <2>3, <2>4, <2>5 DEF Turns
<1>7. \A c \in Builders : task'[c] # None => HasMoved(task[c])'
  <2> SUFFICES ASSUME NEW c \in Builders, task'[c] # None PROVE HasMoved(task[c])'
    OBVIOUS
  <2>1. PICK u : u = task'[c] /\ HasMoved(u)
    BY <1>2, <1>3, <1>6 DEF MovesAreWhole
  <2>2. HasMoved(u)'
    BY <1>5, <2>1
  <2> QED
    BY <2>1, <2>2 DEF HasMoved
<1>8. Moving'
  <2> SUFFICES ASSUME kills' = 0, NEW r \in dirs,
                      ~ \E c \in Builders : /\ task'[c] # None /\ task'[c].plan = r[2]
                                           /\ task'[c].at \in {"moving", "undoing"}
               PROVE  \E k \in packages : k.plan = r[2]
    BY <1>1 DEF Moving
  <2>1. kills = 0
    BY <1>1, <1>2
  <2>2. CASE \E k \in packages : k.plan = r[2]
    BY <2>2
  <2>3. ASSUME NEW c \in Builders, task[c] # None, task[c].plan = r[2], task[c].at \in {"moving", "undoing"}
        PROVE  \E k \in packages : k.plan = r[2]
    <3>1. c = b
      BY <1>3, <2>3
    <3>2. /\ task[b] # None /\ task[b] \in Task /\ HasMoved(task[b])
          /\ task[b].plan = r[2] /\ task[b].at \in {"moving", "undoing"}
      BY <1>2, <2>3, <3>1 DEF MovesAreWhole
    <3>3. CASE Leave(b)
      <4>1. CASE task[b].moved = 3
        BY <3>2, <4>1 DEF HasMoved
      <4>2. CASE task[b].moved = 0
        <5>1. r \in Role \X plans
          BY <1>2
        <5>2. r = <<"build", task[b].plan>> \/ r = <<"validation", task[b].plan>>
          BY <3>2, <5>1 DEF Role
        <5> QED
          BY <3>2, <4>2, <5>2 DEF HasMoved
      <4> QED
        BY <3>3, <4>1, <4>2, RolesOfABuild DEF Leave
    <3>4. CASE Fail(b)
      <4>1. task'[b] = [task[b] EXCEPT !.at = "undoing"]
        BY <1>2, <3>4 DEF Fail, Going
      <4>2. task'[b].at = "undoing" /\ task'[b].plan = r[2] /\ task'[b] # None
        <5>1. task'[b].at = "undoing" /\ task'[b].plan = r[2] /\ task'[b] \in Task
          BY <3>2, <4>1 DEF Task, Stages
        <5>2. task'[b] # None
          BY <1>2, <5>1, TaskIsThere
        <5> QED
          BY <5>1, <5>2
      <4> QED
        BY <4>2
    <3>5. CASE KillBuilder(b)
      BY <1>2, <2>1, <3>5 DEF KillBuilder
    <3>6. CASE ~(Leave(b) \/ Fail(b) \/ KillBuilder(b))
      BY <3>2, <3>6 DEF Turns, Scan, Attest, Reuse, Stale, Compile, Found, TakeLock, LockedOut, Check,
                        Refuse, Doing
    <3> QED
      BY <3>3, <3>4, <3>5, <3>6
  <2> QED
    BY <1>2, <2>1, <2>2, <2>3 DEF MovesAreWhole, Moving
<1> QED
  BY <1>4, <1>7, <1>8 DEF MovesAreWhole

LEMMA ShiftedWhole == ASSUME IInv, NEW b \in Builders, Shifts(b) PROVE MovesAreWhole'
<1>1. PICK n \in 0..3 : /\ task[b] \in Task /\ task[b].at \in {"moving", "undoing"}
                        /\ task' = [task EXCEPT ![b].moved = n]
                        /\ task'[b] = [task[b] EXCEPT !.moved = n]
                        /\ UNCHANGED <<plans, holder, kills, edits, undone>>
  BY Shifted
<1>2. task \in [Builders -> Task \cup {None}] /\ MovesAreWhole /\ Locked /\ Typed
  BY DEF IInv, Typed
<1> DEFINE p == task[b].plan
           m == task[b].moved
<1>3. /\ m \in 0..3 /\ Inside(b) /\ task[b] # None
      /\ <<"build", p>> \in dirs <=> m >= 1
      /\ <<"validation", p>> \in dirs <=> m >= 2
      /\ (\E k \in packages : k.plan = p) <=> m = 3
  <2>1. m \in 0..3
    BY <1>1 DEF Task
  <2>2. Inside(b) /\ task[b] # None
    BY DEF Shifts, Move, MovePackage, Undo, UndoPackage, Inside, Doing
  <2>3. HasMoved(task[b])
    BY <1>2, <2>2 DEF MovesAreWhole
  <2> QED
    BY <1>1, <2>1, <2>2, <2>3 DEF HasMoved
<1>4. ASSUME NEW c \in Builders, c # b, task[c] # None
      PROVE  task'[c] = task[c] /\ task[c].at \notin {"moving", "undoing"} /\ task[c].moved = 0
  <2>1. task'[c] = task[c] /\ ~Inside(c)
    BY <1>1, <1>2, <1>3, <1>4 DEF Locked
  <2>2. task[c].at \notin {"moving", "undoing"} /\ HasMoved(task[c])
    BY <1>2, <1>4, <2>1 DEF Inside, Doing, MovesAreWhole
  <2> QED
    BY <2>1, <2>2 DEF HasMoved
<1>5. \A c \in Builders : c # b => task'[c] = task[c]
  BY <1>1, <1>2
<1>6. /\ task'[b].moved = n /\ task'[b].plan = p /\ task'[b].at \in {"moving", "undoing"} /\ task'[b] # None
  <2>1. task'[b] \in Task /\ task'[b].moved = n /\ task'[b].plan = p /\ task'[b].at = task[b].at
    BY <1>1 DEF Task
  <2> QED
    BY <1>1, <1>2, <2>1, TaskIsThere
\* What is there of the build after the step, and what else there is.
<1> DEFINE Others == /\ \A r : r[2] # p => (r \in dirs' <=> r \in dirs)
                     /\ \A k : k.plan # p => (k \in packages' <=> k \in packages)
           Own == /\ <<"build", p>> \in dirs' <=> n >= 1
                  /\ <<"validation", p>> \in dirs' <=> n >= 2
                  /\ (\E k \in packages' : k.plan = p) <=> n = 3
                  /\ \A k1, k2 \in packages' : k1.plan = p /\ k2.plan = p => k1 = k2
<1> HIDE DEF Own, Others
<1>6a. ASSUME NEW i, task' = [task EXCEPT ![b].moved = i] PROVE task'[b].moved = i
  <2>1. task'[b] = [task[b] EXCEPT !.moved = i]
    BY <1>2, <1>6a
  <2> QED
    BY <1>1, <2>1 DEF Task
<1>7. Own /\ Others
  <2> USE DEF Own, Others
  <2>1. Unique
    BY <1>2 DEF MovesAreWhole
  <2>2. CASE Move(b)
    <3>1. /\ m \in {0, 1} /\ n = m + 1
          /\ dirs' = dirs \cup {<<Roles[m + 1], p>>} /\ packages' = packages
      <4>1. task'[b].moved = m + 1
        BY <1>6a, <2>2 DEF Move
      <4> QED
        BY <1>3, <1>6, <2>2, <4>1, RolesOfABuild DEF Move, Dir
    <3>2. CASE m = 0
      BY <1>3, <2>1, <3>1, <3>2, RolesOfABuild DEF Unique
    <3>3. CASE m = 1
      BY <1>3, <2>1, <3>1, <3>3, RolesOfABuild DEF Unique
    <3> QED
      BY <3>1, <3>2, <3>3
  <2>3. CASE Undo(b)
    <3>1. /\ m \in {1, 2} /\ n = m - 1
          /\ dirs' = dirs \ {<<Roles[m], p>>} /\ packages' = packages
      <4>1. task'[b].moved = m - 1
        BY <1>6a, <2>3 DEF Undo
      <4> QED
        BY <1>3, <1>6, <2>3, <4>1, RolesOfABuild DEF Undo, Dir, workspace
    <3>2. CASE m = 1
      BY <1>3, <2>1, <3>1, <3>2, RolesOfABuild DEF Unique
    <3>3. CASE m = 2
      BY <1>3, <2>1, <3>1, <3>3, RolesOfABuild DEF Unique
    <3> QED
      BY <3>1, <3>2, <3>3
  <2>4. ASSUME NEW x \in PackPlaces, MovePackage(b, x) PROVE Own /\ Others
    <3> DEFINE new == [plan |-> p, docs |-> task[b].docs, at |-> x]
    <3>1. m = 2 /\ n = 3 /\ packages' = packages \cup {new} /\ dirs' = dirs
      <4>1. task'[b].moved = m + 1
        BY <1>6a, <2>4 DEF MovePackage
      <4> QED
        BY <1>3, <1>6, <2>4, <4>1, RolesOfABuild DEF MovePackage
    <3>2. new.plan = p
      OBVIOUS
    <3> HIDE DEF new
    <3> QED
      BY <1>3, <3>1, <3>2
  <2>5. ASSUME NEW k \in packages, k.plan = p, UndoPackage(b), packages' = packages \ {k} PROVE Own /\ Others
    <3>1. m = 3 /\ n = 2 /\ dirs' = dirs
      <4>1. task'[b].moved = m - 1
        BY <1>6a, <2>5 DEF UndoPackage
      <4> QED
        BY <1>3, <1>6, <2>5, <4>1, RolesOfABuild DEF UndoPackage
    <3>2. \A l \in packages : l.plan = p => l = k
      BY <2>1, <2>5 DEF Unique
    <3> QED
      BY <1>3, <2>5, <3>1, <3>2
  <2>6. UndoPackage(b) => \E k \in packages : k.plan = p /\ packages' = packages \ {k}
    BY DEF UndoPackage
  <2> QED
    BY <2>2, <2>3, <2>4, <2>5, <2>6 DEF Shifts
<1> USE DEF Own, Others
<1>8. ASSUME NEW c \in Builders, task'[c] # None PROVE HasMoved(task[c])'
  <2>1. CASE c = b
    BY <1>6, <1>7, <2>1 DEF HasMoved
  <2>2. CASE c # b
    BY <1>4, <1>5, <1>8, <2>2 DEF HasMoved
  <2> QED
    BY <2>1, <2>2
<1>9. Unique'
  BY <1>2, <1>7 DEF MovesAreWhole, Unique
<1>10. InPlace'
  <2> SUFFICES ASSUME NEW k \in packages'
               PROVE  <<"build", k.plan>> \in dirs' /\ <<"validation", k.plan>> \in dirs'
    BY DEF InPlace
  <2>1. CASE k.plan = p
    BY <1>7, <2>1
  <2>2. CASE k.plan # p
    <3>1. <<"build", k.plan>> \in dirs /\ <<"validation", k.plan>> \in dirs
      BY <1>2, <1>7, <2>2 DEF MovesAreWhole, InPlace
    <3>2. <<"build", k.plan>>[2] # p /\ <<"validation", k.plan>>[2] # p
      BY <2>2
    <3> QED
      BY <1>7, <3>1, <3>2
  <2> QED
    BY <2>1, <2>2
<1>11. Moving'
  <2> SUFFICES ASSUME kills' = 0, NEW r \in dirs', r[2] # p
               PROVE  \/ \E k \in packages' : k.plan = r[2]
                      \/ \E c \in Builders : /\ task'[c] # None /\ task'[c].plan = r[2]
                                             /\ task'[c].at \in {"moving", "undoing"}
    BY <1>6 DEF Moving
  <2>1. r \in dirs /\ kills = 0
    BY <1>1, <1>7
  <2>2. ASSUME NEW k \in packages, k.plan = r[2] PROVE k \in packages'
    BY <1>7, <2>2
  <2>3. ASSUME NEW c \in Builders, task[c] # None, task[c].plan = r[2], task[c].at \in {"moving", "undoing"}
        PROVE  task'[c] = task[c]
    BY <1>5, <2>3
  <2> QED
    BY <1>2, <2>1, <2>2, <2>3 DEF MovesAreWhole, Moving
<1> QED
  BY <1>8, <1>9, <1>10, <1>11 DEF MovesAreWhole

LEMMA ApartWhole == ASSUME IInv, Apart PROVE MovesAreWhole'
<1>1. UNCHANGED <<packages, dirs, kills, task>>
  BY DEF Apart, CreatePlan, RemoveLock, Ingest, Edit, bvars, workspace
<1> QED
  BY <1>1 DEF IInv, MovesAreWhole, HasMoved, Unique, InPlace, Moving

LEMMA NextInv == IInv /\ [BNext]_bvars => IInv'
<1> SUFFICES ASSUME IInv, [BNext]_bvars PROVE IInv'
  OBVIOUS
<1>1. ASSUME NEW b \in Builders, Turns(b) \/ Shifts(b) PROVE Truths' /\ MovesAreWhole'
  BY <1>1, TurnedTruths, ShiftedTruths, TurnedWhole, ShiftedWhole
<1>2. Truths' /\ MovesAreWhole'
  BY <1>1, Steps, ApartTruths, ApartWhole
<1> QED
  BY <1>2, LockedInv DEF IInv, Truths

\* The inductive invariant of planning, building and ingesting.
THEOREM BuildInvariant == BSpec => []IInv
BY InitInv, NextInv, PTL DEF BSpec

\* A package is made of what its plan attests, but for what an edit has replaced between
\* the two scans of the build in an authority that is not verified again in the package
\* (semantic_kernel/compiler.py, build).
THEOREM PackagesAreAttested == BSpec => []BuiltAsAttested
BY BuildInvariant, PTL DEF IInv

\* Builders of one plan leave one package; a package that is there has its build and its
\* validation, and what failed leaves nothing (semantic_kernel/transaction.py).
THEOREM BuildsEndWhole == BSpec => []BuildsAreWhole
<1>1. IInv => BuildsAreWhole
  <2> SUFFICES ASSUME IInv PROVE BuildsAreWhole
    OBVIOUS
  <2>1. MovesAreWhole /\ Locked /\ None \notin Builders
    BY BuildAssumption DEF IInv
  <2>2. \A k \in packages : Built(k.plan)
    BY <2>1, RolesOfABuild DEF MovesAreWhole, InPlace, Built
  <2>3. ASSUME kills = 0, holder = None, NEW r \in dirs PROVE \E k \in packages : k.plan = r[2]
    <3>1. ASSUME NEW b \in Builders, task[b] # None, task[b].at \in {"moving", "undoing"} PROVE FALSE
      BY <2>1, <2>3, <3>1 DEF Locked, Inside, Doing
    <3> QED
      BY <2>1, <2>3, <3>1 DEF MovesAreWhole, Moving
  <2> QED
    BY <2>1, <2>2, <2>3 DEF BuildsAreWhole, MovesAreWhole, Unique
<1> QED
  BY <1>1, BuildInvariant, PTL

(***************************************************************************)
(* The shape of the state.                                                 *)
(***************************************************************************)

Bounded ==
  /\ edits =< MaxEdits /\ kills =< MaxKills /\ holder \in Builders \cup {None}
  /\ IsFiniteSet(plans) /\ Cardinality(plans) \in Nat /\ Cardinality(plans) =< MaxPlans

LEMMA InitBounded == BInit => Bounded
BY BuildAssumption, FS_EmptySet DEF BInit, Bounded

LEMMA NextBounded == IInv /\ Bounded /\ [BNext]_bvars => Bounded'
<1> SUFFICES ASSUME IInv, Bounded, [BNext]_bvars PROVE Bounded'
  OBVIOUS
<1>1. CASE CreatePlan
  <2>1. IsFiniteSet(plans') /\ Cardinality(plans') = Cardinality(plans) + 1
    BY <1>1, FS_AddElement DEF CreatePlan, Bounded
  <2> QED
    BY <1>1, <2>1, BuildAssumption DEF CreatePlan, Bounded
<1>2. CASE Apart /\ ~CreatePlan
  BY <1>2, BuildAssumption DEF Apart, RemoveLock, Ingest, Edit, bvars, workspace, Bounded, IInv, Typed, Stored
<1>3. ASSUME NEW b \in Builders, Turns(b) PROVE Bounded'
  <2>1. holder' \in {holder, b, None}
    BY <1>3 DEF Turns, Scan, Attest, Reuse, Stale, Compile, Found, TakeLock, LockedOut, Check, Refuse,
                Fail, Leave, KillBuilder, Going
  <2>2. kills' =< MaxKills
    <3>1. CASE KillBuilder(b)
      BY <3>1, BuildAssumption DEF KillBuilder, IInv, Typed
    <3>2. CASE ~KillBuilder(b)
      BY <1>3, <3>2 DEF Turns, Scan, Attest, Reuse, Stale, Compile, Found, TakeLock, LockedOut, Check,
                        Refuse, Fail, Leave, Going, Ending, Bounded
    <3> QED
      BY <3>1, <3>2
  <2>3. UNCHANGED <<edits, plans>>
    BY <1>3, Turned DEF workspace
  <2> QED
    BY <2>1, <2>2, <2>3 DEF Bounded
<1>4. ASSUME NEW b \in Builders, Shifts(b) PROVE Bounded'
  BY <1>4, Shifted DEF Bounded
<1> QED
  BY <1>1, <1>2, <1>3, <1>4, Steps

\* Every variable keeps its shape (semantic_kernel/compiler.py, transaction.py).
THEOREM BuildTypeOK == BSpec => []TypeOK
<1>1. IInv /\ Bounded => TypeOK
  <2> SUFFICES ASSUME IInv, Bounded PROVE TypeOK
    OBVIOUS
  <2>1. \A d \in Docs : Home[d] \in DOMAIN copies[d] /\ Range(copies[d]) \subseteq 0..edits
    BY DEF IInv, Typed, Stored, Range
  <2>2. \A b \in Builders : task[b] # None => task[b] \in Tasks /\ task[b].plan \in plans
    BY TaskIsThere DEF IInv, Typed, Task
  <2>3. \A k \in packages : k.plan \in plans /\ k.at \in PackPlaces /\ DOMAIN k.docs = Docs
    BY DEF IInv, Typed, Package
  <2> QED
    BY <2>1, <2>2, <2>3, BuildAssumption DEF IInv, Typed, Stored, Bounded, TypeOK
<1> QED
  BY <1>1, InitBounded, NextBounded, BuildInvariant, PTL DEF BSpec

(***************************************************************************)
(* The export of batches (BatchExport).                                    *)
(***************************************************************************)

\* Whoever is in the transaction of the ledger is the one who exports; what it exports can
\* be delivered, and its directory is empty until it is renamed and the batch after that.
Exporting(e) ==
  /\ writer = e
  /\ Deliverable(exp[e].dest, exp[e].files)
  /\ exp[e].at \in {"checked", "reserved"} => batches[exp[e].dest] = Nothing
  /\ exp[e].at \in {"renamed", "written"} => batches[exp[e].dest] = exp[e].files

\* A directory is accounted for by the ledger.
Accounted(d) == \A i \in Members(batches[d]) : ledger[i] = [dest |-> d, digest |-> batches[d][i]]

\* Unless a process was killed, a directory that is not is being exported.
Directories ==
  \A d \in Dest : batches[d] # Nothing =>
    \/ Accounted(d)
    \/ \E e \in Exporter : exp[e] # Nothing /\ exp[e].dest = d /\ exp[e].at \in {"renamed", "written"}

XInv ==
  /\ ETypeOK
  /\ \A e \in Exporter : exp[e] # Nothing => Exporting(e)
  /\ Recorded
  /\ deaths = 0 => Directories

LEMMA ExportInit == EInit => XInv
BY ExportAssumption DEF EInit, XInv, ETypeOK, Recorded, Directories

\* Two directories hold different items: both are accounted for, or the one that is being
\* exported could be delivered.
LEMMA OneDirectory ==
  ASSUME XInv, deaths = 0, NEW i \in Item, NEW c \in Dest, NEW d \in Dest,
         batches[c] # Nothing, batches[c][i] # Nothing, batches[d] # Nothing, batches[d][i] # Nothing
  PROVE  c = d
<1>1. i \in Members(batches[c]) /\ i \in Members(batches[d])
  BY DEF Members
<1>2. ASSUME NEW e \in Exporter, exp[e] # Nothing, exp[e].dest = c, exp[e].at \in {"renamed", "written"}, Accounted(d)
      PROVE  c = d
  <2>1. ledger[i] = [dest |-> d, digest |-> batches[d][i]]
    BY <1>1, <1>2 DEF Accounted
  <2>2. ledger[i] \in {Nothing, [dest |-> c, digest |-> batches[c][i]]}
    BY <1>1, <1>2 DEF XInv, Exporting, Deliverable
  <2>3. ledger[i] # Nothing
    <3>1. batches[d][i] \in Digest
      BY DEF XInv, ETypeOK, Batch
    <3>2. [dest |-> d, digest |-> batches[d][i]] \in Entry
      BY <3>1 DEF Entry
    <3> QED
      BY <2>1, <3>2, ExportAssumption
  <2> QED
    BY <2>1, <2>2, <2>3
<1>3. ASSUME NEW e \in Exporter, exp[e] # Nothing, exp[e].dest = d, exp[e].at \in {"renamed", "written"}, Accounted(c)
      PROVE  c = d
  <2>1. ledger[i] = [dest |-> c, digest |-> batches[c][i]]
    BY <1>1, <1>3 DEF Accounted
  <2>2. ledger[i] \in {Nothing, [dest |-> d, digest |-> batches[d][i]]}
    BY <1>1, <1>3 DEF XInv, Exporting, Deliverable
  <2>3. ledger[i] # Nothing
    <3>1. batches[c][i] \in Digest
      BY DEF XInv, ETypeOK, Batch
    <3>2. [dest |-> c, digest |-> batches[c][i]] \in Entry
      BY <3>1 DEF Entry
    <3> QED
      BY <2>1, <3>2, ExportAssumption
  <2> QED
    BY <2>1, <2>2, <2>3
<1>4. CASE Accounted(c) /\ Accounted(d)
  <2>1. [dest |-> c, digest |-> batches[c][i]] = [dest |-> d, digest |-> batches[d][i]]
    BY <1>1, <1>4 DEF Accounted
  <2> QED
    BY <2>1
<1>5. ASSUME NEW e \in Exporter, exp[e] # Nothing, exp[e].dest = c,
             NEW f \in Exporter, exp[f] # Nothing, exp[f].dest = d
      PROVE  c = d
  BY <1>5 DEF XInv, Exporting
<1> QED
  BY <1>2, <1>3, <1>4, <1>5 DEF XInv, Directories

LEMMA ExportTypes == ASSUME ETypeOK, ENext PROVE ETypeOK'
<1> SUFFICES ASSUME NEW e \in Exporter,
                    \/ \E d \in Dest, files \in Batch : Begin(e, d, files)
                    \/ Lock(e) \/ Rename(e) \/ Unlock(e) \/ Abandon(e) \/ Enter(e) \/ Die(e)
             PROVE  ETypeOK'
  BY DEF ENext
<1>1. ASSUME NEW d \in Dest, NEW files \in Batch, Begin(e, d, files) PROVE ETypeOK'
  <2>1. [at |-> IF batches[d] = Nothing THEN "checked" ELSE "written", dest |-> d, files |-> files] \in Export
    BY DEF Export
  <2> QED
    BY <1>1, <2>1 DEF Begin, ETypeOK
<1>2. ASSUME exp[e] # Nothing, NEW at \in {"reserved", "renamed", "written"}, Go(e, at)
      PROVE  exp' \in [Exporter -> Export \union {Nothing}]
  <2>1. PICK x \in Export : x = exp[e]
    BY <1>2 DEF ETypeOK
  <2>2. [x EXCEPT !.at = at] \in Export
    BY DEF Export
  <2>3. exp' = [exp EXCEPT ![e] = [x EXCEPT !.at = at]]
    BY <1>2, <2>1 DEF Go
  <2> QED
    BY <2>2, <2>3 DEF ETypeOK
<1>3. exp[e] # Nothing => exp[e].dest \in Dest /\ exp[e].files \in Batch /\ exp[e].files \in [Item -> Digest \union {Nothing}]
  BY DEF ETypeOK, Export, Batch
<1>4. CASE Lock(e)
  BY <1>2, <1>3, <1>4 DEF Lock, At, ETypeOK
<1>5. CASE Rename(e)
  BY <1>2, <1>3, <1>5 DEF Rename, At, ETypeOK
<1>6. CASE Unlock(e)
  BY <1>2, <1>3, <1>6 DEF Unlock, At, ETypeOK
<1>7. CASE Abandon(e)
  BY <1>3, <1>7 DEF Abandon, At, ETypeOK
<1>8. CASE Enter(e)
  <2>1. \A i \in Item : i \in Members(exp[e].files) => [dest |-> exp[e].dest, digest |-> exp[e].files[i]] \in Entry
    BY <1>3, <1>8 DEF Enter, At, Members, Entry
  <2>2. ledger' \in [Item -> Entry \union {Nothing}]
    BY <1>8, <2>1 DEF Enter, Entered, ETypeOK
  <2> QED
    BY <1>8, <2>2 DEF Enter, ETypeOK
<1>9. CASE Die(e)
  BY <1>9, ExportAssumption DEF Die, ETypeOK
<1> QED
  BY <1>1, <1>4, <1>5, <1>6, <1>7, <1>8, <1>9

\* Nothing that was delivered is taken back or written over.
LEMMA ExportStep == ASSUME XInv, [ENext]_evars PROVE XInv'
<1>0. CASE UNCHANGED evars
  BY <1>0 DEF XInv, ETypeOK, Exporting, Deliverable, Recorded, Directories, Accounted, Members, evars
<1> SUFFICES ASSUME NEW e \in Exporter,
                    \/ \E d \in Dest, files \in Batch : Begin(e, d, files)
                    \/ Lock(e) \/ Rename(e) \/ Unlock(e) \/ Abandon(e) \/ Enter(e) \/ Die(e)
             PROVE  XInv'
  BY <1>0 DEF ENext
<1> ETypeOK /\ ETypeOK'
  BY ExportTypes DEF ENext, XInv
<1>1. \A f \in Exporter : exp[f] # Nothing => Exporting(f) /\ writer = f
  BY DEF XInv, Exporting
<1>2. \A f \in Exporter : f # Nothing
  BY ExportAssumption
<1>3. \A f \in Exporter : exp[f] # Nothing => exp[f].dest \in Dest /\ exp[f].files \in Batch /\ exp[f] \in Export
  BY DEF ETypeOK, Export
<1>4. ASSUME NEW d \in Dest, NEW files \in Batch, Begin(e, d, files) PROVE XInv'
  <2>1. /\ \A f \in Exporter : exp[f] = Nothing
        /\ exp'[e] = [at |-> IF batches[d] = Nothing THEN "checked" ELSE "written", dest |-> d, files |-> files]
        /\ \A f \in Exporter : f # e => exp'[f] = Nothing
    BY <1>1, <1>2, <1>4 DEF Begin, ETypeOK
  <2>2. Exporting(e)'
    BY <1>4, <2>1 DEF Begin, Exporting, Deliverable, Replayable, Members
  <2>3. Recorded'
    BY <1>4 DEF Begin, Recorded, XInv
  <2>4. (deaths = 0 => Directories)'
    BY <1>4, <2>1 DEF Begin, XInv, Directories, Accounted, Members
  <2> QED
    BY <2>1, <2>2, <2>3, <2>4 DEF XInv
<1>5. ASSUME exp[e] # Nothing, NEW at \in {"reserved", "written"}, Go(e, at),
             at = "reserved" => exp[e].at = "checked", at = "written" => exp[e].at = "renamed",
             UNCHANGED <<batches, ledger, writer, deaths>>
      PROVE  XInv'
  <2>1. PICK x \in Export : x = exp[e]
    BY <1>3, <1>5
  <2>2. exp'[e] = [x EXCEPT !.at = at] /\ \A f \in Exporter : f # e => exp'[f] = exp[f]
    BY <1>5, <2>1 DEF Go, ETypeOK
  <2>3. exp'[e].at = at /\ exp'[e].dest = exp[e].dest /\ exp'[e].files = exp[e].files
    BY <2>1, <2>2 DEF Export
  <2>4. \A f \in Exporter : exp'[f] # Nothing => Exporting(f)'
    <3> SUFFICES ASSUME NEW f \in Exporter, exp'[f] # Nothing PROVE Exporting(f)'
      OBVIOUS
    <3>1. f = e
      BY <1>1, <1>5, <2>2
    <3> QED
      BY <1>1, <1>5, <2>3, <3>1 DEF Exporting, Deliverable, Members
  <2>5. exp'[e] # Nothing
    <3>1. [x EXCEPT !.at = at] \in Export
      BY DEF Export
    <3> QED
      BY <2>2, <3>1, ExportAssumption
  <2>6. (deaths = 0 => Directories)'
    <3> SUFFICES ASSUME deaths = 0, NEW c \in Dest, batches[c] # Nothing
                 PROVE  \/ Accounted(c)
                        \/ \E f \in Exporter : exp'[f] # Nothing /\ exp'[f].dest = c /\ exp'[f].at \in {"renamed", "written"}
      BY <1>5 DEF Directories, Accounted, Members
    <3>1. ASSUME NEW f \in Exporter, exp[f] # Nothing, exp[f].dest = c, exp[f].at \in {"renamed", "written"}
          PROVE  exp'[f] # Nothing /\ exp'[f].dest = c /\ exp'[f].at \in {"renamed", "written"}
      <4>1. CASE f = e
        BY <1>5, <2>3, <2>5, <3>1, <4>1
      <4>2. CASE f # e
        BY <2>2, <3>1, <4>2
      <4> QED
        BY <4>1, <4>2
    <3> QED
      BY <3>1 DEF XInv, Directories
  <2> QED
    BY <1>5, <2>4, <2>6 DEF XInv, Recorded
<1>6. CASE Lock(e)
  BY <1>5, <1>6 DEF Lock, At
<1>7. CASE Unlock(e)
  BY <1>5, <1>7 DEF Unlock, At
<1>8. CASE Rename(e)
  <2>1. PICK x \in Export, d \in Dest : x = exp[e] /\ d = x.dest /\ exp[e] # Nothing /\ x.at = "reserved"
    BY <1>3, <1>8 DEF Rename, At
  <2>2. exp'[e] = [x EXCEPT !.at = "renamed"] /\ \A f \in Exporter : f # e => exp'[f] = exp[f]
    BY <1>8, <2>1 DEF Rename, Go, ETypeOK
  <2>3. exp'[e].at = "renamed" /\ exp'[e].dest = d /\ exp'[e].files = x.files /\ exp'[e] # Nothing
    <3>1. [x EXCEPT !.at = "renamed"] \in Export
      BY DEF Export
    <3> QED
      BY <2>1, <2>2, <3>1, ExportAssumption DEF Export
  <2>4. batches[d] = Nothing /\ batches'[d] = x.files /\ \A c \in Dest : c # d => batches'[c] = batches[c]
    BY <1>1, <1>8, <2>1 DEF Rename, ETypeOK, Exporting
  <2>5. Exporting(e)'
    BY <1>1, <1>8, <2>1, <2>3, <2>4 DEF Rename, Exporting, Deliverable, Members
  <2>6. \A f \in Exporter : exp'[f] # Nothing => Exporting(f)'
    <3> SUFFICES ASSUME NEW f \in Exporter, exp'[f] # Nothing PROVE Exporting(f)'
      OBVIOUS
    <3>1. f = e
      BY <1>1, <2>1, <2>2
    <3> QED
      BY <2>5, <3>1
  <2>7. Recorded'
    <3> SUFFICES ASSUME NEW i \in Item, ledger[i] # Nothing
                 PROVE  batches'[ledger[i].dest] # Nothing /\ batches'[ledger[i].dest][i] = ledger[i].digest
      BY <1>8 DEF Rename, Recorded
    <3>1. ledger[i].dest \in Dest /\ batches[ledger[i].dest] # Nothing /\ batches[ledger[i].dest][i] = ledger[i].digest
      BY DEF XInv, Recorded, ETypeOK, Entry
    <3> QED
      BY <2>4, <3>1
  <2>8. (deaths = 0 => Directories)'
    <3> SUFFICES ASSUME deaths = 0, NEW c \in Dest, batches'[c] # Nothing
                 PROVE  \/ Accounted(c)'
                        \/ \E f \in Exporter : exp'[f] # Nothing /\ exp'[f].dest = c /\ exp'[f].at \in {"renamed", "written"}
      BY <1>8 DEF Rename, Directories
    <3>1. CASE c = d
      BY <2>3, <3>1
    <3>2. CASE c # d
      <4>1. batches'[c] = batches[c] /\ ledger' = ledger
        BY <1>8, <2>4, <3>2 DEF Rename
      <4>2. Accounted(c)
        BY <1>1, <2>1, <3>2, <4>1 DEF XInv, Directories
      <4> QED
        BY <4>1, <4>2 DEF Accounted, Members
    <3> QED
      BY <3>1, <3>2
  <2> QED
    BY <2>6, <2>7, <2>8 DEF XInv
<1>9. ASSUME Abandon(e) \/ Die(e) PROVE XInv'
  <2>1. exp[e] # Nothing /\ \A f \in Exporter : exp'[f] = Nothing
    BY <1>1, <1>9 DEF Abandon, Die, At, ETypeOK
  <2>2. Recorded' /\ UNCHANGED <<batches, ledger>>
    BY <1>9 DEF Abandon, Die, Recorded, XInv
  <2>3. (deaths = 0 => Directories)'
    <3> SUFFICES ASSUME deaths' = 0, NEW c \in Dest, batches[c] # Nothing PROVE Accounted(c)
      BY <2>2 DEF Directories, Accounted, Members
    <3>1. Abandon(e) /\ deaths = 0
      BY <1>9, ExportAssumption DEF Die, Abandon, ETypeOK
    <3>2. exp[e].at \in {"checked", "reserved"}
      BY <3>1 DEF Abandon, At
    <3> QED
      BY <1>1, <2>1, <3>1, <3>2 DEF XInv, Directories
  <2> QED
    BY <2>1, <2>2, <2>3 DEF XInv
<1>10. CASE Enter(e)
  <2>1. PICK x \in Export, d \in Dest : x = exp[e] /\ d = x.dest /\ exp[e] # Nothing /\ x.at = "written" /\ x.files \in Batch
    BY <1>3, <1>10 DEF Enter, At
  <2>2. \A f \in Exporter : exp'[f] = Nothing
    BY <1>1, <1>10, <2>1 DEF Enter, ETypeOK
  <2>3. batches' = batches /\ batches[d] = x.files /\ batches[d] # Nothing /\ Deliverable(d, x.files)
    BY <1>1, <1>10, <2>1, ExportAssumption DEF Enter, Exporting
  <2>4. \A i \in Item : ledger'[i] = IF i \in Members(x.files) /\ ledger[i] = Nothing
                                     THEN [dest |-> d, digest |-> x.files[i]] ELSE ledger[i]
    BY <1>10, <2>1 DEF Enter, Entered
  <2>5. \A i \in Members(x.files) : ledger'[i] = [dest |-> d, digest |-> x.files[i]]
    BY <2>3, <2>4 DEF Deliverable, Members
  <2>6. Recorded'
    <3> SUFFICES ASSUME NEW i \in Item, ledger'[i] # Nothing
                 PROVE  batches[ledger'[i].dest] # Nothing /\ batches[ledger'[i].dest][i] = ledger'[i].digest
      BY <2>3 DEF Recorded
    <3>1. CASE i \in Members(x.files)
      <4>0. ledger'[i] = [dest |-> d, digest |-> x.files[i]]
        BY <2>5, <3>1, Zenon
      <4>1. ledger'[i].dest = d /\ ledger'[i].digest = x.files[i]
        BY <4>0
      <4> QED
        BY <2>3, <4>1
    <3>2. CASE i \notin Members(x.files)
      BY <2>4, <3>2 DEF XInv, Recorded
    <3> QED
      BY <3>1, <3>2
  <2>7. (deaths = 0 => Directories)'
    <3> SUFFICES ASSUME deaths = 0, NEW c \in Dest, batches[c] # Nothing
                 PROVE  \A i \in Members(batches[c]) : ledger'[i] = [dest |-> c, digest |-> batches[c][i]]
      BY <1>10, <2>3 DEF Enter, Directories, Accounted, Members
    <3>1. CASE c = d
      BY <2>3, <2>5, <3>1
    <3>2. CASE c # d
      <4>1. Accounted(c)
        BY <1>1, <2>1, <3>2 DEF XInv, Directories
      <4>2. \A i \in Members(batches[c]) : [dest |-> c, digest |-> batches[c][i]] # Nothing
        <5> SUFFICES ASSUME NEW i \in Item, batches[c][i] # Nothing PROVE [dest |-> c, digest |-> batches[c][i]] \in Entry
          BY ExportAssumption DEF Members
        <5> QED
          BY DEF ETypeOK, Batch, Entry
      <4> QED
        BY <2>4, <4>1, <4>2 DEF Accounted, Members
    <3> QED
      BY <3>1, <3>2
  <2> QED
    BY <2>2, <2>6, <2>7 DEF XInv
<1> QED
  BY <1>4, <1>6, <1>7, <1>8, <1>9, <1>10

LEMMA ExportSafe == ASSUME XInv PROVE LedgerIsTrue
<1>1. ASSUME deaths = 0 PROVE OneDestination
  <2> SUFFICES ASSUME NEW i \in Item PROVE Cardinality({d \in Dest : batches[d] # Nothing /\ batches[d][i] # Nothing}) =< 1
    BY DEF OneDestination
  <2>1. PICK S : S = {d \in Dest : batches[d] # Nothing /\ batches[d][i] # Nothing}
    OBVIOUS
  <2>2. \A c, d \in S : c = d
    BY <1>1, <2>1, OneDirectory
  <2>3. S = {} \/ \E d : S = {d}
    BY <2>2
  <2>4. Cardinality(S) =< 1
    <3>1. CASE S = {}
      BY <3>1, FS_EmptySet
    <3>2. ASSUME NEW d, S = {d} PROVE Cardinality(S) = 1
      BY <3>2, FS_Singleton
    <3> QED
      BY <2>3, <3>1, <3>2
  <2> QED
    BY <2>1, <2>4
<1>2. ASSUME deaths = 0, writer = Nothing, NEW d \in Dest, batches[d] # Nothing PROVE Accounted(d)
  BY <1>2, ExportAssumption DEF XInv, Exporting, Directories
<1> QED
  BY <1>1, <1>2 DEF LedgerIsTrue, XInv, EveryDirectoryKnown, Accounted

\* The ledger says truly what each directory holds, whoever is killed; as long as nobody is,
\* an item is delivered to one directory and the ledger knows every directory of a finished
\* export (modeling/delivery/evolution.py, export_batch).
THEOREM DeliveriesAreInTheLedger == ESpec => []LedgerIsTrue
BY ExportInit, ExportStep, ExportSafe, PTL DEF ESpec

(***************************************************************************)
(* The steps of a job: what an attempt has written, call by call.          *)
(***************************************************************************)


Kinds == Tools \cup {"model", "operation"}
Outcomes == {"COMMITTED", "COMMIT_REQUIRES_RECONCILIATION", "CANCELLED", "FAILED_NOT_COMMITTED"}
Event == [phase : {"BEFORE", "AFTER"}, kind : Kinds, call : Nat,
          status : {"STARTED", "SUCCEEDED", "FAILED", "RUNNING"} \cup Outcomes]
Frame == [kind : Kinds, call : Nat, record : Nat]
Process == [phase : {"none", "running", "returned", "closing", "reporting", "done", "dead"},
            stack : Seq(Frame), raising : {"none", "error", "refused"}]
Note == [call : Nat, status : {"RUNNING", "SUCCEEDED", "FAILED"}]

EndsIn(L, i) == {j \in DOMAIN L : L[j].phase = "AFTER" /\ L[j].call = i}
StartsIn(L, kinds) == {i \in DOMAIN L : L[i].phase = "BEFORE" /\ L[i].kind \in kinds}

\* The stack, the events and the records of an attempt without a failed write.
Opened(S, L, R) ==
  /\ \A i \in 1..Len(S) :
       /\ S[i].call \in 1..Len(L) /\ L[S[i].call] = Before(S[i].kind, S[i].call) /\ EndsIn(L, S[i].call) = {}
       /\ S[i].kind \in Tools => S[i].record \in 1..Len(R) /\ R[S[i].record].call = S[i].call
       /\ (i = 1) = (S[i].kind = "operation")
  /\ \A i, j \in 1..Len(S) : i < j => S[i].call < S[j].call
\* Every begun call has its event at its own place, and has ended unless it is on the stack;
\* it ended once, and after every call begun in it.
Told(S, L) ==
  /\ \A i \in DOMAIN L : L[i].phase = "BEFORE" =>
       L[i].call = i /\ (EndsIn(L, i) = {} => \E k \in 1..Len(S) : S[k].call = i)
  /\ \A j, l \in DOMAIN L : L[j].phase = "AFTER" /\ L[l].phase = "AFTER" /\ L[j].call = L[l].call => j = l
  /\ \A i, k \in StartsIn(L, Tools \cup {"model"}) : \A j \in EndsIn(L, i) : i < k /\ k < j => \E l \in EndsIn(L, k) : l < j
\* The records are those of the tool calls, with the status their last event says.
Listed(L, R) ==
  /\ \A r \in 1..Len(R) : R[r].call \in StartsIn(L, Tools)
  /\ \A r, t \in 1..Len(R) : R[r].call = R[t].call => r = t
  /\ \A i \in StartsIn(L, Tools) : \E r \in 1..Len(R) : R[r].call = i /\ \A j \in EndsIn(L, i) : R[r].status = L[j].status
Clean(S, L, R) == Opened(S, L, R) /\ Told(S, L) /\ Listed(L, R)

\* The types of what an attempt holds and has written.
Shaped(a) ==
  /\ run[a] \in Process
  /\ log[a] \in Seq(Event) /\ \A i \in 1..Len(log[a]) : log[a][i].call \in 1..i
  /\ records[a] \in Seq(Note) /\ \A i \in 1..Len(records[a]) : records[a][i].call \in 0..Len(log[a])
  /\ trace[a] \in [open : SUBSET Nat, missing : BOOLEAN, end : {"none", "result", "nothing"}]
  /\ \A i \in 1..Len(run[a].stack) :
       /\ run[a].stack[i].call \in 1..Len(log[a])
       /\ run[a].stack[i].kind \in Tools => run[a].stack[i].record \in 1..Len(records[a])
\* What the phase of the process says of the attempt, and who committed.
Phased(a) ==
  /\ a > job.attempt =>
       run[a].phase = "none" /\ run[a].raising = "none" /\ records[a] = <<>> /\ log[a] = <<>> /\ ~trace[a].missing
  /\ run[a].phase = "running" => Len(run[a].stack) >= 1
  /\ run[a].phase = "returned" => Len(run[a].stack) = 1 /\ commit.by = a
  /\ run[a].phase \in {"none", "closing", "reporting", "done"} => Len(run[a].stack) = 0
  /\ commit.by = a => run[a].phase \notin {"none", "running"} /\ Len(run[a].stack) <= 1
\* The outcome is told once the operation has returned, and is true of the commit.
Spoken(a) ==
  /\ \A j \in 1..Len(log[a]) :
       /\ log[a][j].status \in Outcomes => run[a].phase \notin {"none", "running", "returned"}
       /\ log[a][j].status = "COMMITTED" => commit.by = a
       /\ log[a][j].status \in {"FAILED_NOT_COMMITTED", "CANCELLED"} => commit.by # a
  /\ trace[a].end # "none" => run[a].phase \notin {"none", "running", "returned", "closing"}
\* While no write failed.
Faultless(a) ==
  faults = 0 =>
    /\ Clean(run[a].stack, log[a], records[a]) /\ ~trace[a].missing
    /\ run[a].phase = "returned" => run[a].raising = "none"
    /\ run[a].phase = "closing" => ((run[a].raising = "none") = (commit.by = a))
    /\ trace[a].end # "none" => ((trace[a].end = "result") = (commit.by = a))
\* The job, and the one commit.
Shared ==
  /\ job \in [attempt: 0..MaxAttempts, status: {"queued", "running", "cancelling", "cancelled", "failed", "succeeded"}]
  /\ DOMAIN run = Attempts /\ DOMAIN log = Attempts /\ DOMAIN records = Attempts /\ DOMAIN trace = Attempts
  /\ commit.by \in 0..job.attempt
  /\ commit.by = 0 => commit.anchor = 0
  /\ commit.by # 0 => commit.records = records[commit.by] /\ commit.anchor \in 1..Len(log[commit.by])
  /\ commit.by # 0 => run[job.attempt].phase # "running"
  /\ begun \in 0..MaxCalls /\ faults \in 0..MaxFaults
Whole(a) == Shaped(a) /\ Phased(a) /\ Spoken(a) /\ Faultless(a)
AuditInv == Shared /\ \A a \in Attempts : Whole(a)

\* Sequences, one element longer or shorter.
LEMMA PushIs ==
  ASSUME NEW T, NEW s \in Seq(T), NEW x \in T, NEW n, n = Len(s)
  PROVE  /\ n \in Nat /\ Append(s, x) \in Seq(T) /\ Len(Append(s, x)) = n + 1
         /\ Append(s, x)[n + 1] = x /\ \A i \in 1..n : Append(s, x)[i] = s[i] /\ s[i] \in T
         /\ DOMAIN s = 1..n /\ DOMAIN Append(s, x) = 1..n + 1
         /\ 1..n + 1 = 1..n \cup {n + 1} /\ n + 1 \notin 1..n
<1>1. n \in Nat
  OBVIOUS
<1>2. 1..n + 1 = 1..n \cup {n + 1} /\ n + 1 \notin 1..n
  BY <1>1
<1> QED
  BY <1>1, <1>2

LEMMA FrontOf ==
  ASSUME NEW T, NEW s \in Seq(T), NEW n, n = Len(s), n >= 1, NEW f, f = Front(s)
  PROVE  /\ n \in Nat /\ f \in Seq(T) /\ Len(f) = n - 1 /\ \A i \in 1..n - 1 : f[i] = s[i]
         /\ Last(s) = s[n] /\ s[n] \in T
         /\ 1..n = 1..n - 1 \cup {n} /\ n \in 1..n /\ n \notin 1..n - 1 /\ 1..n - 1 \subseteq 1..n
<1>1. n \in Nat /\ \A i \in 1..n : s[i] \in T
  OBVIOUS
<1>2. f = SubSeq(s, 1, n - 1) /\ Last(s) = s[n]
  BY DEF Front, Last
<1>3. f \in Seq(T) /\ Len(f) = n - 1 /\ \A i \in 1..n - 1 : f[i] = s[i]
  BY <1>1, <1>2, SubSeqProperties
<1>4. 1..n = 1..n - 1 \cup {n} /\ n \in 1..n /\ n \notin 1..n - 1 /\ 1..n - 1 \subseteq 1..n
  BY <1>1
<1> QED
  BY <1>1, <1>2, <1>3, <1>4

\* A call begins: it is on the stack, in the events and, a tool, in the records.
LEMMA PushClean ==
  ASSUME NEW S \in Seq(Frame), NEW L \in Seq(Event), NEW R \in Seq(Note), Clean(S, L, R),
         Len(S) >= 1, \A i \in 1..Len(L) : L[i].call \in 1..i,
         NEW kind \in Kinds \ {"operation"}, NEW call, call = Len(L) + 1,
         NEW frame, frame = [kind |-> kind, call |-> call, record |-> Len(R) + 1],
         NEW R2, R2 = IF kind \in Tools THEN Append(R, [call |-> call, status |-> "RUNNING"]) ELSE R
  PROVE  Clean(Append(S, frame), Append(L, Before(kind, call)), R2)
<1>1. PICK m, d, n : m = Len(L) /\ d = Len(S) /\ n = Len(R)
  OBVIOUS
<1>2. PICK L2, S2 : L2 = Append(L, Before(kind, call)) /\ S2 = Append(S, frame)
  OBVIOUS
<1>3. m \in Nat /\ call = m + 1 /\ call \in Nat /\ n \in Nat /\ n + 1 \in Nat /\ d >= 1 /\ d \in Nat
  BY <1>1
<1>4. Before(kind, call) \in Event /\ Before(kind, call).phase = "BEFORE" /\ Before(kind, call).kind = kind /\ Before(kind, call).call = call
  BY <1>3 DEF Before, Event
<1>5. frame \in Frame /\ frame.kind = kind /\ frame.call = call /\ frame.record = n + 1
  BY <1>1, <1>3 DEF Frame
<1>6. /\ Len(L2) = m + 1 /\ L2[call] = Before(kind, call) /\ \A i \in 1..m : L2[i] = L[i] /\ L[i] \in Event
      /\ DOMAIN L = 1..m /\ DOMAIN L2 = 1..m + 1 /\ 1..m + 1 = 1..m \cup {call} /\ call \notin 1..m
  BY <1>1, <1>2, <1>3, <1>4, PushIs
<1>7. /\ Len(S2) = d + 1 /\ S2[d + 1] = frame /\ \A i \in 1..d : S2[i] = S[i] /\ S[i] \in Frame
      /\ 1..d + 1 = 1..d \cup {d + 1} /\ d + 1 \notin 1..d
  BY <1>1, <1>2, <1>5, PushIs
<1>8. \A i \in 1..m : EndsIn(L2, i) = EndsIn(L, i)
  BY <1>4, <1>6 DEF EndsIn
<1>9. EndsIn(L2, call) = {}
  <2> SUFFICES ASSUME NEW j \in 1..m, L[j].call = call PROVE FALSE
    BY <1>4, <1>6 DEF EndsIn
  <2>1. L[j].call \in 1..j
    BY <1>1
  <2> QED
    BY <1>3, <2>1
<1>10. \A ks : StartsIn(L2, ks) = StartsIn(L, ks) \cup (IF kind \in ks THEN {call} ELSE {})
  BY <1>4, <1>6 DEF StartsIn
<1>11. Opened(S, L, R) /\ Told(S, L) /\ Listed(L, R)
  BY DEF Clean
<1>12. kind \in Tools => /\ Len(R2) = n + 1 /\ R2[n + 1] = [call |-> call, status |-> "RUNNING"]
                         /\ \A r \in 1..n : R2[r] = R[r]
                         /\ 1..n + 1 = 1..n \cup {n + 1} /\ n + 1 \notin 1..n
  <2>1. [call |-> call, status |-> "RUNNING"] \in Note
    BY <1>3 DEF Note
  <2> QED
    BY <1>1, <2>1, PushIs
<1>13. kind \notin Tools => R2 = R
  OBVIOUS
<1>14. \A r \in 1..n : r \in 1..Len(R2) /\ R2[r] = R[r]
  BY <1>1, <1>3, <1>12, <1>13
<1>15. Opened(S2, L2, R2)
  <2>1. ASSUME NEW i \in 1..d
        PROVE  /\ S2[i].call \in 1..m + 1 /\ L2[S2[i].call] = Before(S2[i].kind, S2[i].call)
               /\ EndsIn(L2, S2[i].call) = {}
               /\ S2[i].kind \in Tools => S2[i].record \in 1..Len(R2) /\ R2[S2[i].record].call = S2[i].call
               /\ (i = 1) = (S2[i].kind = "operation")
               /\ S2[i].call \in 1..m
    <3>1. /\ S[i].call \in 1..m /\ L[S[i].call] = Before(S[i].kind, S[i].call) /\ EndsIn(L, S[i].call) = {}
          /\ S[i].kind \in Tools => S[i].record \in 1..n /\ R[S[i].record].call = S[i].call
          /\ (i = 1) = (S[i].kind = "operation")
      BY <1>1, <1>11 DEF Opened
    <3> QED
      BY <1>6, <1>7, <1>8, <1>14, <3>1, SMTT(40)
  <2>2. /\ S2[d + 1].call \in 1..m + 1 /\ L2[S2[d + 1].call] = Before(S2[d + 1].kind, S2[d + 1].call)
        /\ EndsIn(L2, S2[d + 1].call) = {}
        /\ (d + 1 = 1) = (S2[d + 1].kind = "operation")
    BY <1>3, <1>5, <1>6, <1>7, <1>9
  <2>3. S2[d + 1].kind \in Tools => S2[d + 1].record \in 1..Len(R2) /\ R2[S2[d + 1].record].call = S2[d + 1].call
    BY <1>3, <1>5, <1>7, <1>12
  <2>4. ASSUME NEW i \in 1..d + 1, NEW j \in 1..d + 1, i < j PROVE S2[i].call < S2[j].call
    <3>1. i \in 1..d
      BY <1>3, <2>4
    <3>2. CASE j \in 1..d
      BY <1>1, <1>7, <1>11, <2>4, <3>1, <3>2 DEF Opened
    <3>3. CASE j = d + 1
      <4>1. S2[i].call \in 1..m /\ S2[j].call = m + 1
        BY <1>3, <1>5, <1>7, <2>1, <3>1, <3>3
      <4> QED
        BY <1>3, <4>1
    <3> QED
      BY <1>7, <3>2, <3>3
  <2> QED
    BY <1>6, <1>7, <2>1, <2>2, <2>3, <2>4, ZenonT(40) DEF Opened
<1>16. Told(S2, L2)
  <2>1. ASSUME NEW i \in 1..m + 1, L2[i].phase = "BEFORE"
        PROVE  L2[i].call = i /\ (EndsIn(L2, i) = {} => \E k \in 1..d + 1 : S2[k].call = i)
    <3>1. CASE i = call
      BY <1>3, <1>4, <1>5, <1>6, <1>7, <3>1
    <3>2. CASE i \in 1..m
      <4>1. L[i].call = i /\ (EndsIn(L, i) = {} => \E k \in 1..d : S[k].call = i)
        BY <1>1, <1>6, <1>11, <2>1, <3>2 DEF Told
      <4> QED
        BY <1>6, <1>7, <1>8, <3>2, <4>1
    <3> QED
      BY <1>6, <3>1, <3>2
  <2>2. ASSUME NEW j \in 1..m + 1, NEW l \in 1..m + 1, L2[j].phase = "AFTER", L2[l].phase = "AFTER", L2[j].call = L2[l].call
        PROVE  j = l
    <3>1. j \in 1..m /\ l \in 1..m
      BY <1>4, <1>6, <2>2
    <3> QED
      BY <1>6, <1>11, <2>2, <3>1 DEF Told
  <2>3. ASSUME NEW i \in StartsIn(L2, Tools \cup {"model"}), NEW k \in StartsIn(L2, Tools \cup {"model"}),
               NEW j \in EndsIn(L2, i), i < k, k < j
        PROVE  \E l \in EndsIn(L2, k) : l < j
    <3>1. j \in 1..m
      BY <1>4, <1>6 DEF EndsIn
    <3>2. i \in 1..m + 1 /\ k \in 1..m + 1
      BY <1>6 DEF StartsIn
    <3>3. i \in 1..m /\ k \in 1..m
      BY <1>3, <2>3, <3>1, <3>2
    <3>4. i \in StartsIn(L, Tools \cup {"model"}) /\ k \in StartsIn(L, Tools \cup {"model"})
      BY <1>6, <3>3 DEF StartsIn
    <3>5. j \in EndsIn(L, i)
      BY <1>8, <3>3
    <3> QED
      BY <1>8, <1>11, <2>3, <3>3, <3>4, <3>5 DEF Told
  <2> QED
    BY <1>6, <1>7, <2>1, <2>2, <2>3 DEF Told
<1>17. Listed(L2, R2)
  <2>1. CASE kind \notin Tools
    <3>1. StartsIn(L2, Tools) = StartsIn(L, Tools) /\ StartsIn(L, Tools) \subseteq 1..m
      BY <1>6, <1>10, <2>1 DEF StartsIn
    <3>2. \A i \in 1..m : \A j \in EndsIn(L2, i) : j \in EndsIn(L, i) /\ L2[j] = L[j]
      BY <1>6, <1>8 DEF EndsIn
    <3>3. \A r \in 1..n : R[r].call \in StartsIn(L, Tools)
      BY <1>1, <1>11 DEF Listed
    <3>4. \A r, t \in 1..n : R[r].call = R[t].call => r = t
      BY <1>1, <1>11 DEF Listed
    <3>5. \A i \in StartsIn(L, Tools) : \E r \in 1..n : R[r].call = i /\ \A j \in EndsIn(L, i) : R[r].status = L[j].status
      BY <1>1, <1>11 DEF Listed
    <3>6. ASSUME NEW i \in StartsIn(L, Tools)
          PROVE  \E r \in 1..n : R[r].call = i /\ \A j \in EndsIn(L2, i) : R[r].status = L2[j].status
      <4>1. i \in 1..m
        BY <3>1
      <4>2. PICK r \in 1..n : R[r].call = i /\ \A j \in EndsIn(L, i) : R[r].status = L[j].status
        BY <3>5
      <4>3. \A j \in EndsIn(L2, i) : R[r].status = L2[j].status
        BY <3>2, <4>1, <4>2
      <4> QED
        BY <4>2, <4>3
    <3> QED
      BY <1>1, <1>13, <2>1, <3>1, <3>3, <3>4, <3>6 DEF Listed
  <2>2. CASE kind \in Tools
    <3>1. StartsIn(L2, Tools) = StartsIn(L, Tools) \cup {call} /\ StartsIn(L, Tools) \subseteq 1..m
      BY <1>6, <1>10, <2>2 DEF StartsIn
    <3>2. /\ \A r \in 1..n : R[r].call \in StartsIn(L, Tools)
          /\ \A r, t \in 1..n : R[r].call = R[t].call => r = t
          /\ \A i \in StartsIn(L, Tools) : \E r \in 1..n : R[r].call = i /\ \A j \in EndsIn(L, i) : R[r].status = L[j].status
      BY <1>1, <1>11 DEF Listed
    <3>6. /\ Len(R2) = n + 1 /\ R2[n + 1].call = call /\ \A r \in 1..n : R2[r] = R[r]
          /\ 1..n + 1 = 1..n \cup {n + 1} /\ n + 1 \notin 1..n
      <4>1. PICK note : note = [call |-> call, status |-> "RUNNING"]
        OBVIOUS
      <4>2. note.call = call
        BY <4>1
      <4>3. /\ Len(R2) = n + 1 /\ R2[n + 1] = note /\ \A r \in 1..n : R2[r] = R[r]
            /\ 1..n + 1 = 1..n \cup {n + 1} /\ n + 1 \notin 1..n
        BY <1>12, <2>2, <4>1
      <4> QED
        BY <4>2, <4>3
    <3>3. \A r \in 1..n + 1 : R2[r].call \in StartsIn(L2, Tools)
      BY <3>1, <3>2, <3>6
    <3>4. \A r, t \in 1..n + 1 : R2[r].call = R2[t].call => r = t
      <4>1. \A r \in 1..n : R2[r].call \in 1..m /\ R2[r].call # call
        BY <1>6, <3>1, <3>2, <3>6, ZenonT(40)
      <4> QED
        BY <3>2, <3>6, <4>1
    <3>5. ASSUME NEW i \in StartsIn(L2, Tools)
          PROVE  \E r \in 1..n + 1 : R2[r].call = i /\ \A j \in EndsIn(L2, i) : R2[r].status = L2[j].status
      <4>1. CASE i = call
        BY <1>9, <3>6, <4>1
      <4>2. CASE i # call
        <5>1. i \in StartsIn(L, Tools) /\ i \in 1..m
          BY <3>1, <4>2
        <5>2. PICK r \in 1..n : R[r].call = i /\ \A j \in EndsIn(L, i) : R[r].status = L[j].status
          BY <3>2, <5>1
        <5>3. \A j \in EndsIn(L2, i) : j \in EndsIn(L, i) /\ L2[j] = L[j]
          BY <1>6, <1>8, <5>1 DEF EndsIn
        <5>4. r \in 1..n + 1 /\ R2[r] = R[r]
          BY <3>6
        <5>5. \A j \in EndsIn(L2, i) : R2[r].status = L2[j].status
          BY <5>2, <5>3, <5>4
        <5>6. R2[r].call = i
          BY <5>2, <5>4
        <5> QED
          BY <5>4, <5>5, <5>6
      <4> QED
        BY <4>1, <4>2
    <3> QED
      BY <3>3, <3>4, <3>5, <3>6 DEF Listed
  <2> QED
    BY <2>1, <2>2
<1> QED
  BY <1>2, <1>15, <1>16, <1>17 DEF Clean

\* The innermost call ends: its event is told, and its record closed.
LEMMA PopClean ==
  ASSUME NEW S \in Seq(Frame), NEW L \in Seq(Event), NEW R \in Seq(Note), Clean(S, L, R),
         Len(S) >= 1, \A i \in 1..Len(L) : L[i].call \in 1..i,
         NEW top, top = Last(S),
         NEW status \in {"SUCCEEDED", "FAILED"} \cup Outcomes, top.kind \in Tools => status \in {"SUCCEEDED", "FAILED"},
         NEW R2, R2 = IF top.kind \in Tools THEN [R EXCEPT ![top.record].status = status] ELSE R
  PROVE  Clean(Front(S), Append(L, After(top, status)), R2)
<1>1. PICK m, d, n : m = Len(L) /\ d = Len(S) /\ n = Len(R)
  OBVIOUS
<1>2. PICK L2, S2, event, call, next :
        /\ event = After(top, status) /\ L2 = Append(L, event) /\ S2 = Front(S) /\ call = top.call /\ next = m + 1
  OBVIOUS
<1>3. /\ d \in Nat /\ S2 \in Seq(Frame) /\ Len(S2) = d - 1 /\ \A i \in 1..d - 1 : S2[i] = S[i]
      /\ top = S[d] /\ top \in Frame
      /\ 1..d = 1..d - 1 \cup {d} /\ d \in 1..d /\ d \notin 1..d - 1 /\ 1..d - 1 \subseteq 1..d
  BY <1>1, <1>2, FrontOf
<1>4. Opened(S, L, R) /\ Told(S, L) /\ Listed(L, R)
  BY DEF Clean
<1>5. m \in Nat /\ n \in Nat /\ next \in Nat
  BY <1>1, <1>2
<1>6. /\ event \in Event /\ event.phase = "AFTER" /\ event.call = call /\ event.status = status /\ call \in Nat
  BY <1>2, <1>3 DEF After, Event, Frame
<1>7. /\ Len(L2) = next /\ L2[next] = event /\ \A i \in 1..m : L2[i] = L[i] /\ L[i] \in Event
      /\ DOMAIN L = 1..m /\ DOMAIN L2 = 1..next /\ 1..next = 1..m \cup {next} /\ next \notin 1..m
  BY <1>1, <1>2, <1>6, PushIs
<1>8. call \in 1..m /\ L[call] = Before(top.kind, call) /\ EndsIn(L, call) = {}
  <2>1. \A i \in 1..d : S[i].call \in 1..m /\ L[S[i].call] = Before(S[i].kind, S[i].call) /\ EndsIn(L, S[i].call) = {}
    BY <1>1, <1>4 DEF Opened
  <2>2. call = S[d].call /\ top.kind = S[d].kind
    BY <1>2, <1>3
  <2> QED
    BY <1>3, <2>1, <2>2
<1>9. \A i : EndsIn(L2, i) = EndsIn(L, i) \cup (IF i = call THEN {next} ELSE {})
  BY <1>6, <1>7 DEF EndsIn
<1>10. \A ks : StartsIn(L2, ks) = StartsIn(L, ks) /\ StartsIn(L, ks) \subseteq 1..m
  BY <1>6, <1>7 DEF StartsIn
<1>11. \A i \in 1..d : S[i].call \in Nat /\ (i # d => S[i].call < call)
  <2>1. \A i \in 1..d : S[i].call \in Nat
    BY <1>1, <1>4, <1>5 DEF Opened
  <2>2. \A i \in 1..d : i # d => i < d
    BY <1>3
  <2> QED
    BY <1>1, <1>2, <1>3, <1>4, <2>1, <2>2 DEF Opened
<1>12. top.kind \in Tools => top.record \in 1..n /\ R[top.record].call = call
  BY <1>1, <1>2, <1>3, <1>4 DEF Opened
<1>13. /\ Len(R2) = n
       /\ \A r \in 1..n : R2[r].call = R[r].call
       /\ \A r \in 1..n : ~(top.kind \in Tools /\ r = top.record) => R2[r].status = R[r].status
       /\ top.kind \in Tools => R2[top.record].status = status
  <2>1. CASE top.kind \in Tools
    <3>1. PICK note : note = [R[top.record] EXCEPT !.status = status]
      OBVIOUS
    <3>2. R2 = [R EXCEPT ![top.record] = note]
      BY <2>1, <3>1
    <3>3. R[top.record] \in Note
      BY <1>1, <1>12, <2>1
    <3>4. note \in Note /\ note.call = R[top.record].call /\ note.status = status
      BY <2>1, <3>1, <3>3 DEF Note
    <3>5. Len(R2) = n /\ \A r \in 1..n : R2[r] = IF r = top.record THEN note ELSE R[r]
      BY <1>1, <1>12, <2>1, <3>2
    <3> QED
      BY <1>12, <2>1, <3>4, <3>5
  <2>2. CASE top.kind \notin Tools
    BY <1>1, <2>2
  <2> QED
    BY <2>1, <2>2
<1>14. Opened(S2, L2, R2)
  <2>1. ASSUME NEW i \in 1..d - 1
        PROVE  /\ S2[i].call \in 1..next /\ L2[S2[i].call] = Before(S2[i].kind, S2[i].call)
               /\ EndsIn(L2, S2[i].call) = {}
               /\ S2[i].kind \in Tools => S2[i].record \in 1..n /\ R2[S2[i].record].call = S2[i].call
               /\ (i = 1) = (S2[i].kind = "operation")
    <3>1. i \in 1..d /\ i # d /\ S2[i] = S[i]
      BY <1>3
    <3>2. /\ S[i].call \in 1..m /\ L[S[i].call] = Before(S[i].kind, S[i].call) /\ EndsIn(L, S[i].call) = {}
          /\ S[i].kind \in Tools => S[i].record \in 1..n /\ R[S[i].record].call = S[i].call
          /\ (i = 1) = (S[i].kind = "operation")
      BY <1>1, <1>4, <3>1 DEF Opened
    <3>3. S[i].call # call
      BY <1>5, <1>8, <1>11, <3>1
    <3>4. EndsIn(L2, S[i].call) = {}
      BY <1>9, <3>2, <3>3
    <3> QED
      BY <1>7, <1>13, <3>1, <3>2, <3>4
  <2>2. ASSUME NEW i \in 1..d - 1, NEW j \in 1..d - 1, i < j PROVE S2[i].call < S2[j].call
    BY <1>1, <1>3, <1>4, <2>2 DEF Opened
  <2> QED
    BY <1>3, <1>7, <1>13, <2>1, <2>2 DEF Opened
<1>15. Told(S2, L2)
  <2>1. ASSUME NEW i \in 1..next, L2[i].phase = "BEFORE"
        PROVE  L2[i].call = i /\ (EndsIn(L2, i) = {} => \E k \in 1..d - 1 : S2[k].call = i)
    <3>1. i \in 1..m /\ L2[i] = L[i]
      BY <1>6, <1>7, <2>1
    <3>2. L[i].call = i /\ (EndsIn(L, i) = {} => \E k \in 1..d : S[k].call = i)
      BY <1>1, <1>4, <1>7, <2>1, <3>1 DEF Told
    <3>3. ASSUME EndsIn(L2, i) = {} PROVE \E k \in 1..d - 1 : S2[k].call = i
      <4>1. EndsIn(L, i) = {} /\ i # call
        BY <1>9, <3>3
      <4>2. PICK k \in 1..d : S[k].call = i
        BY <3>2, <4>1
      <4>3. k # d
        BY <1>2, <1>3, <4>1, <4>2
      <4> QED
        BY <1>3, <4>2, <4>3
    <3> QED
      BY <3>1, <3>2, <3>3
  <2>2. ASSUME NEW j \in 1..next, NEW l \in 1..next, L2[j].phase = "AFTER", L2[l].phase = "AFTER", L2[j].call = L2[l].call
        PROVE  j = l
    <3>1. CASE j \in 1..m /\ l \in 1..m
      BY <1>4, <1>7, <2>2, <3>1 DEF Told
    <3>2. CASE j = next /\ l \in 1..m
      <4>1. l \in EndsIn(L, call)
        BY <1>6, <1>7, <2>2, <3>2 DEF EndsIn
      <4> QED
        BY <1>8, <4>1
    <3>3. CASE l = next /\ j \in 1..m
      <4>1. j \in EndsIn(L, call)
        BY <1>6, <1>7, <2>2, <3>3 DEF EndsIn
      <4> QED
        BY <1>8, <4>1
    <3> QED
      BY <1>7, <3>1, <3>2, <3>3
  <2>3. ASSUME NEW i \in StartsIn(L2, Tools \cup {"model"}), NEW k \in StartsIn(L2, Tools \cup {"model"}),
               NEW j \in EndsIn(L2, i), i < k, k < j
        PROVE  \E l \in EndsIn(L2, k) : l < j
    <3>1. /\ i \in StartsIn(L, Tools \cup {"model"}) /\ k \in StartsIn(L, Tools \cup {"model"})
          /\ i \in 1..m /\ k \in 1..m /\ L[k].phase = "BEFORE"
      <4>1. i \in StartsIn(L, Tools \cup {"model"}) /\ k \in StartsIn(L, Tools \cup {"model"})
        BY <1>10
      <4> QED
        BY <1>7, <4>1 DEF StartsIn
    <3>2. CASE j \in EndsIn(L, i)
      <4>1. PICK l \in EndsIn(L, k) : l < j
        BY <1>4, <2>3, <3>1, <3>2 DEF Told
      <4> QED
        BY <1>9, <4>1
    <3>3. CASE j = next /\ i = call
      <4>1. EndsIn(L, k) # {}
        <5> SUFFICES ASSUME EndsIn(L, k) = {} PROVE FALSE
          OBVIOUS
        <5>1. PICK q \in 1..d : S[q].call = k
          BY <1>1, <1>4, <1>7, <3>1 DEF Told
        <5>2. q # d => k < call
          BY <1>11, <5>1
        <5>3. q = d => k = call
          BY <1>2, <1>3, <5>1
        <5>4. k \in Nat /\ call \in Nat /\ call < k
          BY <1>5, <1>6, <2>3, <3>1, <3>3
        <5> QED
          BY <5>2, <5>3, <5>4
      <4>2. PICK l \in EndsIn(L, k) : TRUE
        BY <4>1
      <4>3. l \in 1..m /\ l \in EndsIn(L2, k)
        BY <1>7, <1>9, <4>2 DEF EndsIn
      <4>4. l < j
        BY <1>2, <1>5, <3>3, <4>3
      <4> QED
        BY <4>3, <4>4
    <3> QED
      BY <1>9, <3>2, <3>3
  <2> QED
    BY <1>3, <1>7, <2>1, <2>2, <2>3 DEF Told
<1>16. Listed(L2, R2)
  <2>1. /\ \A r \in 1..n : R[r].call \in StartsIn(L, Tools)
        /\ \A r, t \in 1..n : R[r].call = R[t].call => r = t
        /\ \A i \in StartsIn(L, Tools) : \E r \in 1..n : R[r].call = i /\ \A j \in EndsIn(L, i) : R[r].status = L[j].status
    BY <1>1, <1>4 DEF Listed
  <2>2. \A r \in 1..n : R2[r].call \in StartsIn(L2, Tools)
    BY <1>10, <1>13, <2>1
  <2>3. \A r, t \in 1..n : R2[r].call = R2[t].call => r = t
    BY <1>13, <2>1
  <2>4. ASSUME NEW i \in StartsIn(L2, Tools)
        PROVE  \E r \in 1..n : R2[r].call = i /\ \A j \in EndsIn(L2, i) : R2[r].status = L2[j].status
    <3>1. i \in StartsIn(L, Tools) /\ i \in 1..m
      BY <1>10
    <3>2. PICK r \in 1..n : R[r].call = i /\ \A j \in EndsIn(L, i) : R[r].status = L[j].status
      BY <2>1, <3>1
    <3>3. R2[r].call = i
      BY <1>13, <3>2
    <3>4. CASE i = call
      <4>1. top.kind \in Tools
        BY <1>8, <3>1, <3>4 DEF StartsIn, Before
      <4>2. r = top.record
        BY <1>12, <2>1, <3>2, <3>4, <4>1
      <4>3. \A j \in EndsIn(L2, i) : j = next
        BY <1>8, <1>9, <3>4
      <4>4. \A j \in EndsIn(L2, i) : R2[r].status = L2[j].status
        BY <1>6, <1>7, <1>13, <4>1, <4>2, <4>3
      <4> QED
        BY <3>3, <4>4
    <3>5. CASE i # call
      <4>1. R2[r].status = R[r].status
        BY <1>12, <1>13, <3>2, <3>5
      <4>2. \A j \in EndsIn(L2, i) : j \in EndsIn(L, i) /\ j \in 1..m
        BY <1>7, <1>9, <3>5 DEF EndsIn
      <4>3. \A j \in EndsIn(L2, i) : R2[r].status = L2[j].status
        BY <1>7, <3>2, <4>1, <4>2
      <4> QED
        BY <3>3, <4>3
    <3> QED
      BY <3>4, <3>5
  <2> QED
    BY <1>13, <2>2, <2>3, <2>4 DEF Listed
<1> QED
  BY <1>2, <1>14, <1>15, <1>16 DEF Clean

\* There is a record of every tool call that was begun, and no other.
LEMMA ListedCount ==
  ASSUME NEW L \in Seq(Event), NEW R \in Seq(Note), Listed(L, R)
  PROVE  Cardinality(StartsIn(L, Tools)) = Len(R)
<1>1. PICK n : n = Len(R)
  OBVIOUS
<1>2. PICK starts : starts = StartsIn(L, Tools)
  OBVIOUS
<1>3. PICK f : f = [r \in 1..n |-> R[r].call]
  OBVIOUS
<1>4. n \in Nat /\ IsFiniteSet(1..n) /\ Cardinality(1..n) = n
  <2>1. n \in Nat /\ 1 \in Int /\ n \in Int
    BY <1>1
  <2>2. IsFiniteSet(1..n) /\ Cardinality(1..n) = IF 1 > n THEN 0 ELSE n - 1 + 1
    BY <2>1, FS_Interval
  <2> QED
    BY <2>1, <2>2
<1>5. f \in Bijection(1..n, starts)
  <2>1. f \in [1..n -> starts]
    BY <1>1, <1>2, <1>3 DEF Listed
  <2>2. \A r, t \in 1..n : f[r] = f[t] => r = t
    BY <1>1, <1>3 DEF Listed
  <2>3. \A i \in starts : \E r \in 1..n : f[r] = i
    BY <1>1, <1>2, <1>3 DEF Listed
  <2> QED
    BY <2>1, <2>2, <2>3 DEF Bijection, Injection, Surjection, IsInjective
<1>6. Cardinality(starts) = n
  BY <1>4, <1>5, FS_Bijection DEF ExistsBijection
<1> QED
  BY <1>1, <1>2, <1>6

\* An attempt nothing happens to: what is said of it depends on the job and the commit only
\* by whether it was claimed and whether it is the one that committed.
LEMMA RestKeeps ==
  ASSUME NEW b \in Attempts, Whole(b),
         run'[b] = run[b], log'[b] = log[b], records'[b] = records[b], trace'[b] = trace[b],
         (commit'.by = b) <=> (commit.by = b), b > job'.attempt => b > job.attempt,
         faults' = 0 => faults = 0
  PROVE  Whole(b)'
<1>1. Shaped(b)'
  BY DEF Whole, Shaped
<1>2. Phased(b)'
  BY DEF Whole, Phased
<1>3. Spoken(b)'
  BY DEF Whole, Spoken
<1>4. Faultless(b)'
  BY DEF Whole, Faultless
<1> QED
  BY <1>1, <1>2, <1>3, <1>4 DEF Whole

Statuses == {"queued", "running", "cancelling", "cancelled", "failed", "succeeded"}

Others(a) == /\ DOMAIN run' = Attempts /\ DOMAIN log' = Attempts /\ DOMAIN records' = Attempts /\ DOMAIN trace' = Attempts
             /\ \A b \in Attempts \ {a} :
                  run'[b] = run[b] /\ log'[b] = log[b] /\ records'[b] = records[b] /\ trace'[b] = trace[b]

\* A step of one attempt that does not commit.
LEMMA OneMoves ==
  ASSUME AuditInv, NEW a \in Attempts, Whole(a)', Others(a), UNCHANGED commit,
         job'.attempt = job.attempt, job' \in [attempt : 0..MaxAttempts, status : Statuses],
         faults' \in 0..MaxFaults, faults' = 0 => faults = 0, begun' \in 0..MaxCalls,
         run'[a].phase = "running" => run[a].phase = "running",
         commit.by = a => records'[a] = records[a] /\ \E t \in Nat : Len(log'[a]) = Len(log[a]) + t
  PROVE  AuditInv'
<1>1. Shared /\ \A b \in Attempts : Whole(b)
  BY DEF AuditInv
<1>2. \A b \in Attempts \ {a} : Whole(b)'
  BY <1>1, RestKeeps DEF Others
<1>3. Shared'
  <2>1. commit.by # 0 => commit.by \in Attempts /\ job.attempt \in Attempts
    BY <1>1, AuditAssumption DEF Shared, Attempts
  <2>2. ASSUME commit.by # 0
        PROVE  commit.records = records'[commit.by] /\ commit.anchor \in 1..Len(log'[commit.by]) /\ run'[job.attempt].phase # "running"
    <3>1. commit.records = records[commit.by] /\ commit.anchor \in 1..Len(log[commit.by]) /\ run[job.attempt].phase # "running"
      BY <1>1, <2>2 DEF Shared
    <3>2. run'[job.attempt].phase # "running"
      BY <2>1, <2>2, <3>1 DEF Others
    <3>3. CASE commit.by # a
      BY <2>1, <2>2, <3>1, <3>2, <3>3 DEF Others
    <3>4. CASE commit.by = a
      <4>1. Len(log[a]) \in Nat
        BY <1>1 DEF Whole, Shaped
      <4>2. PICK t \in Nat : Len(log'[a]) = Len(log[a]) + t
        BY <3>4
      <4>3. commit.anchor \in 1..Len(log'[a])
        BY <3>1, <3>4, <4>1, <4>2
      <4> QED
        BY <3>1, <3>2, <3>4, <4>3
    <3> QED
      BY <3>3, <3>4
  <2>3. job' \in [attempt: 0..MaxAttempts, status: {"queued", "running", "cancelling", "cancelled", "failed", "succeeded"}]
    BY DEF Statuses
  <2>4. commit'.by \in 0..job'.attempt /\ (commit'.by = 0 => commit'.anchor = 0)
    BY <1>1 DEF Shared
  <2> QED
    BY <2>2, <2>3, <2>4 DEF Shared, Others
<1> QED
  BY <1>2, <1>3 DEF AuditInv

\* A failed write is counted.
LEMMA FaultIs ==
  ASSUME AuditInv, NEW kind, Fault(kind)
  PROVE  faults' \in 0..MaxFaults /\ faults' # 0
BY AuditAssumption DEF AuditInv, Shared, Fault

\* The shape of an attempt that runs, and of any.
LEMMA RunningIs ==
  ASSUME AuditInv, NEW a \in Attempts, run[a].phase = "running"
  PROVE  /\ Whole(a) /\ run[a] \in Process /\ Len(run[a].stack) >= 1 /\ commit.by # a /\ ~(a > job.attempt)
         /\ trace[a].end = "none" /\ \A j \in 1..Len(log[a]) : log[a][j].status \notin Outcomes
         /\ Len(log[a]) \in Nat /\ Len(records[a]) \in Nat /\ Len(run[a].stack) \in Nat
         /\ job \in [attempt : 0..MaxAttempts, status : Statuses] /\ begun \in 0..MaxCalls /\ faults \in 0..MaxFaults
         /\ DOMAIN run = Attempts /\ DOMAIN log = Attempts /\ DOMAIN records = Attempts /\ DOMAIN trace = Attempts
<1>1. Whole(a) /\ Shared
  BY DEF AuditInv
<1>2. run[a] \in Process /\ Len(run[a].stack) \in Nat /\ Len(log[a]) \in Nat /\ Len(records[a]) \in Nat
  BY <1>1 DEF Whole, Shaped, Process
<1>3. Len(run[a].stack) >= 1 /\ commit.by # a /\ ~(a > job.attempt)
  BY <1>1 DEF Whole, Phased
<1>4. trace[a].end = "none" /\ \A j \in 1..Len(log[a]) : log[a][j].status \notin Outcomes
  BY <1>1 DEF Whole, Spoken
<1>5. /\ job \in [attempt : 0..MaxAttempts, status : Statuses] /\ begun \in 0..MaxCalls /\ faults \in 0..MaxFaults
      /\ DOMAIN run = Attempts /\ DOMAIN log = Attempts /\ DOMAIN records = Attempts /\ DOMAIN trace = Attempts
  BY <1>1 DEF Shared, Statuses
<1> QED
  BY <1>1, <1>2, <1>3, <1>4, <1>5

\* An attempt that goes on running.
LEMMA RunsOn ==
  ASSUME NEW a \in Attempts, Shaped(a)', run'[a].phase = "running", Len(run'[a].stack) >= 1,
         commit'.by # a, ~(a > job'.attempt), trace'[a].end = "none",
         \A j \in 1..Len(log'[a]) : log'[a][j].status \notin Outcomes,
         faults' = 0 => Clean(run'[a].stack, log'[a], records'[a]) /\ ~trace'[a].missing
  PROVE  Whole(a)'
<1>1. Phased(a)'
  BY DEF Phased
<1>2. Spoken(a)'
  BY DEF Spoken, Outcomes
<1>3. Faultless(a)'
  BY DEF Faultless
<1> QED
  BY <1>1, <1>2, <1>3 DEF Whole

LEMMA BeginKeeps == ASSUME AuditInv, NEW a \in Attempts, NEW kind \in Tools \cup {"model"}, BeginCall(a, kind) PROVE AuditInv'
<1>1. /\ run[a].phase = "running" /\ run[a].raising = "none" /\ begun < MaxCalls /\ begun' = begun + 1
      /\ UNCHANGED <<job, commit>>
  BY DEF BeginCall
<1>2. /\ Whole(a) /\ run[a] \in Process /\ Len(run[a].stack) >= 1 /\ commit.by # a /\ ~(a > job.attempt)
      /\ trace[a].end = "none" /\ \A j \in 1..Len(log[a]) : log[a][j].status \notin Outcomes
      /\ Len(log[a]) \in Nat /\ Len(records[a]) \in Nat /\ Len(run[a].stack) \in Nat
      /\ job \in [attempt : 0..MaxAttempts, status : Statuses] /\ begun \in 0..MaxCalls /\ faults \in 0..MaxFaults
      /\ DOMAIN run = Attempts /\ DOMAIN log = Attempts /\ DOMAIN records = Attempts /\ DOMAIN trace = Attempts
  BY <1>1, RunningIs
<1>3. PICK n, m, d, call, R, L, S :
        /\ n = Len(records[a]) /\ m = Len(log[a]) /\ d = Len(run[a].stack) /\ call = m + 1
        /\ R = records[a] /\ L = log[a] /\ S = run[a].stack
  OBVIOUS
<1>4. n \in Nat /\ m \in Nat /\ d \in Nat /\ call \in Nat /\ d >= 1
  BY <1>2, <1>3
<1>5. /\ L \in Seq(Event) /\ R \in Seq(Note) /\ S \in Seq(Frame)
      /\ \A i \in 1..m : L[i].call \in 1..i
      /\ \A i \in 1..n : R[i].call \in 0..m
      /\ trace[a] \in [open : SUBSET Nat, missing : BOOLEAN, end : {"none", "result", "nothing"}]
      /\ \A i \in 1..d : S[i].call \in 1..m /\ (S[i].kind \in Tools => S[i].record \in 1..n)
  BY <1>2, <1>3 DEF Whole, Shaped, Process
<1>6. begun' \in 0..MaxCalls
  BY <1>1, <1>2, AuditAssumption
<1>7. kind \in Kinds \ {"operation"}
  BY DEF Kinds, Tools
<1>8. Before(kind, call) \in Event /\ Before(kind, call).call = call /\ Before(kind, call).status = "STARTED"
  BY <1>4, <1>7 DEF Before, Event
<1>9. PICK failing : failing = [run EXCEPT ![a].raising = Seen(kind, "error")]
  OBVIOUS
<1>10. /\ failing[a] \in Process /\ failing[a].phase = "running" /\ failing[a].stack = S
       /\ DOMAIN failing = Attempts /\ \A b \in Attempts \ {a} : failing[b] = run[b]
  <2>1. Seen(kind, "error") \in {"none", "error", "refused"}
    BY DEF Seen
  <2>2. PICK error : error = Seen(kind, "error")
    OBVIOUS
  <2>3. failing[a] = [run[a] EXCEPT !.raising = error]
    BY <1>2, <1>9, <2>2
  <2>4. failing[a] \in Process /\ failing[a].phase = "running" /\ failing[a].stack = S
    BY <1>1, <1>2, <1>3, <2>1, <2>2, <2>3 DEF Process
  <2> QED
    BY <1>2, <1>9, <2>4
<1>11. ASSUME NEW c \in {0, call}, NEW s \in {"RUNNING", "FAILED"}, NewRecord(a, kind, c, s)
       PROVE  /\ DOMAIN records' = Attempts /\ \A b \in Attempts \ {a} : records'[b] = records[b]
              /\ records'[a] = IF kind \in Tools THEN Append(R, [call |-> c, status |-> s]) ELSE R
              /\ records'[a] \in Seq(Note) /\ Len(records'[a]) \in {n, n + 1}
              /\ kind \in Tools => Len(records'[a]) = n + 1
              /\ \A i \in 1..Len(records'[a]) : records'[a][i].call \in 0..call
  <2>1. CASE kind \in Tools
    <3>1. PICK note : note = [call |-> c, status |-> s]
      OBVIOUS
    <3>2. note \in Note /\ note.call = c
      BY <1>4, <3>1 DEF Note
    <3>3. records' = [records EXCEPT ![a] = Append(@, note)]
      BY <1>11, <2>1, <3>1 DEF NewRecord
    <3>4. DOMAIN records' = Attempts /\ records'[a] = Append(R, note) /\ \A b \in Attempts \ {a} : records'[b] = records[b]
      BY <1>2, <1>3, <3>3
    <3>5. PICK R2 : R2 = records'[a]
      OBVIOUS
    <3>6. /\ R2 \in Seq(Note) /\ Len(R2) = n + 1 /\ R2[n + 1] = note /\ \A i \in 1..n : R2[i] = R[i]
          /\ 1..n + 1 = 1..n \cup {n + 1}
      BY <1>3, <1>5, <3>2, <3>4, <3>5, PushIs
    <3>7. \A i \in 1..n + 1 : R2[i].call \in 0..call
      <4>1. 0..m \subseteq 0..call /\ c \in 0..call
        BY <1>3, <1>4
      <4> QED
        BY <1>5, <3>2, <3>6, <4>1
    <3> QED
      BY <2>1, <3>1, <3>4, <3>5, <3>6, <3>7
  <2>2. CASE kind \notin Tools
    <3>1. records' = records
      BY <1>11, <2>2 DEF NewRecord
    <3>2. 0..m \subseteq 0..call
      BY <1>3, <1>4
    <3> QED
      BY <1>2, <1>3, <1>5, <2>2, <3>1, <3>2
  <2> QED
    BY <2>1, <2>2
<1>12. PICK frame : frame = [kind |-> kind, call |-> call, record |-> n + 1]
  OBVIOUS
<1>13. frame \in Frame /\ frame.kind = kind /\ frame.call = call /\ frame.record = n + 1
  BY <1>4, <1>7, <1>12 DEF Frame
<1>14. CASE /\ log' = [log EXCEPT ![a] = Append(@, Before(kind, call))]
            /\ NewRecord(a, kind, call, "RUNNING")
            /\ trace' = [trace EXCEPT ![a].open = IF Traced THEN @ \cup {call} ELSE @]
            /\ run' = [run EXCEPT ![a].stack = Append(@, [kind |-> kind, call |-> call, record |-> Len(records[a]) + 1])]
            /\ UNCHANGED faults
  <2>1. log'[a] = Append(L, Before(kind, call)) /\ DOMAIN log' = Attempts /\ \A b \in Attempts \ {a} : log'[b] = log[b]
    BY <1>2, <1>3, <1>14
  <2>2. run'[a] = [run[a] EXCEPT !.stack = Append(S, frame)] /\ DOMAIN run' = Attempts /\ \A b \in Attempts \ {a} : run'[b] = run[b]
    BY <1>2, <1>3, <1>12, <1>14
  <2>3. /\ DOMAIN trace' = Attempts /\ \A b \in Attempts \ {a} : trace'[b] = trace[b]
        /\ trace'[a] \in [open : SUBSET Nat, missing : BOOLEAN, end : {"none", "result", "nothing"}]
        /\ trace'[a].missing = trace[a].missing /\ trace'[a].end = "none"
    <3>1. PICK open : open = IF Traced THEN trace[a].open \cup {call} ELSE trace[a].open
      OBVIOUS
    <3>2. trace' = [trace EXCEPT ![a].open = open]
      BY <1>14, <3>1
    <3>3. open \in SUBSET Nat
      BY <1>4, <1>5, <3>1
    <3> QED
      BY <1>2, <1>5, <3>2, <3>3
  <2>4. /\ DOMAIN records' = Attempts /\ \A b \in Attempts \ {a} : records'[b] = records[b]
        /\ records'[a] = IF kind \in Tools THEN Append(R, [call |-> call, status |-> "RUNNING"]) ELSE R
        /\ records'[a] \in Seq(Note) /\ Len(records'[a]) \in {n, n + 1}
        /\ kind \in Tools => Len(records'[a]) = n + 1
        /\ \A i \in 1..Len(records'[a]) : records'[a][i].call \in 0..call
    BY <1>11, <1>14
  <2>5. PICK L2, S2 : L2 = log'[a] /\ S2 = Append(S, frame)
    OBVIOUS
  <2>6. /\ L2 \in Seq(Event) /\ Len(L2) = call /\ L2[call] = Before(kind, call) /\ \A i \in 1..m : L2[i] = L[i]
        /\ 1..call = 1..m \cup {call}
    BY <1>3, <1>5, <1>8, <2>1, <2>5, PushIs
  <2>7. /\ S2 \in Seq(Frame) /\ Len(S2) = d + 1 /\ S2[d + 1] = frame /\ \A i \in 1..d : S2[i] = S[i]
        /\ 1..d + 1 = 1..d \cup {d + 1}
    BY <1>3, <1>5, <1>13, <2>5, PushIs, SMTT(40)
  <2>8. run'[a] \in Process /\ run'[a].phase = "running" /\ run'[a].stack = S2 /\ run'[a].raising = "none"
    BY <1>1, <1>2, <2>2, <2>5, <2>7 DEF Process
  <2>9. Shaped(a)'
    <3>1. \A i \in 1..Len(L2) : L2[i].call \in 1..i
      BY <1>3, <1>4, <1>5, <1>8, <2>6
    <3>2. \A i \in 1..d + 1 : S2[i].call \in 1..call
      <4>1. 1..m \subseteq 1..call /\ call \in 1..call
        BY <1>3, <1>4
      <4> QED
        BY <1>5, <1>13, <2>7, <4>1
    <3>3. \A i \in 1..d + 1 : S2[i].kind \in Tools => S2[i].record \in 1..Len(records'[a])
      <4>1. 1..n \subseteq 1..Len(records'[a]) /\ (kind \in Tools => n + 1 \in 1..Len(records'[a]))
        BY <1>4, <2>4
      <4> QED
        BY <1>5, <1>13, <2>7, <4>1
    <3> QED
      BY <2>3, <2>4, <2>5, <2>6, <2>7, <2>8, <3>1, <3>2, <3>3 DEF Shaped
  <2>10. \A j \in 1..Len(log'[a]) : log'[a][j].status \notin Outcomes
    BY <1>2, <1>3, <1>8, <2>5, <2>6 DEF Outcomes
  <2>11. faults' = 0 => Clean(run'[a].stack, log'[a], records'[a]) /\ ~trace'[a].missing
    <3> SUFFICES ASSUME faults = 0 PROVE Clean(S2, Append(L, Before(kind, call)), records'[a]) /\ ~trace[a].missing
      BY <1>14, <2>1, <2>3, <2>8
    <3>1. Clean(S, L, R) /\ ~trace[a].missing
      BY <1>2, <1>3 DEF Whole, Faultless
    <3>2. \A i \in 1..Len(L) : L[i].call \in 1..i
      BY <1>3, <1>5
    <3>3. frame = [kind |-> kind, call |-> call, record |-> Len(R) + 1] /\ call = Len(L) + 1 /\ Len(S) >= 1
      BY <1>3, <1>4, <1>12
    <3> QED
      BY <1>5, <1>7, <2>4, <2>5, <3>1, <3>2, <3>3, PushClean
  <2>12. Whole(a)'
    BY <1>1, <1>2, <1>4, <2>3, <2>7, <2>8, <2>9, <2>10, <2>11, RunsOn, SMTT(40)
  <2> QED
    BY <1>1, <1>2, <1>6, <1>14, <2>1, <2>2, <2>3, <2>4, <2>12, OneMoves DEF Others
<1>15. CASE /\ Fault("audit")
            /\ NewRecord(a, kind, 0, "FAILED") /\ run' = failing
            /\ UNCHANGED <<log, trace>>
  <2>1. faults' \in 0..MaxFaults /\ faults' # 0
    BY <1>15, FaultIs
  <2>2. /\ DOMAIN records' = Attempts /\ \A b \in Attempts \ {a} : records'[b] = records[b]
        /\ records'[a] \in Seq(Note) /\ Len(records'[a]) \in {n, n + 1}
    BY <1>11, <1>15
  <2>3. \A i \in 1..Len(records'[a]) : records'[a][i].call \in 0..m
    <3>1. CASE kind \notin Tools
      BY <1>5, <1>11, <1>15, <3>1, <1>3
    <3>2. CASE kind \in Tools
      <4>1. PICK note : note = [call |-> 0, status |-> "FAILED"]
        OBVIOUS
      <4>2. note \in Note /\ note.call = 0
        BY <4>1 DEF Note
      <4>3. records'[a] = Append(R, note)
        BY <1>11, <1>15, <3>2, <4>1
      <4>4. /\ Len(Append(R, note)) = n + 1 /\ Append(R, note)[n + 1] = note /\ \A i \in 1..n : Append(R, note)[i] = R[i]
            /\ 1..n + 1 = 1..n \cup {n + 1}
        BY <1>3, <1>5, <4>2, PushIs
      <4>5. 0 \in 0..m
        BY <1>4
      <4> QED
        BY <1>5, <4>2, <4>3, <4>4, <4>5
    <3> QED
      BY <3>1, <3>2
  <2>4. Shaped(a)'
    <3>1. 1..n \subseteq 1..Len(records'[a])
      BY <1>4, <2>2
    <3>2. \A i \in 1..d : S[i].call \in 1..m /\ (S[i].kind \in Tools => S[i].record \in 1..Len(records'[a]))
      BY <1>5, <3>1
    <3> QED
      BY <1>3, <1>5, <1>10, <1>15, <2>2, <2>3, <3>2 DEF Shaped
  <2>5. Whole(a)'
    BY <1>1, <1>2, <1>3, <1>4, <1>10, <1>15, <2>1, <2>4, RunsOn
  <2> QED
    BY <1>1, <1>2, <1>6, <1>10, <1>15, <2>1, <2>2, <2>5, OneMoves DEF Others
<1>16. CASE /\ Traced /\ Fault("journal")
            /\ log' = [log EXCEPT ![a] = @ \o <<Before(kind, call), After([kind |-> kind, call |-> call], "FAILED")>>]
            /\ NewRecord(a, kind, call, "FAILED")
            /\ trace' = [trace EXCEPT ![a].missing = TRUE] /\ run' = failing
  <2>1. faults' \in 0..MaxFaults /\ faults' # 0
    BY <1>16, FaultIs
  <2>2. /\ DOMAIN records' = Attempts /\ \A b \in Attempts \ {a} : records'[b] = records[b]
        /\ records'[a] \in Seq(Note) /\ Len(records'[a]) \in {n, n + 1}
        /\ \A i \in 1..Len(records'[a]) : records'[a][i].call \in 0..call
    BY <1>11, <1>16
  <2>3. PICK event : event = After([kind |-> kind, call |-> call], "FAILED")
    OBVIOUS
  <2>4. event \in Event /\ event.call = call /\ event.status = "FAILED"
    BY <1>4, <1>7, <2>3 DEF After, Event
  <2>5. PICK L2 : L2 = log'[a]
    OBVIOUS
  <2>6. L2 = L \o <<Before(kind, call), event>> /\ DOMAIN log' = Attempts /\ \A b \in Attempts \ {a} : log'[b] = log[b]
    BY <1>2, <1>3, <1>16, <2>3, <2>5
  <2>7. /\ L2 \in Seq(Event) /\ Len(L2) = m + 2 /\ \A i \in 1..m : L2[i] = L[i]
        /\ L2[m + 1] = Before(kind, call) /\ L2[m + 2] = event /\ 1..m + 2 = 1..m \cup {m + 1, m + 2}
    <3>1. PICK first : first = Before(kind, call)
      OBVIOUS
    <3>2. L2 = L \o <<first, event>> /\ first \in Event
      BY <1>8, <2>6, <3>1
    <3>3. <<first, event>> \in Seq(Event) /\ Len(<<first, event>>) = 2
      BY <2>4, <3>2
    <3>4. L2 \in Seq(Event) /\ Len(L2) = m + 2
      BY <1>3, <1>4, <1>5, <3>2, <3>3
    <3>5. \A i \in 1..m : L2[i] = L[i]
      BY <1>3, <1>4, <1>5, <3>2, <3>3
    <3>6. L2[m + 1] = first /\ L2[m + 2] = event
      BY <1>3, <1>4, <1>5, <3>2, <3>3
    <3>7. 1..m + 2 = 1..m \cup {m + 1, m + 2}
      BY <1>4
    <3> QED
      BY <3>1, <3>4, <3>5, <3>6, <3>7
  <2>8. /\ DOMAIN trace' = Attempts /\ \A b \in Attempts \ {a} : trace'[b] = trace[b]
        /\ trace'[a] \in [open : SUBSET Nat, missing : BOOLEAN, end : {"none", "result", "nothing"}]
        /\ trace'[a].end = "none"
    BY <1>2, <1>5, <1>16
  <2>9. Shaped(a)'
    <3>1. 1..n \subseteq 1..Len(records'[a])
      BY <1>4, <2>2
    <3>2. 1..m \subseteq 1..m + 2 /\ 0..call \subseteq 0..m + 2 /\ call \in 1..m + 1 /\ call \in 1..m + 2
      BY <1>3, <1>4
    <3>3. \A i \in 1..d : S[i].call \in 1..Len(L2) /\ (S[i].kind \in Tools => S[i].record \in 1..Len(records'[a]))
      BY <1>5, <2>7, <3>1, <3>2
    <3>4. \A i \in 1..Len(L2) : L2[i].call \in 1..i
      <4>1. \A i \in 1..m : L2[i].call \in 1..i
        BY <1>5, <2>7
      <4>2. L2[m + 1].call \in 1..m + 1 /\ L2[m + 2].call \in 1..m + 2
        BY <1>8, <2>4, <2>7, <3>2
      <4> QED
        BY <2>7, <4>1, <4>2
    <3>5. \A i \in 1..Len(records'[a]) : records'[a][i].call \in 0..Len(L2)
      BY <2>2, <2>7, <3>2
    <3>6. run'[a] \in Process /\ run'[a].stack = S /\ Len(S) = d
      BY <1>3, <1>10, <1>16
    <3>7. records'[a] \in Seq(Note)
      BY <2>2
    <3>8. log'[a] = L2
      BY <2>5
    <3> QED
      BY <2>7, <2>8, <3>3, <3>4, <3>5, <3>6, <3>7, <3>8 DEF Shaped
  <2>10. \A j \in 1..Len(log'[a]) : log'[a][j].status \notin Outcomes
    BY <1>2, <1>3, <1>8, <2>4, <2>5, <2>7 DEF Outcomes
  <2>11. Whole(a)'
    BY <1>1, <1>2, <1>3, <1>4, <1>10, <1>16, <2>1, <2>8, <2>9, <2>10, RunsOn
  <2> QED
    BY <1>1, <1>2, <1>6, <1>10, <1>16, <2>1, <2>2, <2>6, <2>8, <2>11, OneMoves DEF Others
<1> QED
  BY <1>3, <1>9, <1>14, <1>15, <1>16 DEF BeginCall

\* The innermost call ends, well or not.
LEMMA ClosedKeeps ==
  ASSUME AuditInv, NEW a \in Attempts, InCall(a),
         NEW status \in {"SUCCEEDED", "FAILED", "RUNNING"}, NEW written \in BOOLEAN, NEW transcript \in BOOLEAN,
         NEW error \in {"none", "error", "refused"}, Closed(a, status, written, transcript, error),
         faults' \in 0..MaxFaults, faults' = 0 => faults = 0 /\ written /\ transcript /\ status # "RUNNING"
  PROVE  AuditInv'
<1>1. run[a].phase = "running" /\ Len(run[a].stack) > 1 /\ UNCHANGED <<job, commit, begun>>
  BY DEF InCall, Innermost, Closed
<1>2. /\ Whole(a) /\ run[a] \in Process /\ Len(run[a].stack) >= 1 /\ commit.by # a /\ ~(a > job.attempt)
      /\ trace[a].end = "none" /\ \A j \in 1..Len(log[a]) : log[a][j].status \notin Outcomes
      /\ Len(log[a]) \in Nat /\ Len(records[a]) \in Nat /\ Len(run[a].stack) \in Nat
      /\ job \in [attempt : 0..MaxAttempts, status : Statuses] /\ begun \in 0..MaxCalls /\ faults \in 0..MaxFaults
      /\ DOMAIN run = Attempts /\ DOMAIN log = Attempts /\ DOMAIN records = Attempts /\ DOMAIN trace = Attempts
  BY <1>1, RunningIs
<1>3. PICK n, m, d, R, L, S, top :
        /\ n = Len(records[a]) /\ m = Len(log[a]) /\ d = Len(run[a].stack)
        /\ R = records[a] /\ L = log[a] /\ S = run[a].stack /\ top = Last(S)
  OBVIOUS
<1>4. n \in Nat /\ m \in Nat /\ d \in Nat /\ d > 1 /\ d >= 1 /\ d - 1 >= 1
  BY <1>1, <1>2, <1>3
<1>5. /\ L \in Seq(Event) /\ R \in Seq(Note) /\ S \in Seq(Frame)
      /\ \A i \in 1..m : L[i].call \in 1..i
      /\ \A i \in 1..n : R[i].call \in 0..m
      /\ trace[a] \in [open : SUBSET Nat, missing : BOOLEAN, end : {"none", "result", "nothing"}]
      /\ \A i \in 1..d : S[i].call \in 1..m /\ (S[i].kind \in Tools => S[i].record \in 1..n)
  BY <1>2, <1>3 DEF Whole, Shaped, Process
<1>6. PICK S2 : S2 = Front(S)
  OBVIOUS
<1>7. /\ S2 \in Seq(Frame) /\ Len(S2) = d - 1 /\ \A i \in 1..d - 1 : S2[i] = S[i]
      /\ top = S[d] /\ top \in Frame /\ d \in 1..d /\ 1..d - 1 \subseteq 1..d
  <2>1. S \in Seq(Frame) /\ d = Len(S) /\ d >= 1 /\ top = Last(S)
    BY <1>3, <1>4, <1>5
  <2>2. S2 \in Seq(Frame) /\ Len(S2) = d - 1 /\ \A i \in 1..d - 1 : S2[i] = S[i]
    BY ONLY <1>6, <2>1, FrontOf, SMTT(40)
  <2>3. top = S[d] /\ top \in Frame /\ d \in 1..d /\ 1..d - 1 \subseteq 1..d
    BY ONLY <1>6, <2>1, FrontOf, SMTT(40)
  <2> QED
    BY <2>2, <2>3
<1>8. top.call \in 1..m /\ top.kind \in Kinds /\ (top.kind \in Tools => top.record \in 1..n)
  BY <1>5, <1>7 DEF Frame
<1>9. Top(a) = top
  BY <1>3 DEF Top
<1>10. /\ run'[a] = [run[a] EXCEPT !.stack = S2, !.raising = error] /\ DOMAIN run' = Attempts
       /\ \A b \in Attempts \ {a} : run'[b] = run[b]
  <2>1. run' = [run EXCEPT ![a].stack = Front(@), ![a].raising = error]
    BY DEF Closed
  <2> QED
    BY <1>2, <1>3, <1>6, <2>1
<1>11. run'[a] \in Process /\ run'[a].phase = "running" /\ run'[a].stack = S2
  BY <1>1, <1>2, <1>7, <1>10 DEF Process
<1>12. PICK R2 : R2 = IF top.kind \in Tools THEN [R EXCEPT ![top.record].status = status] ELSE R
  OBVIOUS
<1>13. /\ DOMAIN records' = Attempts /\ \A b \in Attempts \ {a} : records'[b] = records[b]
       /\ records'[a] = R2 /\ R2 \in Seq(Note) /\ Len(R2) = n /\ \A i \in 1..n : R2[i].call = R[i].call
  <2>1. records' = IF top.kind \in Tools THEN [records EXCEPT ![a][top.record].status = status] ELSE records
    BY <1>9 DEF Closed
  <2>2. CASE top.kind \in Tools
    <3>1. PICK note : note = [R[top.record] EXCEPT !.status = status]
      OBVIOUS
    <3>2. R[top.record] \in Note
      BY <1>3, <1>5, <1>8, <2>2
    <3>3. note \in Note /\ note.call = R[top.record].call
      BY <3>1, <3>2 DEF Note
    <3>4. R2 = [R EXCEPT ![top.record] = note]
      BY <1>12, <2>2, <3>1
    <3>5. records' = [records EXCEPT ![a] = R2]
      BY <1>3, <1>12, <2>1, <2>2
    <3>6. R2 \in Seq(Note) /\ Len(R2) = n /\ \A i \in 1..n : R2[i] = IF i = top.record THEN note ELSE R[i]
      BY <1>3, <1>5, <1>8, <2>2, <3>3, <3>4
    <3> QED
      BY <1>2, <3>3, <3>5, <3>6
  <2>3. CASE top.kind \notin Tools
    BY <1>2, <1>3, <1>5, <1>12, <2>1, <2>3
  <2> QED
    BY <2>2, <2>3
<1>14. PICK event : event = After(top, status)
  OBVIOUS
<1>15. event \in Event /\ event.call = top.call /\ event.status = status
  BY <1>7, <1>14 DEF After, Event, Frame
<1>16. PICK L2 : L2 = IF written THEN Append(L, event) ELSE L
  OBVIOUS
<1>17. log'[a] = L2 /\ DOMAIN log' = Attempts /\ \A b \in Attempts \ {a} : log'[b] = log[b]
  <2>1. log' = [log EXCEPT ![a] = IF written THEN Append(@, event) ELSE @]
    BY <1>9, <1>14 DEF Closed
  <2> QED
    BY <1>2, <1>3, <1>16, <2>1
<1>18. /\ L2 \in Seq(Event) /\ Len(L2) \in {m, m + 1}
       /\ \A i \in 1..Len(L2) : L2[i].call \in 1..i /\ L2[i].status \notin Outcomes
  <2>1. \A i \in 1..m : L[i].status \notin Outcomes
    BY <1>2, <1>3
  <2>2. CASE ~written
    BY <1>3, <1>4, <1>5, <1>16, <2>1, <2>2
  <2>3. CASE written
    <3>1. L2 = Append(L, event)
      BY <1>16, <2>3
    <3>2. /\ L2 \in Seq(Event) /\ Len(L2) = m + 1 /\ L2[m + 1] = event /\ \A i \in 1..m : L2[i] = L[i]
          /\ 1..m + 1 = 1..m \cup {m + 1}
      BY <1>3, <1>5, <1>15, <3>1, PushIs
    <3>3. top.call \in 1..m + 1
      BY <1>4, <1>8
    <3>4. L2[m + 1].call \in 1..m + 1 /\ L2[m + 1].status \notin Outcomes
      BY <1>15, <3>2, <3>3 DEF Outcomes
    <3> QED
      BY <1>5, <2>1, <3>2, <3>4
  <2> QED
    BY <2>2, <2>3
<1>19. /\ DOMAIN trace' = Attempts /\ \A b \in Attempts \ {a} : trace'[b] = trace[b]
       /\ trace'[a] \in [open : SUBSET Nat, missing : BOOLEAN, end : {"none", "result", "nothing"}]
       /\ trace'[a].missing = (trace[a].missing \/ ~transcript) /\ trace'[a].end = "none"
  <2>1. trace' = [trace EXCEPT ![a].open = @ \ {top.call}, ![a].missing = @ \/ ~transcript]
    BY <1>9 DEF Closed
  <2>2. PICK open, missing : open = trace[a].open \ {top.call} /\ missing = (trace[a].missing \/ ~transcript)
    OBVIOUS
  <2>3. trace'[a] = [trace[a] EXCEPT !.open = open, !.missing = missing] /\ DOMAIN trace' = Attempts /\ \A b \in Attempts \ {a} : trace'[b] = trace[b]
    BY <1>2, <2>1, <2>2
  <2>4. open \in SUBSET Nat /\ missing \in BOOLEAN
    BY <1>5, <2>2
  <2> QED
    BY <1>2, <1>5, <2>1, <2>2, <2>3, <2>4
<1>20. Shaped(a)'
  <2>1. 1..m \subseteq 1..Len(L2) /\ 0..m \subseteq 0..Len(L2)
    BY <1>4, <1>18
  <2>2. \A i \in 1..Len(S2) : S2[i].call \in 1..Len(L2) /\ (S2[i].kind \in Tools => S2[i].record \in 1..Len(R2))
    BY <1>5, <1>7, <1>13, <2>1
  <2>3. \A i \in 1..Len(R2) : R2[i].call \in 0..Len(L2)
    BY <1>5, <1>13, <2>1
  <2> QED
    BY <1>11, <1>13, <1>17, <1>18, <1>19, <2>2, <2>3 DEF Shaped
<1>21. faults' = 0 => Clean(run'[a].stack, log'[a], records'[a]) /\ ~trace'[a].missing
  <2> SUFFICES ASSUME faults' = 0, faults = 0, written, transcript, status # "RUNNING"
               PROVE  Clean(S2, Append(L, event), R2) /\ ~trace[a].missing
    BY <1>11, <1>13, <1>16, <1>17, <1>19
  <2>1. Clean(S, L, R) /\ ~trace[a].missing
    BY <1>2, <1>3 DEF Whole, Faultless
  <2>2. status \in {"SUCCEEDED", "FAILED"}
    OBVIOUS
  <2>3. \A i \in 1..Len(L) : L[i].call \in 1..i
    BY <1>3, <1>5
  <2>4. Len(S) >= 1
    BY <1>3, <1>4
  <2> QED
    BY <1>3, <1>5, <1>6, <1>12, <1>14, <2>1, <2>2, <2>3, <2>4, PopClean
<1>22. Whole(a)'
  BY <1>1, <1>2, <1>4, <1>7, <1>11, <1>17, <1>18, <1>19, <1>20, <1>21, RunsOn
<1> QED
  BY <1>1, <1>2, <1>10, <1>13, <1>17, <1>19, <1>22, OneMoves DEF Others

LEMMA SucceedKeeps == ASSUME AuditInv, NEW a \in Attempts, Succeed(a) PROVE AuditInv'
<1>1. PICK tool, seen : tool = (Top(a).kind \in Tools) /\ seen = Seen(Top(a).kind, "error")
  OBVIOUS
<1>2. tool \in BOOLEAN /\ seen \in {"none", "error", "refused"}
  BY <1>1 DEF Seen
<1>3. InCall(a) /\ \/ Closed(a, "SUCCEEDED", TRUE, TRUE, "none") /\ UNCHANGED faults
                   \/ Fault("audit") /\ Closed(a, "FAILED", tool, TRUE, seen)
                   \/ Traced /\ Fault("journal") /\ Closed(a, "FAILED", tool, FALSE, seen)
  BY <1>1 DEF Succeed
<1>4. CASE Closed(a, "SUCCEEDED", TRUE, TRUE, "none") /\ UNCHANGED faults
  <2>1. faults \in 0..MaxFaults
    BY DEF AuditInv, Shared
  <2> QED
    BY <1>3, <1>4, <2>1, ClosedKeeps
<1>5. CASE Fault("audit") /\ Closed(a, "FAILED", tool, TRUE, seen)
  BY <1>2, <1>3, <1>5, FaultIs, ClosedKeeps
<1>6. CASE Fault("journal") /\ Closed(a, "FAILED", tool, FALSE, seen)
  BY <1>2, <1>3, <1>6, FaultIs, ClosedKeeps
<1> QED
  BY <1>3, <1>4, <1>5, <1>6

LEMMA RaiseKeeps == ASSUME AuditInv, NEW a \in Attempts, Raise(a) PROVE AuditInv'
<1>1. PICK kind : kind = Top(a).kind
  OBVIOUS
<1>2. \A e \in {"none", "error", "refused"} : Seen(kind, e) \in {"none", "error", "refused"}
  BY DEF Seen
<1>3. InCall(a) /\ run[a].raising \in {"none", "error", "refused"}
  BY DEF Raise, AuditInv, Whole, Shaped, Process
<1>4. \/ \E e \in {"none", "error", "refused"} : Closed(a, "FAILED", TRUE, TRUE, Seen(kind, e)) /\ UNCHANGED faults
      \/ Fault("audit") /\ Closed(a, "FAILED", FALSE, TRUE, Seen(kind, "error"))
      \/ Fault("journal") /\ Closed(a, "RUNNING", FALSE, FALSE, Seen(kind, "error"))
  BY <1>1, <1>3 DEF Raise
<1>5. CASE \E e \in {"none", "error", "refused"} : Closed(a, "FAILED", TRUE, TRUE, Seen(kind, e)) /\ UNCHANGED faults
  <2>1. PICK e \in {"none", "error", "refused"} : Closed(a, "FAILED", TRUE, TRUE, Seen(kind, e)) /\ UNCHANGED faults
    BY <1>5
  <2>2. faults \in 0..MaxFaults
    BY DEF AuditInv, Shared
  <2> QED
    BY <1>2, <1>3, <2>1, <2>2, ClosedKeeps
<1>6. CASE Fault("audit") /\ Closed(a, "FAILED", FALSE, TRUE, Seen(kind, "error"))
  BY <1>2, <1>3, <1>6, FaultIs, ClosedKeeps
<1>7. CASE Fault("journal") /\ Closed(a, "RUNNING", FALSE, FALSE, Seen(kind, "error"))
  BY <1>2, <1>3, <1>7, FaultIs, ClosedKeeps
<1> QED
  BY <1>4, <1>5, <1>6, <1>7

LEMMA AttemptIs ==
  ASSUME AuditInv, NEW a \in Attempts
  PROVE  /\ Whole(a) /\ Shared /\ run[a] \in Process
         /\ Len(log[a]) \in Nat /\ Len(records[a]) \in Nat /\ Len(run[a].stack) \in Nat
         /\ job \in [attempt : 0..MaxAttempts, status : Statuses] /\ begun \in 0..MaxCalls /\ faults \in 0..MaxFaults
         /\ DOMAIN run = Attempts /\ DOMAIN log = Attempts /\ DOMAIN records = Attempts /\ DOMAIN trace = Attempts
<1>1. Whole(a) /\ Shared
  BY DEF AuditInv
<1>2. run[a] \in Process /\ Len(run[a].stack) \in Nat /\ Len(log[a]) \in Nat /\ Len(records[a]) \in Nat
  BY <1>1 DEF Whole, Shaped, Process
<1> QED
  BY <1>1, <1>2 DEF Shared, Statuses

LEMMA BreakKeeps == ASSUME AuditInv, NEW a \in Attempts, Break(a) PROVE AuditInv'
<1>1. /\ run[a].phase = "running" /\ run' = [run EXCEPT ![a].raising = "error"]
      /\ UNCHANGED <<job, commit, log, records, trace, faults, begun>>
  BY DEF Break
<1>2. /\ Whole(a) /\ run[a] \in Process /\ Len(run[a].stack) >= 1 /\ commit.by # a /\ ~(a > job.attempt)
      /\ trace[a].end = "none" /\ \A j \in 1..Len(log[a]) : log[a][j].status \notin Outcomes
      /\ Len(log[a]) \in Nat /\ Len(records[a]) \in Nat /\ Len(run[a].stack) \in Nat
      /\ job \in [attempt : 0..MaxAttempts, status : Statuses] /\ begun \in 0..MaxCalls /\ faults \in 0..MaxFaults
      /\ DOMAIN run = Attempts /\ DOMAIN log = Attempts /\ DOMAIN records = Attempts /\ DOMAIN trace = Attempts
  BY <1>1, RunningIs
<1>3. /\ run'[a] = [run[a] EXCEPT !.raising = "error"] /\ DOMAIN run' = Attempts
      /\ \A b \in Attempts \ {a} : run'[b] = run[b]
  BY <1>1, <1>2
<1>4. run'[a] \in Process /\ run'[a].phase = "running" /\ run'[a].stack = run[a].stack
  BY <1>1, <1>2, <1>3 DEF Process
<1>5. Shaped(a)'
  BY <1>1, <1>2, <1>4 DEF Whole, Shaped
<1>6. faults' = 0 => Clean(run'[a].stack, log'[a], records'[a]) /\ ~trace'[a].missing
  BY <1>1, <1>2, <1>4 DEF Whole, Faultless
<1>7. Whole(a)'
  BY <1>1, <1>2, <1>4, <1>5, <1>6, RunsOn
<1> QED
  BY <1>1, <1>2, <1>3, <1>7, OneMoves DEF Others

LEMMA ReturnKeeps == ASSUME AuditInv, NEW a \in Attempts, Return(a) PROVE AuditInv'
<1>1. /\ run[a].phase \in {"running", "returned"} /\ Len(run[a].stack) = 1
      /\ run[a].phase = "running" => run[a].raising # "none"
      /\ run' = [run EXCEPT ![a].phase = "closing", ![a].stack = <<>>]
      /\ UNCHANGED <<job, commit, records, trace, begun>>
  BY DEF Return, Innermost
<1>2. /\ Whole(a) /\ Shared /\ run[a] \in Process
      /\ Len(log[a]) \in Nat /\ Len(records[a]) \in Nat /\ Len(run[a].stack) \in Nat
      /\ job \in [attempt : 0..MaxAttempts, status : Statuses] /\ begun \in 0..MaxCalls /\ faults \in 0..MaxFaults
      /\ DOMAIN run = Attempts /\ DOMAIN log = Attempts /\ DOMAIN records = Attempts /\ DOMAIN trace = Attempts
  BY AttemptIs
<1>3. PICK n, m, R, L, S, top, event :
        /\ n = Len(records[a]) /\ m = Len(log[a]) /\ R = records[a] /\ L = log[a] /\ S = run[a].stack
        /\ top = Last(S) /\ event = After(top, Outcome(a))
  OBVIOUS
<1>4. n \in Nat /\ m \in Nat
  BY <1>2, <1>3
<1>5. /\ L \in Seq(Event) /\ R \in Seq(Note) /\ S \in Seq(Frame)
      /\ \A i \in 1..m : L[i].call \in 1..i
      /\ \A i \in 1..n : R[i].call \in 0..m
      /\ trace[a] \in [open : SUBSET Nat, missing : BOOLEAN, end : {"none", "result", "nothing"}]
      /\ \A i \in 1..1 : S[i].call \in 1..m
  BY <1>1, <1>2, <1>3 DEF Whole, Shaped, Process
<1>6. top = S[1] /\ top \in Frame /\ top.call \in 1..m /\ Front(S) \in Seq(Frame) /\ Len(Front(S)) = 0
  <2>1. PICK d, f : d = Len(S) /\ f = Front(S)
    OBVIOUS
  <2>2. d = 1
    BY <1>1, <1>3, <2>1
  <2>3. d >= 1 /\ 1 \in 1..1 /\ 1 - 1 = 0
    BY <2>2
  <2>4. f \in Seq(Frame) /\ Len(f) = d - 1 /\ Last(S) = S[d] /\ S[d] \in Frame
    BY <1>5, <2>1, <2>3, FrontOf
  <2>5. S[1].call \in 1..m
    BY <1>5, <2>3
  <2> QED
    BY <1>3, <2>1, <2>2, <2>3, <2>4, <2>5
<1>7. Front(S) = <<>>
  BY <1>6, EmptySeq
<1>8. /\ run'[a] = [run[a] EXCEPT !.phase = "closing", !.stack = <<>>] /\ DOMAIN run' = Attempts
      /\ \A b \in Attempts \ {a} : run'[b] = run[b]
  BY <1>1, <1>2
<1>9. /\ run'[a] \in Process /\ run'[a].phase = "closing" /\ run'[a].stack = <<>> /\ Len(run'[a].stack) = 0
      /\ run'[a].raising = run[a].raising
  <2>1. PICK empty : empty = <<>>
    OBVIOUS
  <2>2. empty \in Seq(Frame) /\ Len(empty) = 0
    BY <2>1
  <2>3. run'[a] = [run[a] EXCEPT !.phase = "closing", !.stack = empty]
    BY <1>8, <2>1
  <2>4. run'[a] \in Process /\ run'[a].phase = "closing" /\ run'[a].stack = empty /\ run'[a].raising = run[a].raising
    BY <1>2, <2>2, <2>3 DEF Process
  <2> QED
    BY <2>1, <2>2, <2>4
<1>10. /\ run[a].raising = "none" => commit.by = a /\ Outcome(a) = "COMMITTED"
       /\ run[a].raising # "none" => Outcome(a) \in Outcomes \ {"COMMITTED"}
       /\ Outcome(a) \in {"FAILED_NOT_COMMITTED", "CANCELLED"} => commit.by # a
       /\ Outcome(a) \in Outcomes
  <2>1. run[a].phase = "returned" => commit.by = a
    BY <1>2 DEF Whole, Phased
  <2>2. a # 0
    BY AuditAssumption DEF Attempts
  <2> QED
    BY <1>1, <2>1, <2>2 DEF Outcome, Outcomes
<1>11. event \in Event /\ event.call = top.call /\ event.status = Outcome(a)
  BY <1>3, <1>6, <1>10 DEF After, Event, Frame
<1>12. ~(a > job.attempt) /\ trace[a].end = "none"
  BY <1>1, <1>2 DEF Whole, Phased, Spoken
<1>13. log'[a] \in {L, Append(L, event)} /\ DOMAIN log' = Attempts /\ (\A b \in Attempts \ {a} : log'[b] = log[b])
       /\ faults' \in 0..MaxFaults /\ (faults' = 0 => faults = 0 /\ log'[a] = Append(L, event))
  <2>1. Top(a) = top
    BY <1>3 DEF Top
  <2>2. CASE log' = [log EXCEPT ![a] = Append(@, After(Top(a), Outcome(a)))] /\ UNCHANGED faults
    BY <1>2, <1>3, <2>1, <2>2
  <2>3. CASE Fault("audit") /\ UNCHANGED log
    BY <1>2, <1>3, <2>3, FaultIs
  <2> QED
    BY <2>2, <2>3 DEF Return
<1>14. PICK L2 : L2 = log'[a]
  OBVIOUS
<1>15. /\ L2 \in Seq(Event) /\ Len(L2) \in {m, m + 1}
       /\ \A i \in 1..Len(L2) : L2[i].call \in 1..i /\ ((i \in 1..m /\ L2[i] = L[i]) \/ (i = m + 1 /\ L2[i] = event))
  <2>1. CASE L2 = L
    BY <1>3, <1>4, <1>5, <2>1
  <2>2. CASE L2 = Append(L, event)
    <3>1. /\ L2 \in Seq(Event) /\ Len(L2) = m + 1 /\ L2[m + 1] = event /\ \A i \in 1..m : L2[i] = L[i]
          /\ 1..m + 1 = 1..m \cup {m + 1}
      BY <1>3, <1>5, <1>11, <2>2, PushIs
    <3>2. top.call \in 1..m + 1
      BY <1>4, <1>6
    <3>3. L2[m + 1].call \in 1..m + 1
      BY <1>11, <3>1, <3>2
    <3> QED
      BY <1>5, <3>1, <3>3
  <2> QED
    BY <1>13, <1>14, <2>1, <2>2
<1>16. Shaped(a)'
  <2>1. 0..m \subseteq 0..Len(L2)
    BY <1>4, <1>15
  <2>2. \A i \in 1..n : R[i].call \in 0..Len(L2)
    BY <1>5, <2>1
  <2>3. records'[a] \in Seq(Note) /\ \A i \in 1..Len(records'[a]) : records'[a][i].call \in 0..Len(L2)
    BY <1>1, <1>3, <1>5, <2>2
  <2>4. \A i \in 1..Len(run'[a].stack) : FALSE
    BY <1>9
  <2>5. trace'[a] \in [open : SUBSET Nat, missing : BOOLEAN, end : {"none", "result", "nothing"}]
    BY <1>1, <1>5
  <2>6. log'[a] \in Seq(Event) /\ \A i \in 1..Len(log'[a]) : log'[a][i].call \in 1..i
    BY <1>14, <1>15
  <2> QED
    BY <1>9, <1>14, <2>3, <2>4, <2>5, <2>6 DEF Shaped
<1>17. Phased(a)'
  BY <1>1, <1>9, <1>12 DEF Phased
<1>18. Spoken(a)'
  <2>1. ASSUME NEW j \in 1..Len(L2)
        PROVE  /\ L2[j].status = "COMMITTED" => commit.by = a
               /\ L2[j].status \in {"FAILED_NOT_COMMITTED", "CANCELLED"} => commit.by # a
    <3>1. CASE j \in 1..m /\ L2[j] = L[j]
      BY <1>2, <1>3, <3>1 DEF Whole, Spoken
    <3>2. CASE L2[j] = event
      BY <1>10, <1>11, <3>2
    <3> QED
      BY <1>15, <3>1, <3>2
  <2>2. \A j \in 1..Len(log'[a]) :
          /\ log'[a][j].status = "COMMITTED" => commit'.by = a
          /\ log'[a][j].status \in {"FAILED_NOT_COMMITTED", "CANCELLED"} => commit'.by # a
    BY <1>1, <1>14, <2>1
  <2> QED
    BY <1>1, <1>9, <1>12, <2>2 DEF Spoken
<1>19. Faultless(a)'
  <2> SUFFICES ASSUME faults' = 0 PROVE Clean(<<>>, Append(L, event), R) /\ ~trace'[a].missing /\ ((run[a].raising = "none") = (commit.by = a))
    BY <1>1, <1>3, <1>9, <1>12, <1>13 DEF Faultless
  <2>1. faults = 0
    BY <1>13
  <2>2. Clean(S, L, R) /\ ~trace[a].missing /\ (run[a].phase = "returned" => run[a].raising = "none")
    BY <1>2, <1>3, <2>1 DEF Whole, Faultless
  <2>3. top.kind = "operation"
    <3>1. \A i \in 1..Len(S) : (i = 1) = (S[i].kind = "operation")
      BY <2>2 DEF Clean, Opened
    <3> QED
      BY <1>1, <1>3, <1>6, <3>1
  <2>4. top.kind \notin Tools
    BY <2>3 DEF Tools
  <2>5. Len(S) >= 1 /\ \A i \in 1..Len(L) : L[i].call \in 1..i
    BY <1>1, <1>3, <1>5
  <2>6. Clean(Front(S), Append(L, After(top, Outcome(a))), R)
    BY <1>3, <1>5, <1>10, <2>2, <2>4, <2>5, PopClean
  <2>7. Clean(<<>>, Append(L, event), R)
    BY <1>3, <1>7, <2>6
  <2>8. (run[a].raising = "none") = (commit.by = a)
    <3>1. CASE run[a].phase = "running"
      BY <1>1, <1>2, <3>1 DEF Whole, Phased
    <3>2. CASE run[a].phase = "returned"
      BY <1>10, <2>2, <3>2
    <3> QED
      BY <1>1, <3>1, <3>2
  <2> QED
    BY <1>1, <2>2, <2>7, <2>8
<1>20. \E t \in Nat : Len(log'[a]) = Len(log[a]) + t
  <2>1. Len(L2) = m + 0 \/ Len(L2) = m + 1
    BY <1>4, <1>15
  <2> QED
    BY <1>3, <1>14, <2>1
<1>21. Whole(a)'
  BY <1>16, <1>17, <1>18, <1>19 DEF Whole
<1> QED
  BY <1>1, <1>2, <1>8, <1>9, <1>13, <1>20, <1>21, OneMoves DEF Others

LEMMA FinishKeeps == ASSUME AuditInv, NEW a \in Attempts, Finish(a) PROVE AuditInv'
<1>1. /\ run[a].phase = "closing" /\ run' = [run EXCEPT ![a].phase = "reporting"]
      /\ UNCHANGED <<job, commit, log, records, begun>>
  BY DEF Finish
<1>2. /\ Whole(a) /\ Shared /\ run[a] \in Process
      /\ Len(log[a]) \in Nat /\ Len(records[a]) \in Nat /\ Len(run[a].stack) \in Nat
      /\ job \in [attempt : 0..MaxAttempts, status : Statuses] /\ begun \in 0..MaxCalls /\ faults \in 0..MaxFaults
      /\ DOMAIN run = Attempts /\ DOMAIN log = Attempts /\ DOMAIN records = Attempts /\ DOMAIN trace = Attempts
  BY AttemptIs
<1>3. /\ run'[a] = [run[a] EXCEPT !.phase = "reporting"] /\ DOMAIN run' = Attempts
      /\ \A b \in Attempts \ {a} : run'[b] = run[b]
  BY <1>1, <1>2
<1>4. run'[a] \in Process /\ run'[a].phase = "reporting" /\ run'[a].stack = run[a].stack /\ run'[a].raising = run[a].raising
  BY <1>2, <1>3 DEF Process
<1>5. /\ trace[a] \in [open : SUBSET Nat, missing : BOOLEAN, end : {"none", "result", "nothing"}]
      /\ trace[a].end = "none" /\ Len(run[a].stack) = 0 /\ ~(a > job.attempt)
  BY <1>1, <1>2 DEF Whole, Shaped, Phased, Spoken
<1>6. PICK result : result = IF run[a].raising = "none" THEN "result" ELSE "nothing"
  OBVIOUS
<1>7. /\ DOMAIN trace' = Attempts /\ \A b \in Attempts \ {a} : trace'[b] = trace[b]
      /\ trace'[a] \in [open : SUBSET Nat, missing : BOOLEAN, end : {"none", "result", "nothing"}]
      /\ faults' \in 0..MaxFaults
      /\ faults' = 0 => faults = 0 /\ trace'[a].missing = trace[a].missing /\ trace'[a].end \in {"none", result}
  <2>1. CASE trace' = trace /\ UNCHANGED faults
    BY <1>2, <1>5, <2>1
  <2>2. CASE trace' = [trace EXCEPT ![a].end = result] /\ UNCHANGED faults
    <3>1. trace'[a] = [trace[a] EXCEPT !.end = result]
      BY <1>2, <2>2
    <3>2. result \in {"none", "result", "nothing"}
      BY <1>6
    <3>3. trace'[a] \in [open : SUBSET Nat, missing : BOOLEAN, end : {"none", "result", "nothing"}]
          /\ trace'[a].missing = trace[a].missing /\ trace'[a].end = result
      BY <1>5, <3>1, <3>2
    <3> QED
      BY <1>2, <2>2, <3>3
  <2>3. CASE Fault("journal") /\ trace' = [trace EXCEPT ![a].missing = TRUE]
    <3>1. trace'[a] = [trace[a] EXCEPT !.missing = TRUE]
      BY <1>2, <2>3
    <3>2. trace'[a] \in [open : SUBSET Nat, missing : BOOLEAN, end : {"none", "result", "nothing"}]
      BY <1>5, <3>1
    <3>3. faults' \in 0..MaxFaults /\ faults' # 0
      BY <2>3, FaultIs
    <3> QED
      BY <1>2, <2>3, <3>2, <3>3
  <2> QED
    BY <1>6, <2>1, <2>2, <2>3 DEF Finish
<1>8. Shaped(a)'
  <2>1. /\ log'[a] \in Seq(Event) /\ \A i \in 1..Len(log'[a]) : log'[a][i].call \in 1..i
        /\ records'[a] \in Seq(Note) /\ \A i \in 1..Len(records'[a]) : records'[a][i].call \in 0..Len(log'[a])
    BY <1>1, <1>2 DEF Whole, Shaped
  <2>2. \A i \in 1..Len(run'[a].stack) : FALSE
    BY <1>4, <1>5
  <2> QED
    BY <1>4, <1>7, <2>1, <2>2 DEF Shaped
<1>9. Phased(a)'
  BY <1>1, <1>4, <1>5 DEF Phased
<1>10. Spoken(a)'
  BY <1>1, <1>2, <1>4 DEF Whole, Spoken
<1>11. Faultless(a)'
  <2>1. ASSUME faults' = 0
        PROVE  /\ Clean(run'[a].stack, log'[a], records'[a]) /\ ~trace'[a].missing
               /\ trace'[a].end # "none" => ((trace'[a].end = "result") = (commit.by = a))
    BY <1>1, <1>2, <1>4, <1>6, <1>7, <2>1 DEF Whole, Faultless
  <2> QED
    BY <1>1, <1>4, <2>1 DEF Faultless
<1>12. Whole(a)'
  BY <1>8, <1>9, <1>10, <1>11 DEF Whole
<1>13. records'[a] = records[a] /\ \E t \in Nat : Len(log'[a]) = Len(log[a]) + t
  <2>1. Len(log'[a]) = Len(log[a]) + 0
    BY <1>1, <1>2
  <2> QED
    BY <1>1, <2>1
<1> QED
  BY <1>1, <1>2, <1>3, <1>4, <1>7, <1>12, <1>13, OneMoves DEF Others

\* The process of an attempt is over, or killed: nothing else is written.
LEMMA Passes ==
  ASSUME AuditInv, NEW a \in Attempts, NEW phase \in {"done", "dead"},
         run[a].phase \notin {"none", "done", "dead"}, phase = "done" => run[a].phase = "reporting",
         run' = [run EXCEPT ![a].phase = phase], UNCHANGED <<commit, log, records, trace, faults, begun>>,
         job'.attempt = job.attempt, job' \in [attempt : 0..MaxAttempts, status : Statuses]
  PROVE  AuditInv'
<1>2. /\ Whole(a) /\ Shared /\ run[a] \in Process
      /\ Len(log[a]) \in Nat /\ Len(records[a]) \in Nat /\ Len(run[a].stack) \in Nat
      /\ job \in [attempt : 0..MaxAttempts, status : Statuses] /\ begun \in 0..MaxCalls /\ faults \in 0..MaxFaults
      /\ DOMAIN run = Attempts /\ DOMAIN log = Attempts /\ DOMAIN records = Attempts /\ DOMAIN trace = Attempts
  BY AttemptIs
<1>3. /\ run'[a] = [run[a] EXCEPT !.phase = phase] /\ DOMAIN run' = Attempts
      /\ \A b \in Attempts \ {a} : run'[b] = run[b]
  BY <1>2
<1>4. run'[a] \in Process /\ run'[a].phase = phase /\ run'[a].stack = run[a].stack /\ run'[a].raising = run[a].raising
  BY <1>2, <1>3 DEF Process
<1>5. Shaped(a)'
  BY <1>2, <1>4 DEF Whole, Shaped
<1>6. Phased(a)'
  BY <1>2, <1>4 DEF Whole, Phased
<1>7. Spoken(a)'
  BY <1>2, <1>4 DEF Whole, Spoken
<1>8. Faultless(a)'
  BY <1>2, <1>4 DEF Whole, Faultless
<1>9. Whole(a)'
  BY <1>5, <1>6, <1>7, <1>8 DEF Whole
<1>10. \E t \in Nat : Len(log'[a]) = Len(log[a]) + t
  <2>1. Len(log'[a]) = Len(log[a]) + 0
    BY <1>2
  <2> QED
    BY <2>1
<1> QED
  BY <1>2, <1>3, <1>4, <1>9, <1>10, OneMoves DEF Others

LEMMA ReportKeeps == ASSUME AuditInv, NEW a \in Attempts, Report(a) PROVE AuditInv'
<1>1. job \in [attempt : 0..MaxAttempts, status : Statuses]
  BY AttemptIs
<1>2. job'.attempt = job.attempt /\ job' \in [attempt : 0..MaxAttempts, status : Statuses]
  BY <1>1 DEF Report, Statuses
<1> QED
  BY <1>2, Passes DEF Report

LEMMA KillKeeps == ASSUME AuditInv, NEW a \in Attempts, Kill(a) PROVE AuditInv'
<1>1. job \in [attempt : 0..MaxAttempts, status : Statuses]
  BY AttemptIs
<1> QED
  BY <1>1, Passes DEF Kill

LEMMA CancelKeeps == ASSUME AuditInv, Cancel PROVE AuditInv'
<1>1. UNCHANGED <<commit, run, log, records, trace, faults, begun>>
  BY DEF Cancel
<1>2. Shared /\ job \in [attempt : 0..MaxAttempts, status : Statuses]
  BY DEF AuditInv, Shared, Statuses
<1>3. job'.attempt = job.attempt /\ job' \in [attempt : 0..MaxAttempts, status : Statuses]
  BY <1>2 DEF Cancel, Statuses
<1>4. \A b \in Attempts : Whole(b)'
  BY <1>1, <1>3, RestKeeps DEF AuditInv
<1>5. Shared'
  BY <1>1, <1>2, <1>3 DEF Shared, Statuses
<1> QED
  BY <1>4, <1>5 DEF AuditInv

LEMMA CommitKeeps == ASSUME AuditInv, NEW a \in Attempts, CommitResult(a) PROVE AuditInv'
<1>1. /\ run[a].phase = "running" /\ Len(run[a].stack) = 1 /\ run[a].raising = "none"
      /\ job = [attempt |-> a, status |-> "running"]
      /\ commit' = [by |-> a, records |-> records[a], anchor |-> Len(log[a])]
      /\ UNCHANGED <<job, log, records, trace, begun>>
  BY DEF CommitResult, Innermost
<1>2. /\ Whole(a) /\ Shared /\ run[a] \in Process
      /\ Len(log[a]) \in Nat /\ Len(records[a]) \in Nat /\ Len(run[a].stack) \in Nat
      /\ job \in [attempt : 0..MaxAttempts, status : Statuses] /\ begun \in 0..MaxCalls /\ faults \in 0..MaxFaults
      /\ DOMAIN run = Attempts /\ DOMAIN log = Attempts /\ DOMAIN records = Attempts /\ DOMAIN trace = Attempts
  BY AttemptIs
<1>3. job.attempt = a /\ commit'.by = a /\ commit'.records = records[a] /\ commit'.anchor = Len(log[a])
  BY <1>1
<1>4. commit.by = 0 /\ a # 0 /\ a \in 1..MaxAttempts
  BY <1>1, <1>2, <1>3, AuditAssumption DEF Shared, Attempts
<1>5. /\ DOMAIN run' = Attempts /\ \A b \in Attempts \ {a} : run'[b] = run[b]
      /\ run'[a] \in Process /\ run'[a].phase = "returned" /\ run'[a].stack = run[a].stack
      /\ faults' \in 0..MaxFaults /\ (faults' = 0 => faults = 0 /\ run'[a].raising = "none")
  <2>1. CASE run' = [run EXCEPT ![a].phase = "returned"] /\ UNCHANGED faults
    <3>1. run'[a] = [run[a] EXCEPT !.phase = "returned"]
      BY <1>2, <2>1
    <3>2. run'[a] \in Process /\ run'[a].phase = "returned" /\ run'[a].stack = run[a].stack /\ run'[a].raising = "none"
      BY <1>1, <1>2, <3>1 DEF Process
    <3> QED
      BY <1>2, <2>1, <3>2
  <2>2. CASE Fault("lost") /\ run' = [run EXCEPT ![a].phase = "returned", ![a].raising = "error"]
    <3>1. run'[a] = [run[a] EXCEPT !.phase = "returned", !.raising = "error"]
      BY <1>2, <2>2
    <3>2. run'[a] \in Process /\ run'[a].phase = "returned" /\ run'[a].stack = run[a].stack
      BY <1>2, <3>1 DEF Process
    <3>3. faults' \in 0..MaxFaults /\ faults' # 0
      BY <2>2, FaultIs
    <3> QED
      BY <1>2, <2>2, <3>2, <3>3
  <2> QED
    BY <2>1, <2>2 DEF CommitResult
<1>6. Shaped(a)'
  BY <1>1, <1>2, <1>5 DEF Whole, Shaped
<1>7. Phased(a)'
  <2>1. PICK d : d = Len(run[a].stack)
    OBVIOUS
  <2>2. d = 1 /\ Len(run'[a].stack) = d /\ d >= 1 /\ d <= 1
    BY <1>1, <1>5, <2>1
  <2>3. ~(a > job'.attempt)
    BY <1>1, <1>3, <1>4
  <2> QED
    BY <1>3, <1>5, <2>2, <2>3 DEF Phased
<1>8. Spoken(a)'
  <2>1. trace[a].end = "none" /\ \A j \in 1..Len(log[a]) : log[a][j].status \notin Outcomes
    BY <1>1, <1>2 DEF Whole, Spoken
  <2> QED
    BY <1>1, <2>1 DEF Spoken, Outcomes
<1>9. Faultless(a)'
  <2>1. trace[a].end = "none"
    BY <1>1, <1>2 DEF Whole, Spoken
  <2> QED
    BY <1>1, <1>2, <1>5, <2>1 DEF Whole, Faultless
<1>10. Whole(a)'
  BY <1>6, <1>7, <1>8, <1>9 DEF Whole
<1>11. \A b \in Attempts \ {a} : Whole(b)'
  <2> SUFFICES ASSUME NEW b \in Attempts \ {a} PROVE Whole(b)'
    OBVIOUS
  <2>1. Whole(b) /\ b # 0
    BY AuditAssumption DEF AuditInv, Attempts
  <2>2. (commit'.by = b) <=> (commit.by = b)
    BY <1>3, <1>4, <2>1
  <2> QED
    BY <1>1, <1>5, <2>1, <2>2, RestKeeps
<1>12. Len(log[a]) \in 1..Len(log[a])
  <2>1. 1 \in 1..Len(run[a].stack)
    BY <1>1
  <2>2. run[a].stack[1].call \in 1..Len(log[a])
    BY <1>2, <2>1 DEF Whole, Shaped
  <2>3. PICK m : m = Len(log[a])
    OBVIOUS
  <2> QED
    BY <1>2, <2>2, <2>3
<1>13. Shared'
  <2>1. commit'.by \in 0..job'.attempt /\ commit'.by # 0
    BY <1>1, <1>3, <1>4
  <2>2. commit'.records = records'[commit'.by] /\ commit'.anchor \in 1..Len(log'[commit'.by])
    BY <1>1, <1>3, <1>12
  <2>3. run'[job'.attempt].phase # "running"
    BY <1>1, <1>3, <1>5
  <2> QED
    BY <1>1, <1>2, <1>5, <2>1, <2>2, <2>3 DEF Shared, Statuses
<1> QED
  BY <1>10, <1>11, <1>13 DEF AuditInv

\* The stack and the events of an attempt that was just claimed.
LEMMA FirstClean ==
  ASSUME NEW S, S = <<[kind |-> "operation", call |-> 1, record |-> 0]>>, NEW L, L = <<Before("operation", 1)>>
  PROVE  /\ S \in Seq(Frame) /\ Len(S) = 1 /\ S[1].call = 1 /\ S[1].kind = "operation"
         /\ L \in Seq(Event) /\ Len(L) = 1 /\ L[1].call = 1 /\ L[1].status = "STARTED" /\ Clean(S, L, <<>>)
<1>1. PICK frame, event : frame = [kind |-> "operation", call |-> 1, record |-> 0] /\ event = Before("operation", 1)
  OBVIOUS
<1>2. frame \in Frame /\ frame.kind = "operation" /\ frame.call = 1
  BY <1>1 DEF Frame, Kinds
<1>3. /\ event \in Event /\ event.phase = "BEFORE" /\ event.kind = "operation" /\ event.call = 1
      /\ event.status = "STARTED" /\ event = Before(frame.kind, frame.call)
  BY <1>1, <1>2 DEF Event, Before, Kinds
<1>4. S = <<frame>> /\ L = <<event>>
  BY <1>1
<1>5. /\ S \in Seq(Frame) /\ Len(S) = 1 /\ S[1] = frame /\ L \in Seq(Event) /\ Len(L) = 1 /\ L[1] = event
      /\ 1..Len(S) = {1} /\ DOMAIN L = {1}
  BY <1>2, <1>3, <1>4
<1>6. EndsIn(L, 1) = {} /\ StartsIn(L, Tools) = {} /\ StartsIn(L, Tools \cup {"model"}) = {}
  BY <1>3, <1>5 DEF EndsIn, StartsIn, Tools
<1>7. Opened(S, L, <<>>)
  BY <1>2, <1>3, <1>5, <1>6 DEF Opened, Tools
<1>8. Told(S, L)
  BY <1>2, <1>3, <1>5, <1>6 DEF Told
<1>9. Listed(L, <<>>)
  BY <1>6 DEF Listed
<1> QED
  BY <1>2, <1>3, <1>5, <1>7, <1>8, <1>9 DEF Clean

LEMMA ClaimKeeps == ASSUME AuditInv, NEW a \in Attempts, Claim(a) PROVE AuditInv'
<1>1. /\ a = job.attempt + 1 /\ job' = [attempt |-> a, status |-> "running"] /\ UNCHANGED <<commit, records, trace, begun>>
  BY DEF Claim
<1>2. /\ Whole(a) /\ Shared /\ run[a] \in Process
      /\ Len(log[a]) \in Nat /\ Len(records[a]) \in Nat /\ Len(run[a].stack) \in Nat
      /\ job \in [attempt : 0..MaxAttempts, status : Statuses] /\ begun \in 0..MaxCalls /\ faults \in 0..MaxFaults
      /\ DOMAIN run = Attempts /\ DOMAIN log = Attempts /\ DOMAIN records = Attempts /\ DOMAIN trace = Attempts
  BY AttemptIs
<1>3. job'.attempt = a /\ job' \in [attempt : 0..MaxAttempts, status : Statuses] /\ job.attempt \in Nat /\ a \in Nat
  BY <1>1, <1>2, AuditAssumption DEF Attempts, Statuses
<1>4. /\ run[a].phase = "none" /\ run[a].raising = "none" /\ records[a] = <<>> /\ log[a] = <<>> /\ ~trace[a].missing
      /\ Len(run[a].stack) = 0 /\ trace[a].end = "none"
  <2>1. a > job.attempt
    BY <1>1, <1>3
  <2> QED
    BY <1>2, <2>1 DEF Whole, Phased, Spoken
<1>5. commit.by # a /\ commit.by \in 0..a /\ ~(a > a)
  BY <1>1, <1>2, <1>3 DEF Shared
<1>6. ASSUME run'[a] \in Process, run'[a].stack = run[a].stack, run'[a].phase = "reporting", log'[a] = log[a],
             faults' = 0 => faults = 0
      PROVE  Whole(a)'
  <2>1. Shaped(a)'
    BY <1>1, <1>2, <1>6 DEF Whole, Shaped
  <2>2. Phased(a)'
    BY <1>1, <1>3, <1>4, <1>5, <1>6 DEF Phased
  <2>3. Spoken(a)'
    BY <1>1, <1>2, <1>6 DEF Whole, Spoken
  <2>4. Faultless(a)'
    BY <1>1, <1>2, <1>4, <1>6 DEF Whole, Faultless
  <2> QED
    BY <2>1, <2>2, <2>3, <2>4 DEF Whole
<1>7. /\ DOMAIN run' = Attempts /\ DOMAIN log' = Attempts
      /\ (\A b \in Attempts \ {a} : run'[b] = run[b] /\ log'[b] = log[b])
      /\ Whole(a)' /\ faults' \in 0..MaxFaults /\ (faults' = 0 => faults = 0)
      /\ commit.by # 0 => run'[a].phase # "running"
  <2>1. CASE commit.by # 0 /\ run' = [run EXCEPT ![a].phase = "reporting"] /\ UNCHANGED <<log, faults>>
    <3>1. run'[a] = [run[a] EXCEPT !.phase = "reporting"]
      BY <1>2, <2>1
    <3>2. run'[a] \in Process /\ run'[a].stack = run[a].stack /\ run'[a].phase = "reporting"
      BY <1>2, <3>1 DEF Process
    <3> QED
      BY <1>2, <1>6, <2>1, <3>2
  <2>2. CASE /\ commit.by = 0 /\ Fault("audit") /\ UNCHANGED log
             /\ run' = [run EXCEPT ![a].phase = "reporting", ![a].raising = "error"]
    <3>1. run'[a] = [run[a] EXCEPT !.phase = "reporting", !.raising = "error"]
      BY <1>2, <2>2
    <3>2. run'[a] \in Process /\ run'[a].stack = run[a].stack /\ run'[a].phase = "reporting"
      BY <1>2, <3>1 DEF Process
    <3>3. faults' \in 0..MaxFaults /\ faults' # 0
      BY <2>2, FaultIs
    <3> QED
      BY <1>2, <1>6, <2>2, <3>2, <3>3
  <2>3. CASE /\ commit.by = 0 /\ log' = [log EXCEPT ![a] = <<Before("operation", 1)>>] /\ UNCHANGED faults
             /\ run' = [run EXCEPT ![a].phase = "running", ![a].stack = <<[kind |-> "operation", call |-> 1, record |-> 0]>>]
    <3>1. PICK S, L : S = <<[kind |-> "operation", call |-> 1, record |-> 0]>> /\ L = <<Before("operation", 1)>>
      OBVIOUS
    <3>2. /\ S \in Seq(Frame) /\ Len(S) = 1 /\ S[1].call = 1 /\ S[1].kind = "operation"
          /\ L \in Seq(Event) /\ Len(L) = 1 /\ L[1].call = 1 /\ L[1].status = "STARTED" /\ Clean(S, L, <<>>)
      BY <3>1, FirstClean
    <3>3. run'[a] = [run[a] EXCEPT !.phase = "running", !.stack = S] /\ log'[a] = L
      BY <1>2, <2>3, <3>1
    <3>4. run'[a] \in Process /\ run'[a].phase = "running" /\ run'[a].stack = S
      BY <1>2, <3>2, <3>3 DEF Process
    <3>5. 1..Len(S) = {1} /\ 1..Len(L) = {1} /\ Len(S) >= 1
      BY <3>2
    <3>6. Shaped(a)'
      <4>1. /\ \A i \in 1..Len(L) : L[i].call \in 1..i
            /\ \A i \in 1..Len(S) : S[i].call \in 1..Len(L) /\ S[i].kind \notin Tools
        BY <3>2, <3>5 DEF Tools
      <4>2. trace'[a] \in [open : SUBSET Nat, missing : BOOLEAN, end : {"none", "result", "nothing"}]
        BY <1>1, <1>2 DEF Whole, Shaped
      <4>3. records'[a] \in Seq(Note) /\ \A i \in 1..Len(records'[a]) : records'[a][i].call \in 0..Len(L)
        <5>1. PICK R : R = records'[a]
          OBVIOUS
        <5>2. R = <<>>
          BY <1>1, <1>4, <5>1
        <5>3. R \in Seq(Note) /\ Len(R) = 0
          BY <5>2
        <5> QED
          BY <5>1, <5>3
      <4> QED
        BY <3>2, <3>3, <3>4, <4>1, <4>2, <4>3 DEF Shaped
    <3>7. \A j \in 1..Len(log'[a]) : log'[a][j].status \notin Outcomes
      BY <3>2, <3>3, <3>5 DEF Outcomes
    <3>8. Clean(run'[a].stack, log'[a], records'[a]) /\ ~trace'[a].missing /\ trace'[a].end = "none"
      BY <1>1, <1>4, <3>2, <3>3, <3>4
    <3>9. commit'.by # a /\ ~(a > job'.attempt)
      BY <1>1, <1>3, <1>5
    <3>10. Whole(a)'
      BY <3>4, <3>5, <3>6, <3>7, <3>8, <3>9, RunsOn
    <3> QED
      BY <1>2, <2>3, <3>10
  <2> QED
    BY <2>1, <2>2, <2>3 DEF Claim
<1>8. \A b \in Attempts \ {a} : Whole(b)'
  <2> SUFFICES ASSUME NEW b \in Attempts \ {a} PROVE Whole(b)'
    OBVIOUS
  <2>1. Whole(b)
    BY DEF AuditInv
  <2>2. b > job'.attempt => b > job.attempt
    BY <1>1, <1>3 DEF Attempts
  <2> QED
    BY <1>1, <1>7, <2>1, <2>2, RestKeeps
<1>9. Shared'
  <2>1. commit'.by \in 0..job'.attempt /\ (commit'.by = 0 => commit'.anchor = 0)
    BY <1>1, <1>2, <1>3, <1>5 DEF Shared
  <2>2. ASSUME commit.by # 0
        PROVE  commit.records = records[commit.by] /\ commit.anchor \in 1..Len(log'[commit.by]) /\ run'[a].phase # "running"
    <3>1. commit.by \in Attempts
      BY <1>1, <1>2, <1>3, <2>2, AuditAssumption DEF Shared, Attempts
    <3>2. log'[commit.by] = log[commit.by]
      BY <1>5, <1>7, <3>1
    <3> QED
      BY <1>2, <1>7, <2>2, <3>2 DEF Shared
  <2> QED
    BY <1>1, <1>2, <1>3, <1>7, <2>1, <2>2 DEF Shared, Statuses
<1> QED
  BY <1>7, <1>8, <1>9 DEF AuditInv

LEMMA AuditInit == AInit => AuditInv
<1> SUFFICES ASSUME AInit PROVE AuditInv
  OBVIOUS
<1>1. Shared
  BY AuditAssumption DEF AInit, Shared
<1>2. ASSUME NEW a \in Attempts PROVE Whole(a)
  <2>1. PICK empty : empty = <<>>
    OBVIOUS
  <2>2. empty \in Seq(Frame) /\ empty \in Seq(Event) /\ empty \in Seq(Note) /\ Len(empty) = 0 /\ 1..Len(empty) = {} /\ DOMAIN empty = {}
    BY <2>1
  <2>3. run[a] = [phase |-> "none", stack |-> empty, raising |-> "none"] /\ log[a] = empty /\ records[a] = empty
    BY <2>1 DEF AInit
  <2>4. trace[a] = [open |-> {}, missing |-> FALSE, end |-> "none"] /\ commit.by = 0 /\ a # 0
    BY AuditAssumption DEF AInit, Attempts
  <2>5. Shaped(a)
    BY <2>2, <2>3, <2>4 DEF Shaped, Process
  <2>6. Phased(a)
    BY <2>1, <2>2, <2>3, <2>4 DEF Phased
  <2>7. Spoken(a)
    BY <2>2, <2>3, <2>4 DEF Spoken
  <2>8. Clean(empty, empty, empty)
    BY <2>2 DEF Clean, Opened, Told, Listed, EndsIn, StartsIn
  <2>9. Faultless(a)
    BY <2>3, <2>4, <2>8 DEF Faultless
  <2> QED
    BY <2>5, <2>6, <2>7, <2>9 DEF Whole
<1> QED
  BY <1>1, <1>2 DEF AuditInv

LEMMA AuditStep == AuditInv /\ [ANext]_avars => AuditInv'
<1> SUFFICES ASSUME AuditInv, [ANext]_avars PROVE AuditInv'
  OBVIOUS
<1>1. CASE Cancel
  BY <1>1, CancelKeeps
<1>2. ASSUME NEW a \in Attempts,
             \/ Claim(a) \/ Succeed(a) \/ Raise(a) \/ Break(a) \/ CommitResult(a)
             \/ Return(a) \/ Finish(a) \/ Report(a) \/ Kill(a)
             \/ \E kind \in Tools \cup {"model"} : BeginCall(a, kind)
      PROVE  AuditInv'
  BY <1>2, ClaimKeeps, SucceedKeeps, RaiseKeeps, BreakKeeps, CommitKeeps, ReturnKeeps, FinishKeeps, ReportKeeps,
     KillKeeps, BeginKeeps
<1>3. CASE UNCHANGED avars
  <2>1. UNCHANGED <<job, commit, run, log, records, trace, begun, faults>>
    BY <1>3 DEF avars
  <2>2. \A b \in Attempts : Whole(b)'
    BY <2>1, RestKeeps DEF AuditInv
  <2>3. Shared'
    BY <2>1 DEF AuditInv, Shared
  <2> QED
    BY <2>2, <2>3 DEF AuditInv
<1> QED
  BY <1>1, <1>2, <1>3 DEF ANext

\* What a reader of the invariant finds.
LEMMA AuditReads == AuditInv => AuditTellsTheEnd
<1> SUFFICES ASSUME AuditInv PROVE AuditTellsTheEnd
  OBVIOUS
<1>1. ASSUME NEW a \in Attempts
      PROVE  /\ DOMAIN log[a] = 1..Len(log[a]) /\ DOMAIN records[a] = 1..Len(records[a])
             /\ log[a] \in Seq(Event) /\ records[a] \in Seq(Note)
  BY DEF AuditInv, Whole, Shaped
<1>2. OutcomeIsTrue
  BY <1>1 DEF AuditInv, Whole, Spoken, OutcomeIsTrue
<1>3. ATypeOK
  <2>1. commit.anchor \in Nat /\ commit.by \in 0..MaxAttempts
    <3>1. commit.by \in 0..job.attempt /\ job.attempt \in 0..MaxAttempts
      BY DEF AuditInv, Shared
    <3>2. commit.by \in 0..MaxAttempts
      BY <3>1, AuditAssumption
    <3>3. CASE commit.by = 0
      BY <3>2, <3>3 DEF AuditInv, Shared
    <3>4. CASE commit.by # 0
      <4>1. commit.by \in Attempts
        BY <3>2, <3>4 DEF Attempts
      <4>2. Len(log[commit.by]) \in Nat /\ commit.anchor \in 1..Len(log[commit.by])
        BY <1>1, <3>4, <4>1 DEF AuditInv, Shared
      <4> QED
        BY <3>2, <4>2
    <3> QED
      BY <3>3, <3>4
  <2>2. ASSUME NEW a \in Attempts
        PROVE  /\ run[a].phase \in {"none", "running", "returned", "closing", "reporting", "done", "dead"}
               /\ run[a].raising \in {"none", "error", "refused"}
               /\ \A i \in DOMAIN log[a]: log[a][i].call \in 1..i
               /\ \A i \in DOMAIN records[a]: records[a][i].call \in 0..Len(log[a])
               /\ trace[a].end \in {"none", "result", "nothing"}
    BY <1>1 DEF AuditInv, Whole, Shaped, Process
  <2> QED
    BY <2>1, <2>2 DEF AuditInv, Shared, ATypeOK
<1>4. ASSUME faults = 0, NEW a \in Attempts
      PROVE  /\ Opened(run[a].stack, log[a], records[a]) /\ Told(run[a].stack, log[a]) /\ Listed(log[a], records[a])
             /\ ~trace[a].missing /\ (trace[a].end # "none" => ((trace[a].end = "result") = (commit.by = a)))
  BY <1>4 DEF AuditInv, Whole, Faultless, Clean
<1>5. ASSUME NEW a \in Attempts
      PROVE  /\ \A i : Ends(a, i) = EndsIn(log[a], i)
             /\ Starts(a, Tools) = StartsIn(log[a], Tools) /\ Starts(a, {"model"}) = StartsIn(log[a], {"model"})
             /\ Starts(a, Tools \cup {"model"}) = StartsIn(log[a], Tools \cup {"model"})
             /\ Starts(a, Tools \cup {"model", "operation"}) = StartsIn(log[a], Tools \cup {"model", "operation"})
  BY DEF Ends, EndsIn, Starts, StartsIn
<1>6. ASSUME faults = 0 PROVE EndedInOrder
  <2> SUFFICES ASSUME NEW a \in Attempts
               PROVE  /\ run[a].phase \in {"reporting", "done"} =>
                           \A i \in Starts(a, Tools \cup {"model", "operation"}) : Cardinality(Ends(a, i)) = 1
                      /\ \A i, k \in Starts(a, Tools \cup {"model"}) : \A j \in Ends(a, i) :
                           i < k /\ k < j => \E l \in Ends(a, k) : l < j
    BY DEF EndedInOrder
  <2>1. Told(run[a].stack, log[a])
    BY <1>4, <1>6
  <2>2. ASSUME run[a].phase \in {"reporting", "done"}, NEW i \in StartsIn(log[a], Tools \cup {"model", "operation"})
        PROVE  Cardinality(EndsIn(log[a], i)) = 1
    <3>1. Len(run[a].stack) = 0
      BY <2>2 DEF AuditInv, Whole, Phased
    <3>2. EndsIn(log[a], i) # {}
      BY <2>1, <3>1 DEF Told, StartsIn
    <3>3. PICK j : j \in EndsIn(log[a], i)
      BY <3>2
    <3>4. EndsIn(log[a], i) = {j}
      BY <2>1, <3>3 DEF Told, EndsIn
    <3> QED
      BY <3>4, FS_Singleton
  <2>3. ASSUME NEW i \in Starts(a, Tools \cup {"model"}), NEW k \in Starts(a, Tools \cup {"model"}),
               NEW j \in Ends(a, i), i < k, k < j
        PROVE  \E l \in Ends(a, k) : l < j
    <3>1. /\ i \in StartsIn(log[a], Tools \cup {"model"}) /\ k \in StartsIn(log[a], Tools \cup {"model"})
          /\ Ends(a, i) = EndsIn(log[a], i) /\ Ends(a, k) = EndsIn(log[a], k)
      BY <1>5
    <3>2. PICK L : L = log[a]
      OBVIOUS
    <3>3. \A p, q \in StartsIn(L, Tools \cup {"model"}) : \A e \in EndsIn(L, p) : p < q /\ q < e => \E l \in EndsIn(L, q) : l < e
      BY <2>1, <3>2 DEF Told
    <3>4. /\ i \in StartsIn(L, Tools \cup {"model"}) /\ k \in StartsIn(L, Tools \cup {"model"})
          /\ j \in EndsIn(L, i) /\ Ends(a, k) = EndsIn(L, k)
      BY <2>3, <3>1, <3>2
    <3> QED
      BY <2>3, <3>3, <3>4
  <2> QED
    BY <1>5, <2>2, <2>3
<1>7. ASSUME faults = 0 PROVE StoppedIsReadable
  <2> SUFFICES ASSUME NEW a \in Attempts PROVE ~Refused(a)
    BY DEF StoppedIsReadable
  <2>1. ~(commit.by # a /\ \E j \in DOMAIN log[a] : log[a][j].status = "COMMITTED")
    BY <1>2 DEF OutcomeIsTrue
  <2>2. ~TranscriptDiffers(a)
    BY <1>4, <1>7 DEF TranscriptDiffers
  <2>3. ASSUME commit.by = a PROVE ~RecordsDiffer(a)
    <3>1. a # 0
      BY AuditAssumption DEF Attempts
    <3>2. commit.records = records[a] /\ commit.anchor \in 1..Len(log[a])
      BY <2>3, <3>1 DEF AuditInv, Shared
    <3>3. Opened(run[a].stack, log[a], records[a]) /\ Told(run[a].stack, log[a]) /\ Listed(log[a], records[a])
      BY <1>4, <1>7
    <3>4. Cardinality(StartsIn(log[a], Tools)) = Len(records[a])
      BY <1>1, <3>3, ListedCount
    <3>5. Len(run[a].stack) \in Nat /\ Len(run[a].stack) <= 1
      BY <2>3 DEF AuditInv, Whole, Phased, Shaped, Process
    <3>6. ASSUME NEW i \in StartsIn(log[a], Tools \cup {"model"}) PROVE EndsIn(log[a], i) # {}
      <4> SUFFICES ASSUME EndsIn(log[a], i) = {} PROVE FALSE
        OBVIOUS
      <4>1. PICK k \in 1..Len(run[a].stack) : run[a].stack[k].call = i
        BY <3>3 DEF Told, StartsIn
      <4>2. k = 1
        BY <3>5
      <4>3. run[a].stack[k].kind = "operation" /\ log[a][i] = Before(run[a].stack[k].kind, run[a].stack[k].call)
        BY <3>3, <4>1, <4>2 DEF Opened
      <4>4. log[a][i].kind = "operation"
        BY <4>3 DEF Before
      <4> QED
        BY <4>4 DEF StartsIn, Tools
    <3>7. ASSUME NEW i \in StartsIn(log[a], Tools)
          PROVE  \E r \in ToSet(commit.records), j \in EndsIn(log[a], i) : r.call = i /\ r.status = log[a][j].status
      <4>1. i \in StartsIn(log[a], Tools \cup {"model"})
        BY DEF StartsIn
      <4>2. PICK j : j \in EndsIn(log[a], i)
        BY <3>6, <4>1
      <4>3. PICK q \in 1..Len(records[a]) : records[a][q].call = i /\ \A l \in EndsIn(log[a], i) : records[a][q].status = log[a][l].status
        BY <3>3 DEF Listed
      <4>4. records[a][q] \in ToSet(commit.records)
        BY <1>1, <3>2, <4>3 DEF ToSet
      <4> QED
        BY <4>2, <4>3, <4>4
    <3>8. \A i \in StartsIn(log[a], {"model"}) : EndsIn(log[a], i) # {}
      BY <3>6 DEF StartsIn
    <3> QED
      <4>1. commit.anchor \in DOMAIN log[a]
        BY <1>1, <3>2
      <4>2. Cardinality(Starts(a, Tools)) = Len(commit.records)
        BY <1>5, <3>2, <3>4
      <4>3. \A i \in Starts(a, Tools) : \E r \in ToSet(commit.records), j \in Ends(a, i) : r.call = i /\ r.status = log[a][j].status
        BY <1>5, <3>7
      <4>4. \A i \in Starts(a, {"model"}) : Ends(a, i) # {}
        BY <1>5, <3>8
      <4> QED
        BY <4>1, <4>2, <4>3, <4>4 DEF RecordsDiffer
  <2> QED
    BY <2>1, <2>2, <2>3 DEF Refused
<1> QED
  BY <1>2, <1>3, <1>6, <1>7 DEF AuditTellsTheEnd

\* Whatever a worker dies of and wherever: the last event of an attempt says what became of
\* the commit, and while no write failed a reader accepts what every attempt has written and
\* its calls ended in the order of a stack (services/modeling_audit.py, runtime_trace.py).
THEOREM AuditsTellTheEnd == ASpec => []AuditTellsTheEnd
<1>1. ASpec => []AuditInv
  BY AuditInit, AuditStep, PTL DEF ASpec
<1> QED
  BY <1>1, AuditReads, PTL

(***************************************************************************)
(* The delivery of runs and of their reviews.                              *)
(***************************************************************************)

\* A review is about a run whose trace is here, or about one of a committed export.
Placed(row) ==
  /\ row.export \in 0..Len(exported)
  /\ row.export > 0 => row.run \in exported[row.export].runs

\* What a copy holds that was made of the committed revision.
Current(c) ==
  /\ \A v \in Review : review[v] # Unset => c.review[v] = review[v]
  /\ \A v \in Review : c.review[v] # Unset => Placed(c.review[v])
  /\ \A i \in 1..Len(exported) : \A k \in Keys(exported[i]) : c.key[k] = exported[i]
  /\ c.out # Unset =>
       /\ \A k \in Keys(c.out) : c.key[k] = c.out
       /\ \A v \in c.out.reviews :
            /\ c.review[v] # Unset
            /\ c.review[v].run \in c.out.runs \/ \E j \in 1..Len(exported) : c.review[v].run \in exported[j].runs

\* A copy knows the revision it was made of.
CopyIsOf(w) ==
  copy[w] # Unset => copy[w].version \in 0..version /\ (copy[w].version = version => Current(copy[w]))

\* The inductive invariant of the deliveries.
DInv ==
  /\ DTypeOK
  /\ \A i \in 1..Len(exported) : \A k \in Keys(exported[i]) : key[k] = exported[i]
  /\ \A v \in Review : review[v] # Unset => Placed(review[v])
  /\ \A i \in 1..Len(exported) : \A v \in exported[i].reviews :
       review[v] # Unset /\ \E k \in 1..i : review[v].run \in exported[k].runs
  /\ \A w \in Worker : CopyIsOf(w)

LEMMA DeliveryInit == DInit => DInv
BY DeliveryAssumption DEF DInit, DInv, DTypeOK, CopyIsOf

LEMMA FilesAre ==
  ASSUME NEW f \in Files
  PROVE  f.batch \in Batches /\ f.runs \subseteq Run /\ f.reviews \subseteq Review /\ Keys(f) \subseteq Key /\ f # Unset
BY DeliveryAssumption DEF Files, Keys, Key

\* A copy is made; nothing is committed.
LEMMA CopyMade ==
  ASSUME DInv, NEW w \in Worker, NEW c \in Copy, copy' = [copy EXCEPT ![w] = c],
         c.version = version, Current(c), UNCHANGED <<version, review, key, exported>>
  PROVE  DInv'
<1>1. version \in Nat /\ copy \in [Worker -> Copy \union {Unset}]
  BY DEF DInv, DTypeOK
<1>2. copy'[w] = c /\ \A x \in Worker \ {w} : copy'[x] = copy[x]
  BY <1>1
<1>3. DTypeOK'
  BY <1>1 DEF DInv, DTypeOK
<1>4. Current(c)'
  BY DEF Current, Placed
<1>5. \A x \in Worker : CopyIsOf(x)'
  <2> SUFFICES ASSUME NEW x \in Worker PROVE CopyIsOf(x)'
    OBVIOUS
  <2>1. CASE x = w
    BY <1>1, <1>2, <1>4, <2>1 DEF CopyIsOf
  <2>2. CASE x # w
    <3>1. CopyIsOf(x) /\ copy'[x] = copy[x] /\ version' = version
      BY <1>2, <2>2 DEF DInv
    <3> QED
      BY <3>1 DEF CopyIsOf, Current, Placed
  <2> QED
    BY <2>1, <2>2
<1>6. \A v \in Review : review'[v] # Unset => Placed(review[v])'
  BY DEF DInv, Placed
<1> QED
  BY <1>3, <1>5, <1>6 DEF DInv

LEMMA SubmitKeeps ==
  ASSUME DInv, NEW w \in Worker, NEW v \in Review, NEW r \in Run, NEW i \in 0..MaxExports, Submit(w, v, r, i)
  PROVE  DInv'
<1>1. PICK c : c = [version |-> version, review |-> [review EXCEPT ![v] = RowOf(r, i)], key |-> key, out |-> Unset]
  OBVIOUS
<1>2. /\ version \in Nat /\ review \in [Review -> OnFile \union {Unset}] /\ key \in [Key -> Files \union {Unset}]
      /\ exported \in Seq(Files)
  BY DEF DInv, DTypeOK
<1>3. /\ review[v] = Unset /\ i \in 0..Len(exported) /\ (i > 0 => r \in exported[i].runs)
      /\ copy' = [copy EXCEPT ![w] = c] /\ UNCHANGED <<version, review, key, exported>>
  BY <1>1 DEF Submit
<1>4. PICK row : row = RowOf(r, i)
  OBVIOUS
<1>5. row \in OnFile /\ row.run = r /\ row.export = i
  BY <1>4 DEF RowOf, OnFile
<1>6. PICK R : R = [review EXCEPT ![v] = row]
  OBVIOUS
<1>7. R \in [Review -> OnFile \union {Unset}] /\ R[v] = row /\ \A u \in Review \ {v} : R[u] = review[u]
  BY <1>2, <1>5, <1>6
<1>8. c = [version |-> version, review |-> R, key |-> key, out |-> Unset]
  BY <1>1, <1>4, <1>6
<1>9. c \in Copy /\ c.version = version /\ c.review = R /\ c.key = key /\ c.out = Unset
  BY <1>2, <1>7, <1>8 DEF Copy
<1>10. Current(c)
  <2>1. \A u \in Review : review[u] # Unset => R[u] = review[u]
    BY <1>3, <1>7
  <2>2. \A u \in Review : R[u] # Unset => Placed(R[u])
    <3>1. Placed(row)
      BY <1>3, <1>5 DEF Placed
    <3>2. \A u \in Review : review[u] # Unset => Placed(review[u])
      BY DEF DInv
    <3> QED
      BY <1>7, <3>1, <3>2
  <2>3. \A j \in 1..Len(exported) : \A k \in Keys(exported[j]) : key[k] = exported[j]
    BY DEF DInv
  <2> QED
    BY <1>9, <2>1, <2>2, <2>3 DEF Current
<1> QED
  BY <1>3, <1>9, <1>10, CopyMade

LEMMA ExportKeeps ==
  ASSUME DInv, NEW w \in Worker, NEW b \in Batches, NEW runs \in {{}} \union {{r} : r \in Run},
         NEW asked \in SUBSET OnFileNow, NEW named \in SUBSET DOMAIN exported, ExportBatch(w, b, runs, asked, named)
  PROVE  DInv'
<1>1. PICK reviews, files, keys, c :
        /\ reviews = Selected(runs, asked) /\ files = [batch |-> b, runs |-> runs, reviews |-> reviews]
        /\ keys = [k \in Key |-> IF k \in Keys(files) THEN files ELSE key[k]]
        /\ c = [version |-> version, review |-> review, out |-> files, key |-> keys]
  OBVIOUS
<1>2. /\ version \in Nat /\ review \in [Review -> OnFile \union {Unset}] /\ key \in [Key -> Files \union {Unset}]
      /\ exported \in Seq(Files) /\ DOMAIN exported = 1..Len(exported)
  BY DEF DInv, DTypeOK
<1>3. /\ \A v \in reviews : review[v].run \in runs \union Known(reviews, named)
      /\ \A k \in Keys(files) : key[k] \in {Unset, files}
      /\ copy' = [copy EXCEPT ![w] = c] /\ UNCHANGED <<version, review, key, exported>>
  BY <1>1 DEF ExportBatch
<1>4. reviews \subseteq Review /\ \A v \in reviews : review[v] # Unset
  BY <1>1 DEF Selected
<1>5. runs \subseteq Run
  OBVIOUS
<1>6. files \in Files /\ files.runs = runs /\ files.reviews = reviews /\ files # Unset
  BY <1>1, <1>4, <1>5, DeliveryAssumption DEF Files
<1>7. keys \in [Key -> Files \union {Unset}] /\ \A k \in Key : keys[k] = IF k \in Keys(files) THEN files ELSE key[k]
  BY <1>1, <1>2, <1>6
<1>8. c \in Copy /\ c.version = version /\ c.review = review /\ c.key = keys /\ c.out = files
  BY <1>1, <1>2, <1>6, <1>7 DEF Copy
<1>9. \A v \in Review : review[v] # Unset => Placed(review[v])
  BY DEF DInv
<1>10. Current(c)
  <2>1. ASSUME NEW j \in 1..Len(exported), NEW k \in Keys(exported[j]) PROVE keys[k] = exported[j]
    <3>1. exported[j] \in Files
      BY <1>2
    <3>2. k \in Key /\ exported[j] # Unset
      BY <3>1, FilesAre
    <3>3. key[k] = exported[j]
      BY DEF DInv
    <3> QED
      BY <1>3, <1>7, <3>2, <3>3
  <2>2. \A k \in Keys(files) : keys[k] = files
    BY <1>6, <1>7, FilesAre
  <2>3. ASSUME NEW v \in reviews
        PROVE  review[v].run \in runs \/ \E j \in 1..Len(exported) : review[v].run \in exported[j].runs
    <3>1. CASE review[v].run \in runs
      BY <3>1
    <3>2. CASE review[v].run \in Known(reviews, named)
      <4>1. PICK j \in named \union ({review[u].export : u \in reviews} \ {0}) : review[v].run \in exported[j].runs
        BY <3>2 DEF Known, RunsOf
      <4>2. CASE j \in named
        BY <1>2, <4>1, <4>2
      <4>3. CASE j \in {review[u].export : u \in reviews} \ {0}
        <5>1. PICK u \in reviews : j = review[u].export /\ j # 0
          BY <4>3
        <5>2. Placed(review[u])
          BY <1>4, <1>9
        <5>3. j \in 1..Len(exported)
          BY <1>2, <5>1, <5>2 DEF Placed
        <5> QED
          BY <4>1, <5>3
      <4> QED
        BY <4>1, <4>2, <4>3
    <3> QED
      BY <1>3, <3>1, <3>2
  <2> QED
    BY <1>4, <1>6, <1>8, <1>9, <2>1, <2>2, <2>3 DEF Current
<1> QED
  BY <1>3, <1>8, <1>10, CopyMade

LEMMA DiscardKeeps == ASSUME DInv, NEW w \in Worker, Discard(w) PROVE DInv'
<1>1. copy' = [copy EXCEPT ![w] = Unset] /\ UNCHANGED <<version, review, key, exported>>
  BY DEF Discard
<1>2. version \in Nat /\ copy \in [Worker -> Copy \union {Unset}]
  BY DEF DInv, DTypeOK
<1>3. copy'[w] = Unset /\ \A x \in Worker \ {w} : copy'[x] = copy[x]
  BY <1>1, <1>2
<1>4. DTypeOK'
  BY <1>1, <1>2 DEF DInv, DTypeOK
<1>5. \A x \in Worker : CopyIsOf(x)'
  <2> SUFFICES ASSUME NEW x \in Worker \ {w} PROVE CopyIsOf(x)'
    BY <1>3 DEF CopyIsOf
  <2>1. CopyIsOf(x) /\ copy'[x] = copy[x] /\ version' = version
    BY <1>1, <1>3 DEF DInv
  <2> QED
    BY <1>1, <2>1 DEF CopyIsOf, Current, Placed
<1>6. \A v \in Review : review'[v] # Unset => Placed(review[v])'
  BY <1>1 DEF DInv, Placed
<1> QED
  BY <1>1, <1>4, <1>5, <1>6 DEF DInv

LEMMA PublishKeeps ==
  ASSUME DInv, NEW w \in Worker, Publish(w)
  PROVE  DInv' /\ \A v \in Review : review[v] # Unset => review'[v] = review[v]
<1>1. PICK c, n : c = copy[w] /\ n = Len(exported)
  OBVIOUS
<1>2. /\ c # Unset /\ c.version = version /\ version' = version + 1 /\ review' = c.review /\ key' = c.key
      /\ exported' = IF c.out = Unset THEN exported ELSE Append(exported, c.out)
      /\ copy' = [copy EXCEPT ![w] = Unset]
  BY <1>1 DEF Publish, Fresh
<1>3. /\ version \in Nat /\ review \in [Review -> OnFile \union {Unset}] /\ exported \in Seq(Files)
      /\ copy \in [Worker -> Copy \union {Unset}] /\ n \in Nat
  BY <1>1 DEF DInv, DTypeOK
<1>4. c \in Copy
  BY <1>1, <1>2, <1>3
<1>5. c.review \in [Review -> OnFile \union {Unset}] /\ c.key \in [Key -> Files \union {Unset}] /\ c.out \in Files \union {Unset}
  BY <1>4 DEF Copy
<1>6. Current(c)
  BY <1>1, <1>2 DEF DInv, CopyIsOf
<1>7. /\ exported' \in Seq(Files) /\ Len(exported') = (IF c.out = Unset THEN n ELSE n + 1)
      /\ (\A i \in 1..n : exported'[i] = exported[i]) /\ (c.out # Unset => exported'[n + 1] = c.out)
      /\ 1..n + 1 = 1..n \union {n + 1} /\ n + 1 \notin 1..n
  BY <1>1, <1>2, <1>3, <1>5
<1>8. \A i \in 1..Len(exported') : i \in 1..n \/ (c.out # Unset /\ i = n + 1)
  BY <1>7
<1>9. DTypeOK'
  BY <1>2, <1>3, <1>5, <1>7 DEF DTypeOK
<1>10. \A i \in 1..Len(exported') : \A k \in Keys(exported'[i]) : c.key[k] = exported'[i]
  <2>1. \A i \in 1..n : \A k \in Keys(exported[i]) : c.key[k] = exported[i]
    BY <1>1, <1>6 DEF Current
  <2>2. c.out # Unset => \A k \in Keys(c.out) : c.key[k] = c.out
    BY <1>6 DEF Current
  <2> SUFFICES ASSUME NEW i \in 1..Len(exported') PROVE \A k \in Keys(exported'[i]) : c.key[k] = exported'[i]
    OBVIOUS
  <2>3. CASE i \in 1..n
    BY <1>7, <2>1, <2>3
  <2>4. CASE c.out # Unset /\ i = n + 1
    BY <1>7, <2>2, <2>4
  <2> QED
    BY <1>8, <2>3, <2>4
<1>11. ASSUME NEW v \in Review, c.review[v] # Unset
       PROVE  /\ c.review[v].export \in 0..Len(exported')
              /\ c.review[v].export > 0 => c.review[v].run \in exported'[c.review[v].export].runs
  <2>1. PICK e : e = c.review[v].export
    OBVIOUS
  <2>2. e \in 0..n /\ (e > 0 => c.review[v].run \in exported[e].runs)
    BY <1>1, <1>6, <1>11, <2>1 DEF Current, Placed
  <2>3. e \in 0..Len(exported') /\ (e > 0 => e \in 1..n)
    BY <1>3, <1>7, <2>2
  <2> QED
    BY <1>7, <2>1, <2>2, <2>3
<1>12. ASSUME NEW i \in 1..Len(exported'), NEW v \in exported'[i].reviews
       PROVE  c.review[v] # Unset /\ \E k \in 1..i : c.review[v].run \in exported'[k].runs
  <2>1. CASE i \in 1..n
    <3>1. exported'[i] = exported[i] /\ exported[i] \in Files
      BY <1>1, <1>3, <1>7, <2>1
    <3>2. v \in Review
      BY <1>12, <3>1, FilesAre
    <3>3. review[v] # Unset /\ \E k \in 1..i : review[v].run \in exported[k].runs
      BY <1>1, <1>12, <2>1, <3>1 DEF DInv
    <3>4. c.review[v] = review[v]
      BY <1>6, <3>2, <3>3 DEF Current
    <3>5. \A k \in 1..i : k \in 1..n
      BY <1>3, <2>1
    <3> QED
      BY <1>7, <3>3, <3>4, <3>5
  <2>2. CASE c.out # Unset /\ i = n + 1
    <3>1. exported'[i] = c.out /\ n + 1 \in 1..n + 1
      BY <1>3, <1>7, <2>2
    <3>2. /\ c.review[v] # Unset
          /\ c.review[v].run \in c.out.runs \/ \E j \in 1..n : c.review[v].run \in exported[j].runs
      BY <1>1, <1>6, <1>12, <2>2, <3>1 DEF Current
    <3>3. CASE c.review[v].run \in c.out.runs
      BY <2>2, <3>1, <3>2, <3>3
    <3>4. CASE \E j \in 1..n : c.review[v].run \in exported[j].runs
      <4>1. PICK j \in 1..n : c.review[v].run \in exported[j].runs
        BY <3>4
      <4>2. j \in 1..i /\ exported'[j] = exported[j]
        BY <1>7, <2>2
      <4> QED
        BY <3>2, <4>1, <4>2
    <3> QED
      BY <3>2, <3>3, <3>4
  <2> QED
    BY <1>8, <2>1, <2>2
<1>13. \A x \in Worker : CopyIsOf(x)'
  <2> SUFFICES ASSUME NEW x \in Worker, copy'[x] # Unset
               PROVE  copy'[x].version \in 0..version' /\ copy'[x].version # version'
    BY DEF CopyIsOf
  <2>1. copy'[x] = copy[x]
    BY <1>2, <1>3
  <2>2. copy[x].version \in 0..version
    BY <2>1 DEF DInv, CopyIsOf
  <2> QED
    BY <1>2, <1>3, <2>1, <2>2
<1>14. \A v \in Review : review[v] # Unset => review'[v] = review[v]
  BY <1>2, <1>6 DEF Current
<1>15. \A v \in Review : review'[v] # Unset => Placed(review[v])'
  BY <1>2, <1>11 DEF Placed
<1>16. DInv'
  BY <1>2, <1>9, <1>10, <1>12, <1>13, <1>15 DEF DInv
<1> QED
  BY <1>14, <1>16

LEMMA DeliveryStep ==
  ASSUME DInv, [DNext]_dvars
  PROVE  DInv' /\ \A v \in Review : review[v] # Unset => review'[v] = review[v]
<1>1. ASSUME NEW w \in Worker, NEW v \in Review, NEW r \in Run, NEW i \in 0..MaxExports, Submit(w, v, r, i)
      PROVE  DInv' /\ review' = review
  BY <1>1, SubmitKeeps DEF Submit
<1>2. ASSUME NEW w \in Worker, NEW b \in Batches, NEW runs \in {{}} \union {{r} : r \in Run},
             NEW asked \in SUBSET OnFileNow, NEW named \in SUBSET DOMAIN exported, ExportBatch(w, b, runs, asked, named)
      PROVE  DInv' /\ review' = review
  BY <1>2, ExportKeeps DEF ExportBatch
<1>3. ASSUME NEW w \in Worker, Discard(w) PROVE DInv' /\ review' = review
  BY <1>3, DiscardKeeps DEF Discard
<1>4. CASE UNCHANGED dvars
  <2>1. UNCHANGED <<version, review, key, exported, copy>>
    BY <1>4 DEF dvars
  <2>2. \A x \in Worker : CopyIsOf(x)'
    BY <2>1 DEF DInv, CopyIsOf, Current, Placed
  <2>3. \A v \in Review : review'[v] # Unset => Placed(review[v])'
    BY <2>1 DEF DInv, Placed
  <2>4. DTypeOK'
    BY <2>1 DEF DInv, DTypeOK
  <2>5. DInv'
    BY <2>1, <2>2, <2>3, <2>4 DEF DInv
  <2> QED
    BY <2>1, <2>5
<1> QED
  BY <1>1, <1>2, <1>3, <1>4, PublishKeeps DEF DNext

LEMMA DeliverySafe == ASSUME DInv PROVE DTypeOK /\ OneDelivery /\ ReviewsResolve
<1>1. DTypeOK /\ exported \in Seq(Files) /\ DOMAIN exported = 1..Len(exported)
  BY DEF DInv, DTypeOK
<1>2. ASSUME NEW i \in 1..Len(exported), NEW k \in 1..Len(exported),
             \/ exported[i].batch = exported[k].batch
             \/ exported[i].runs \intersect exported[k].runs # {}
             \/ exported[i].reviews \intersect exported[k].reviews # {}
      PROVE  exported[i] = exported[k]
  <2>1. PICK x : x \in Keys(exported[i]) /\ x \in Keys(exported[k])
    BY <1>2 DEF Keys
  <2> QED
    BY <2>1 DEF DInv
<1>3. OneDelivery
  BY <1>1, <1>2 DEF OneDelivery
<1>4. ReviewsResolve
  BY <1>1 DEF DInv, ReviewsResolve
<1> QED
  BY <1>1, <1>3, <1>4

\* Whoever exports, submits or is refused as stale: a run, a review and the name of a batch
\* are each part of one delivery, who receives the batches in order can resolve every review,
\* and a review that was accepted stays (services/ontology_traces.py).
THEOREM RunsAreDeliveredOnce == DSpec => DeliveredOnce
<1>1. DSpec => []DInv
  BY DeliveryInit, DeliveryStep, PTL DEF DSpec
<1>2. DInv /\ [DNext]_dvars => [\A v \in Review : review[v] # Unset => review'[v] = review[v]]_dvars
  BY DeliveryStep
<1>3. DInv => DTypeOK /\ OneDelivery /\ ReviewsResolve
  BY DeliverySafe
<1> QED
  BY <1>1, <1>2, <1>3, PTL DEF DSpec, DeliveredOnce, ReviewsStay
================================================================================
