---------------------------- MODULE MCWorkspace ----------------------------
(***************************************************************************)
(* Instance for TLC of what makes and fills a workspace: its setup and     *)
(* validation, the closure of the packs its lock is resolved from, the     *)
(* commit of ingestion runs and builds into it, uploads to the service,    *)
(* and the exact reconstruction of an authority from the trees on disk.    *)
(*                                                                         *)
(* The parts share no variable: a behaviour exercises one and leaves the   *)
(* others at their initial states.                                         *)
(***************************************************************************)
EXTENDS WorkspaceSetup, ExactAuthority, PackClosure, Uploads, WorkspaceCommit, TLC

CONSTANTS o1, o2, e1, e2, e3, r, b1, b2, n1, q1, q2, q3, u1, u2, k1, k2,
          Parts   \* parts to exercise

VARIABLE part

setup == vars
commits == cvars
uploads == uvars

-----------------------------------------------------------------------------
(* Four packs, the third in two versions of which one is archived, with    *)
(* every way of needing one another that has a diamond, a conflict or a    *)
(* cycle in it, and a disk with one flaw or none.                          *)

MCPlaces == ({1, 2, 3, 4} \X {0}) \cup {<<3, 2>>}
VersionAt(p) == IF p = <<3, 2>> THEN 2 ELSE 1
N(i, v) == [id |-> i, version |-> v, content |-> 0]

\* The third pack may be needed with a content it does not have.
Declared(needs, flaw) ==
  {IF flaw = "outdated" /\ n.id = 3 /\ n.version = 1 THEN [n EXCEPT !.content = 9] ELSE n : n \in needs}

Disk(g, flaw) ==
  [p \in MCPlaces |->
    IF flaw = "missing" /\ p = <<4, 0>> THEN Absent
    ELSE [version |-> IF flaw = "twice" /\ p = <<3, 0>> THEN 2 ELSE VersionAt(p),
          needs |-> Declared(g[p], flaw), content |-> 0,
          lock |-> IF flaw = "unlocked" /\ p = <<3, 2>> THEN 9 ELSE 0]]

NeededBy(p) ==
  CASE p = <<1, 0>> -> {N(2, 1), N(3, 1), N(3, 2), N(4, 1)}
    [] p = <<2, 0>> -> {N(1, 1), N(3, 1), N(3, 2), N(4, 1)}
    [] p = <<3, 0>> -> {N(2, 1), N(4, 1)}
    [] p = <<3, 2>> -> {N(4, 1)}
    [] p = <<4, 0>> -> {N(2, 1)}

MCGraphs == {[p \in MCPlaces |->
               CASE p = <<1, 0>> -> a [] p = <<2, 0>> -> b [] p = <<3, 0>> -> c
                 [] p = <<3, 2>> -> d [] OTHER -> e] :
             a \in SUBSET NeededBy(<<1, 0>>), b \in SUBSET NeededBy(<<2, 0>>),
             c \in SUBSET NeededBy(<<3, 0>>), d \in SUBSET NeededBy(<<3, 2>>),
             e \in SUBSET NeededBy(<<4, 0>>)}

MCDisks == {Disk(g, f) : g \in MCGraphs, f \in {"none", "outdated", "unlocked", "missing", "twice"}}

\* The second pack needs the third and the first needs both: the disks for
\* edits.
MCFewDisks == {Disk([p \in MCPlaces |->
                 CASE p = <<1, 0>> -> {N(2, 1), N(3, 1)} [] p = <<2, 0>> -> b [] OTHER -> {}], f) :
               b \in SUBSET {N(3, 1), N(4, 1), N(3, 2)}, f \in {"none", "outdated", "unlocked"}}

MCInitialPacks == MCDisks \cup MCFewDisks

MCProjects == {{<<1, 1>>}, {<<1, 1>>, <<3, 1>>}}

\* One package of each build, both of one name and version.
MCVersionOf == b1 :> n1 @@ b2 :> n1

\* Two commands set the place up while one locks or judges it; or one locks
\* and another judges what somebody has set up.
Settling == INSTANCE WorkspaceSetup WITH Others <- {o1}

Judging == INSTANCE WorkspaceSetup WITH Setups <- {}

\* Three processes, a run and a build; or two builds of one version, with fewer faults.
Building == INSTANCE WorkspaceCommit WITH MaxFaults <- 1

\* Three requests that may be refused, or two of which one may die.
Served == INSTANCE Uploads WITH MaxCrashes <- 0, MaxErrors <- 0

Broken == INSTANCE Uploads WITH Requests <- {q1, q2}

MCInit ==
  /\ part \in Parts
  /\ Init
  /\ CASE part = "setup" -> TRUE [] part = "judged" -> Workspace [] OTHER -> place = None
  /\ PInit
  /\ CASE part = "closure" -> disk \in MCDisks /\ roots = {<<1, 1>>}
       [] part = "edited" -> disk \in MCFewDisks /\ roots = {<<1, 1>>, <<3, 1>>}
       [] OTHER -> disk = (CHOOSE d \in MCFewDisks : TRUE) /\ roots = {<<1, 1>>}
  /\ CInit
  /\ CASE part = "ingestion" -> work \in [Procs -> {r, b1}]
       [] part = "versions" -> work \in [Procs -> {b1, b2}]
       [] OTHER -> work = [p \in Procs |-> r]
  /\ UInit
  /\ XInit /\ (part = "authority" \/ level = 5)

SetupStep == part = "setup" /\ Settling!Next /\ UNCHANGED <<pvars, commits, uploads, xvars>>

JudgedStep ==
  /\ part = "judged" /\ Judging!Next /\ at'[o1] \in {"idle", "locking"} /\ at'[o2] # "locking"
  /\ UNCHANGED <<pvars, commits, uploads, xvars>>

ClosureStep == part = "closure" /\ PNext /\ UNCHANGED <<touches, setup, commits, uploads, xvars>>

EditedStep == part = "edited" /\ PNext /\ UNCHANGED <<setup, commits, uploads, xvars>>

IngestionStep == part = "ingestion" /\ CNext /\ UNCHANGED <<setup, pvars, uploads, xvars>>

VersionsStep == part = "versions" /\ Building!CNext /\ UNCHANGED <<setup, pvars, uploads, xvars>>

ServedStep == part = "served" /\ Served!UNext /\ UNCHANGED <<setup, pvars, commits, xvars>>

BrokenStep == part = "broken" /\ Broken!UNext /\ UNCHANGED <<setup, pvars, commits, xvars>>

AuthorityStep == part = "authority" /\ XNext /\ UNCHANGED <<setup, pvars, commits, uploads>>

MCNext ==
  /\ \/ SetupStep \/ JudgedStep \/ ClosureStep \/ EditedStep \/ IngestionStep \/ VersionsStep \/ ServedStep
     \/ BrokenStep \/ AuthorityStep
  /\ UNCHANGED part

MCSpec == MCInit /\ [][MCNext]_<<part, setup, pvars, commits, uploads, xvars>>
=============================================================================
