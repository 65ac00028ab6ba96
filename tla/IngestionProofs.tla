--------------------------- MODULE IngestionProofs ---------------------------
(***************************************************************************)
(* Proofs about IngestionPlans for any processes, providers, sources,      *)
(* plans, upgrades, deaths and damages; about GraphImport for any number   *)
(* of executions and turns of others; about RuleEvaluation for any rules   *)
(* and evidence; about BrowserSession for any tabs, requests and sessions. *)
(***************************************************************************)
EXTENDS IngestionPlans, BrowserSession, GraphImport, RuleEvaluation, FiniteSetTheorems,
        WellFoundedInduction, TLAPS

(***************************************************************************)
(* Records, blobs and batches.                                             *)
(***************************************************************************)

Blobs ==
  /\ blobs \in [Contents -> {"none", "whole", "damaged"}]
  /\ records \subseteq Sources /\ batches \subseteq SUBSET Sources

\* A plan has a step for each source and role when it is ready, and one code
\* for each provider.
Sound(plan) ==
  /\ plan.batch \in batches /\ plan.ready \in BOOLEAN
  /\ DOMAIN plan.steps \subseteq plan.batch \X ToSet(Roles)
  /\ plan.ready => DOMAIN plan.steps = plan.batch \X ToSet(Roles)
  /\ \A u \in DOMAIN plan.steps :
       /\ plan.steps[u].provider \in Providers
       /\ plan.steps[u] = [provider |-> plan.steps[u].provider, code |-> plan.steps[u].code]
  /\ \A u, v \in DOMAIN plan.steps :
       plan.steps[u].provider = plan.steps[v].provider => plan.steps[u].code = plan.steps[v].code

Versions == 0..(1 + MaxEdits)

Installed ==
  /\ edits \in 1..(1 + MaxEdits)
  /\ code \in [Providers -> Versions]
  /\ loaded \in [Procs -> [Providers -> Versions]]

Shaped(o) ==
  o = [plan |-> o.plan, allow |-> o.allow, at |-> o.at, due |-> o.due, since |-> o.since, made |-> o.made,
       read |-> o.read, had |-> o.had, installed |-> o.installed, overtaken |-> o.overtaken]

Provider(o, u) == o.plan.steps[u].provider

\* What was called is what the process has imported, which is what the plan has,
\* unless it was imported before or slipped in.
Explained(p, x) ==
  \/ \A v \in Calls(op[p].plan) : Provider(op[p], v) = x => op[p].plan.steps[v].code = loaded[p][x]
  \/ x \in op[p].overtaken
  \/ op[p].had[x] # 0 /\ op[p].had[x] = loaded[p][x]

\* A run at work has its plan, which nobody has carried out once it has looked
\* under the lock; the code that it checked last is installed unless somebody
\* has changed the installation.
AtWork(p) ==
  LET o == op[p]
  IN  /\ Shaped(o) /\ o.plan \in plans /\ o.plan.ready
      /\ o.at \notin {"lock", "look"} => Existing(o.plan) = {}
      /\ DOMAIN o.made \subseteq Calls(o.plan)
      /\ \A u \in DOMAIN o.made :
           /\ o.made[u] = [provider |-> Provider(o, u), code |-> loaded[p][Provider(o, u)]]
           /\ loaded[p][Provider(o, u)] # 0
      /\ \A x \in Providers : loaded[p][x] # 0 => Explained(p, x)
      /\ o.at = "call" =>
           /\ o.due \in Calls(o.plan) /\ o.since \in 0..edits
           /\ o.since = edits => code[Provider(o, o.due)] = o.plan.steps[o.due].code

Working ==
  /\ DOMAIN op \subseteq Procs /\ held = (\E p \in DOMAIN op : op[p].at # "lock")
  /\ \A p, q \in DOMAIN op : op[p].at # "lock" /\ op[q].at # "lock" => p = q
  /\ \A p \in DOMAIN op : AtWork(p)

\* The inductive invariant.
IInv ==
  /\ Blobs /\ Installed /\ Working
  /\ \A plan \in plans : Sound(plan)
  /\ \A r1, r2 \in runs : r1.plan = r2.plan => r1 = r2
  /\ ForeignCodeIsInheritedOrOvertook
  /\ faults \in 0..MaxFaults

LEMMA InitInv == PInit => IInv
<1> SUFFICES ASSUME PInit PROVE IInv
  OBVIOUS
<1>1. Blobs
  BY DEF PInit, Blobs
<1>2. Installed
  BY PlansAssumption DEF PInit, Unloaded, Installed, Versions
<1>3. Working
  BY DEF PInit, Working
<1> QED
  BY <1>1, <1>2, <1>3, PlansAssumption DEF PInit, IInv, ForeignCodeIsInheritedOrOvertook

\* What happens beside the runs.
LEMMA SourceInv ==
  ASSUME IInv,
         \/ \E s \in Sources : AddFile(s) \/ DieAdding(s)
         \/ \E c \in Contents : Damage(c)
         \/ \E S \in SUBSET Sources : CreateBatch(S)
         \/ UNCHANGED pvars
  PROVE  IInv'
<1>1. UNCHANGED <<plans, runs, op, held, code, edits, loaded>> /\ batches \subseteq batches'
  BY DEF AddFile, DieAdding, Damage, CreateBatch, pvars
<1>2. \A s \in Sources : Content[s] \in Contents
  BY DEF Contents
<1>3. Blobs'
  BY <1>2 DEF AddFile, DieAdding, Damage, CreateBatch, pvars, IInv, Blobs
<1>4. faults' \in 0..MaxFaults
  BY PlansAssumption DEF AddFile, DieAdding, Damage, CreateBatch, pvars, IInv
<1>5. Installed' /\ \A plan \in plans' : Sound(plan)'
  BY <1>1 DEF IInv, Installed, Sound
<1>6. \A p \in DOMAIN op : AtWork(p)'
  BY <1>1 DEF IInv, Working, AtWork, Existing, Explained
<1>7. Working'
  BY <1>1, <1>6 DEF IInv, Working
<1> QED
  BY <1>1, <1>3, <1>4, <1>5, <1>7 DEF IInv, ForeignCodeIsInheritedOrOvertook

LEMMA InstallationInv ==
  ASSUME IInv,
         \/ \E x \in Providers : Uninstall(x) \/ \E c \in 1..(1 + MaxEdits) : Upgrade(x, c)
         \/ \E p \in Procs : Restart(p)
  PROVE  IInv'
<1>1. UNCHANGED <<plans, runs, op, held, blobs, records, batches, faults>>
  BY DEF Upgrade, Uninstall, Restart
<1>2. Installed'
  BY PlansAssumption DEF Upgrade, Uninstall, Restart, Unloaded, IInv, Installed, Versions
<1>3. \A p \in DOMAIN op : loaded'[p] = loaded[p]
  BY DEF Upgrade, Uninstall, Restart, IInv, Installed, Working
<1>4. \/ edits' = edits + 1
      \/ edits' = edits /\ code' = code
  BY DEF Upgrade, Uninstall, Restart
<1>5. ASSUME NEW p \in DOMAIN op PROVE AtWork(p)'
  <2>1. AtWork(p) /\ edits \in Nat
    BY DEF IInv, Working, Installed
  <2>2. op[p].at = "call" =>
           /\ op[p].due \in Calls(op[p].plan) /\ op[p].since \in 0..edits'
           /\ op[p].since = edits' => code'[Provider(op[p], op[p].due)] = op[p].plan.steps[op[p].due].code
    BY <1>4, <2>1 DEF AtWork
  <2> QED
    BY <1>1, <1>3, <2>1, <2>2 DEF AtWork, Existing, Explained
<1>6. Working'
  BY <1>1, <1>5 DEF IInv, Working
<1> QED
  BY <1>1, <1>2, <1>6 DEF IInv, Blobs, Sound, ForeignCodeIsInheritedOrOvertook

(***************************************************************************)
(* Plans and runs.                                                         *)
(***************************************************************************)

LEMMA CreatePlanInv ==
  ASSUME IInv, NEW S \in batches, NEW allow, NEW prefer, CreatePlan(S, allow, prefer)
  PROVE  IInv'
<1> DEFINE chosen == [u \in S \X ToSet(Roles) |-> Selected(u[1], u[2], allow, prefer)]
           steps == [u \in {v \in DOMAIN chosen : chosen[v] # {}} |->
                       Snapshot(CHOOSE x \in chosen[u] : TRUE)]
           plan == [batch |-> S, ready |-> \A u \in DOMAIN chosen : chosen[u] # {},
                    steps |-> steps]
<1>1. plans' = plans \cup {plan}
  BY DEF CreatePlan
<1>2. UNCHANGED <<code, edits, loaded, blobs, records, batches, runs, op, held, faults>>
  BY DEF CreatePlan
<1>3. Sound(plan)
  <2>1. plan.batch = S /\ plan.steps = steps /\ plan.ready \in BOOLEAN
    OBVIOUS
  <2>2. plan.ready => \A u \in DOMAIN chosen : chosen[u] # {}
    OBVIOUS
  <2>3. DOMAIN chosen = S \X ToSet(Roles)
    OBVIOUS
  <2>4. DOMAIN steps = {v \in DOMAIN chosen : chosen[v] # {}}
    OBVIOUS
  <2>5. ASSUME NEW u \in DOMAIN steps
        PROVE  /\ steps[u].code = code[steps[u].provider] /\ steps[u].provider \in Providers
               /\ steps[u] = [provider |-> steps[u].provider, code |-> steps[u].code]
    <3>1. PICK x \in chosen[u] : steps[u] = Snapshot(x)
      OBVIOUS
    <3>2. chosen[u] \subseteq Providers
      BY DEF Selected, Highest, Eligible
    <3> QED
      BY <3>1, <3>2 DEF Snapshot
  <2> HIDE DEF chosen, steps, plan
  <2>7. \A u, v \in DOMAIN steps : steps[u].provider = steps[v].provider => steps[u].code = steps[v].code
    BY <2>5
  <2>8. DOMAIN steps \subseteq S \X ToSet(Roles)
    BY <2>3, <2>4
  <2>9. \A u \in DOMAIN steps :
          /\ steps[u].provider \in Providers
          /\ steps[u] = [provider |-> steps[u].provider, code |-> steps[u].code]
    BY <2>5
  <2>10. plan.ready => DOMAIN steps = S \X ToSet(Roles)
    BY <2>2, <2>3, <2>4
  <2> QED
    BY <2>1, <2>7, <2>8, <2>9, <2>10 DEF Sound
<1> HIDE DEF plan
<1>4. \A q \in plans' : Sound(q)'
  BY <1>1, <1>2, <1>3 DEF IInv, Sound
<1>5. \A p \in DOMAIN op : AtWork(p)'
  BY <1>1, <1>2 DEF IInv, Working, AtWork, Existing, Explained
<1>6. Working'
  BY <1>2, <1>5 DEF IInv, Working
<1> QED
  BY <1>2, <1>4, <1>6 DEF IInv, Blobs, Installed, ForeignCodeIsInheritedOrOvertook

LEMMA LookInv ==
  ASSUME IInv, NEW p \in Procs, NEW plan \in plans, NEW allow, Look(p, plan, allow)
  PROVE  IInv'
<1>1. /\ p \notin DOMAIN op /\ plan.ready
      /\ DOMAIN op' = DOMAIN op \cup {p} /\ op'[p] = Started(p, plan, allow)
      /\ \A q \in DOMAIN op : op'[q] = op[q]
      /\ UNCHANGED <<code, edits, loaded, blobs, records, batches, plans, runs, held, faults>>
  BY DEF Look
<1>2. AtWork(p)'
  <2>1. /\ op'[p].plan = plan /\ op'[p].at = "lock" /\ DOMAIN op'[p].made = {} /\ op'[p].had = loaded[p]
        /\ Shaped(op'[p])
    BY <1>1 DEF Started, Shaped
  <2> QED
    BY <1>1, <2>1 DEF AtWork, Explained
<1>3. \A q \in DOMAIN op : AtWork(q)'
  BY <1>1 DEF IInv, Working, AtWork, Existing, Explained
<1>4. op'[p].at = "lock"
  BY <1>1 DEF Started
<1>5. Working'
  BY <1>1, <1>2, <1>3, <1>4 DEF IInv, Working
<1> QED
  BY <1>1, <1>5 DEF IInv, Sound, Blobs, Installed, ForeignCodeIsInheritedOrOvertook

\* What an operation that leaves does to the others.
LEMMA LeaveInv ==
  ASSUME Installed, Working, NEW p \in DOMAIN op, Leave(p), UNCHANGED <<code, edits, plans>>,
         op[p].at # "lock" \/ runs' = runs,
         \A r \in runs' \ runs : r.plan = op[p].plan
  PROVE  Installed' /\ Working'
<1>1. /\ DOMAIN op' = DOMAIN op \ {p} /\ \A q \in DOMAIN op' : op'[q] = op[q]
      /\ held' = (held /\ op[p].at = "lock") /\ p \in Procs
  BY DEF Leave, Working
<1>2. [loaded EXCEPT ![p] = Unloaded] \in [Procs -> [Providers -> Versions]]
  <2>1. 0 \in Versions
    BY PlansAssumption DEF Versions
  <2>2. Unloaded \in [Providers -> Versions]
    BY <2>1 DEF Unloaded
  <2> QED
    BY <2>2 DEF Installed
<1>3. Installed' /\ \A q \in Procs : q # p => loaded'[q] = loaded[q]
  BY <1>2 DEF Leave, Installed
<1>4. ASSUME NEW q \in DOMAIN op' PROVE AtWork(q)'
  <2>1. q \in DOMAIN op /\ q # p /\ op'[q] = op[q] /\ AtWork(q) /\ loaded'[q] = loaded[q]
    BY <1>1, <1>3 DEF Working
  <2>2. op[q].at \notin {"lock", "look"} => Existing(op[q].plan)' = {}
    BY <2>1 DEF Existing, AtWork, Working
  <2> QED
    BY <2>1, <2>2 DEF AtWork, Explained
<1>5. held' = (\E q \in DOMAIN op' : op'[q].at # "lock")
  BY <1>1 DEF Working
<1> QED
  BY <1>1, <1>3, <1>4, <1>5 DEF Working

LEMMA RefuseInv == ASSUME IInv, NEW p \in Procs, Refuse(p) PROVE IInv'
<1>1. p \in DOMAIN op /\ Leave(p)
      /\ UNCHANGED <<code, edits, blobs, records, batches, plans, runs, faults>>
  BY DEF Refuse, Fails, AtStep
<1>2. Installed' /\ Working'
  BY <1>1, LeaveInv DEF IInv
<1> QED
  BY <1>1, <1>2 DEF IInv, Sound, Blobs, ForeignCodeIsInheritedOrOvertook

\* The step a call carries out is in its plan.
LEMMA CallIsPlanned ==
  ASSUME IInv, NEW p \in DOMAIN op, NEW u \in Calls(op[p].plan)
  PROVE  /\ u \in DOMAIN op[p].plan.steps /\ op[p].plan.steps[u].provider \in Providers
         /\ Sound(op[p].plan)
<1>1. ToSet(Called) \subseteq ToSet(Roles)
  BY DEF ToSet, Called, Roles
<1>2. Sound(op[p].plan) /\ op[p].plan.ready
  BY DEF AtWork, IInv, Working
<1>3. DOMAIN op[p].plan.steps = op[p].plan.batch \X ToSet(Roles)
  BY <1>2 DEF Sound
<1> QED
  BY <1>1, <1>2, <1>3 DEF Calls, Sound

LEMMA CommitInv == ASSUME IInv, NEW p \in Procs, Commit(p) PROVE IInv'
<1> DEFINE o == op[p]
           r == [plan |-> o.plan, made |-> o.made, read |-> o.read, had |-> o.had,
                 installed |-> o.installed, overtaken |-> o.overtaken, by |-> p]
<1>1. /\ p \in DOMAIN op /\ AtWork(p) /\ o.at = "work" /\ DOMAIN o.made = Calls(o.plan)
      /\ runs' = runs \cup {r} /\ Leave(p) /\ UNCHANGED <<code, edits, blobs, records, batches, plans, faults>>
  BY DEF Commit, AtStep, IInv, Working
<1>2. Installed' /\ Working'
  BY <1>1, LeaveInv DEF IInv
<1>3. \A r1, r2 \in runs' : r1.plan = r2.plan => r1 = r2
  BY <1>1 DEF IInv, AtWork, Existing
<1>4. ASSUME NEW u \in Calls(o.plan)
      PROVE  LET x == o.plan.steps[u].provider
             IN  /\ o.made[u] = o.plan.steps[u] \/ x \in o.overtaken \/ (o.had[x] # 0 /\ o.made[u].code = o.had[x])
                 /\ \A v \in Calls(o.plan) : o.plan.steps[v].provider = x => o.made[v] = o.made[u]
  <2> DEFINE x == o.plan.steps[u].provider
  <2>1. u \in DOMAIN o.plan.steps /\ x \in Providers /\ Sound(o.plan)
    BY <1>1, CallIsPlanned
  <2>2. \A v \in Calls(o.plan) : o.made[v] = [provider |-> Provider(o, v), code |-> loaded[p][Provider(o, v)]]
    BY <1>1 DEF AtWork
  <2>3. o.plan.steps[u] = [provider |-> x, code |-> o.plan.steps[u].code]
    BY <2>1 DEF Sound
  <2>4. loaded[p][x] # 0 => Explained(p, x)
    BY <1>1, <2>1 DEF AtWork
  <2>5. o.made[u] = [provider |-> x, code |-> loaded[p][x]]
    BY <2>2 DEF Provider
  <2>6. loaded[p][x] # 0
    BY <1>1, <2>1 DEF AtWork, Provider
  <2>7. o.made[u] = o.plan.steps[u] \/ x \in o.overtaken \/ (o.had[x] # 0 /\ o.made[u].code = o.had[x])
    <3>1. CASE \A v \in Calls(o.plan) : Provider(o, v) = x => o.plan.steps[v].code = loaded[p][x]
      <4>1. o.plan.steps[u].code = loaded[p][x]
        BY <3>1 DEF Provider
      <4> QED
        BY <2>3, <2>5, <4>1
    <3>2. CASE x \in o.overtaken \/ (o.had[x] # 0 /\ o.had[x] = loaded[p][x])
      BY <2>5, <3>2
    <3> QED
      BY <2>4, <2>6, <3>1, <3>2 DEF Explained
  <2>8. \A v \in Calls(o.plan) : o.plan.steps[v].provider = x => o.made[v] = o.made[u]
    BY <2>2, <2>5 DEF Provider
  <2> QED
    BY <2>7, <2>8
<1>5. ForeignCodeIsInheritedOrOvertook'
  <2>1. /\ r.plan = o.plan /\ r.made = o.made /\ r.had = o.had /\ r.overtaken = o.overtaken
    OBVIOUS
  <2> HIDE DEF r, o
  <2> QED
    BY <1>1, <1>4, <2>1 DEF IInv, ForeignCodeIsInheritedOrOvertook
<1> QED
  BY <1>1, <1>2, <1>3, <1>5 DEF IInv, Sound, Blobs

\* One process goes on, and the others are where they were.
LEMMA OneSteps ==
  ASSUME IInv, NEW p \in DOMAIN op, DOMAIN op' = DOMAIN op, \A q \in DOMAIN op : q # p => op'[q] = op[q],
         \A q \in Procs : q # p => loaded'[q] = loaded[q], AtWork(p)', Installed',
         \/ op[p].at # "lock" /\ op'[p].at # "lock" /\ held' = held
         \/ ~held /\ held',
         held' => op'[p].at # "lock",
         UNCHANGED <<code, edits, blobs, records, batches, plans, runs, faults>>
  PROVE  IInv'
<1>1. ASSUME NEW q \in DOMAIN op', q # p PROVE AtWork(q)'
  <2>1. AtWork(q) /\ op'[q] = op[q] /\ loaded'[q] = loaded[q]
    BY <1>1 DEF IInv, Working
  <2> QED
    BY <2>1 DEF AtWork, Existing, Explained
<1>2. Working'
  BY <1>1 DEF IInv, Working
<1> QED
  BY <1>2 DEF IInv, Sound, Blobs, ForeignCodeIsInheritedOrOvertook

LEMMA LockInv == ASSUME IInv, NEW p \in Procs, Lock(p) PROVE IInv'
<1>1. CASE held
  <2>1. Installed' /\ Working'
    BY <1>1, LeaveInv DEF Lock, AtStep, IInv
  <2> QED
    BY <1>1, <2>1 DEF Lock, IInv, Sound, Blobs, ForeignCodeIsInheritedOrOvertook
<1>2. CASE ~held
  <2>1. /\ p \in DOMAIN op /\ AtWork(p) /\ op[p].at = "lock" /\ held' = TRUE
        /\ op' = [op EXCEPT ![p].at = "look"] /\ loaded' = loaded
        /\ UNCHANGED <<code, edits, blobs, records, batches, plans, runs, faults>>
    BY <1>2 DEF Lock, AtStep, IInv, Working
  <2>2. DOMAIN op' = DOMAIN op /\ (\A q \in DOMAIN op : q # p => op'[q] = op[q]) /\ op'[p] = [op[p] EXCEPT !.at = "look"]
    BY <2>1
  <2>3. Shaped(op'[p]) /\ op'[p].at = "look" /\ op'[p].plan = op[p].plan /\ op'[p].made = op[p].made
        /\ op'[p].had = op[p].had /\ op'[p].overtaken = op[p].overtaken
    BY <2>1, <2>2 DEF AtWork, Shaped
  <2>4. AtWork(p)'
    BY <2>1, <2>3 DEF AtWork, Existing, Explained, Provider
  <2>5. Installed'
    BY <2>1 DEF IInv, Installed
  <2> QED
    BY <1>2, <2>1, <2>2, <2>3, <2>4, <2>5, OneSteps
<1> QED
  BY <1>1, <1>2

LEMMA LookAgainInv == ASSUME IInv, NEW p \in Procs, LookAgain(p) PROVE IInv'
<1>1. CASE Existing(op[p].plan) # {}
  <2>1. Installed' /\ Working'
    BY <1>1, LeaveInv DEF LookAgain, AtStep, IInv
  <2> QED
    BY <1>1, <2>1 DEF LookAgain, IInv, Sound, Blobs, ForeignCodeIsInheritedOrOvertook
<1>2. CASE Existing(op[p].plan) = {}
  <2>1. /\ p \in DOMAIN op /\ AtWork(p) /\ op[p].at = "look" /\ held' = held
        /\ op' = [op EXCEPT ![p].at = "work"] /\ loaded' = loaded
        /\ UNCHANGED <<code, edits, blobs, records, batches, plans, runs, faults>>
    BY <1>2 DEF LookAgain, AtStep, IInv, Working
  <2>2. DOMAIN op' = DOMAIN op /\ (\A q \in DOMAIN op : q # p => op'[q] = op[q]) /\ op'[p] = [op[p] EXCEPT !.at = "work"]
    BY <2>1
  <2>3. Shaped(op'[p]) /\ op'[p].at = "work" /\ op'[p].plan = op[p].plan /\ op'[p].made = op[p].made
        /\ op'[p].had = op[p].had /\ op'[p].overtaken = op[p].overtaken
    BY <2>1, <2>2 DEF AtWork, Shaped
  <2>4. AtWork(p)'
    BY <1>2, <2>1, <2>3 DEF AtWork, Existing, Explained, Provider
  <2>5. Installed'
    BY <2>1 DEF IInv, Installed
  <2> QED
    BY <2>1, <2>2, <2>3, <2>4, <2>5, OneSteps
<1> QED
  BY <1>1, <1>2

LEMMA ReadingInv ==
  ASSUME IInv, NEW p \in Procs, (\E s \in Sources : VerifySource(p, s)) \/ ReadBlob(p)
  PROVE  IInv'
<1>1. /\ p \in DOMAIN op /\ AtWork(p) /\ op[p].at \notin {"lock", "look"}
      /\ UNCHANGED <<code, edits, loaded, blobs, records, batches, plans, runs, held, faults>>
  BY DEF VerifySource, ReadBlob, AtStep, IInv, Working
<1>2. /\ DOMAIN op' = DOMAIN op /\ \A q \in DOMAIN op : q # p => op'[q] = op[q]
      /\ Shaped(op'[p]) /\ op'[p].at \in {"read", "work"} /\ op'[p].plan = op[p].plan /\ op'[p].made = op[p].made
      /\ op'[p].had = op[p].had /\ op'[p].overtaken = op[p].overtaken
  <2>1. CASE \E s \in Sources : VerifySource(p, s)
    <3>1. PICK s \in Sources : op' = [op EXCEPT ![p].at = "read", ![p].due = s]
      BY <2>1 DEF VerifySource
    <3>2. /\ DOMAIN op' = DOMAIN op /\ \A q \in DOMAIN op : q # p => op'[q] = op[q]
          /\ op'[p] = [op[p] EXCEPT !.at = "read", !.due = s]
      BY <1>1, <3>1 DEF AtWork, Shaped
    <3>3. /\ op'[p].at = "read" /\ op'[p].plan = op[p].plan /\ op'[p].made = op[p].made
          /\ op'[p].had = op[p].had /\ op'[p].overtaken = op[p].overtaken
      BY <1>1, <3>2 DEF AtWork, Shaped
    <3>4. Shaped(op'[p])
      BY <1>1, <3>2 DEF AtWork, Shaped
    <3> QED
      BY <3>2, <3>3, <3>4
  <2>2. CASE ReadBlob(p)
    <3> DEFINE read == Added(op[p].read, op[p].due, blobs[Content[op[p].due]])
    <3>1. op' = [op EXCEPT ![p].at = "work", ![p].read = read]
      BY <1>1, <2>2 DEF ReadBlob
    <3> HIDE DEF read
    <3>2. /\ DOMAIN op' = DOMAIN op /\ \A q \in DOMAIN op : q # p => op'[q] = op[q]
          /\ op'[p] = [op[p] EXCEPT !.at = "work", !.read = read]
      BY <1>1, <3>1 DEF AtWork, Shaped
    <3>3. /\ op'[p].at = "work" /\ op'[p].plan = op[p].plan /\ op'[p].made = op[p].made
          /\ op'[p].had = op[p].had /\ op'[p].overtaken = op[p].overtaken
      BY <1>1, <3>2 DEF AtWork, Shaped
    <3>4. Shaped(op'[p])
      BY <1>1, <3>2 DEF AtWork, Shaped
    <3> QED
      BY <3>2, <3>3, <3>4
  <2> QED
    BY <2>1, <2>2
<1>5. AtWork(p)'
  BY <1>1, <1>2 DEF AtWork, Existing, Explained, Provider
<1>6. Installed'
  BY <1>1 DEF IInv, Installed
<1> QED
  BY <1>1, <1>2, <1>5, <1>6, OneSteps

LEMMA CheckCodeInv ==
  ASSUME IInv, NEW p \in Procs, NEW u, CheckCode(p, u) PROVE IInv'
<1>1. /\ p \in DOMAIN op /\ AtWork(p) /\ op[p].at = "work" /\ u \in Calls(op[p].plan) /\ Passes(p, u)
      /\ op' = [op EXCEPT ![p].at = "call", ![p].due = u, ![p].since = edits]
      /\ UNCHANGED <<code, edits, loaded, blobs, records, batches, plans, runs, held, faults>>
  BY DEF CheckCode, AtStep, Due, IInv, Working
<1>3. /\ DOMAIN op' = DOMAIN op /\ \A q \in DOMAIN op : q # p => op'[q] = op[q]
      /\ op'[p] = [op[p] EXCEPT !.at = "call", !.due = u, !.since = edits]
  BY <1>1 DEF AtWork, Shaped
<1>4. Shaped(op'[p]) /\ op'[p].at = "call" /\ op'[p].due = u /\ op'[p].since = edits /\ op'[p].plan = op[p].plan
      /\ op'[p].made = op[p].made /\ op'[p].had = op[p].had /\ op'[p].overtaken = op[p].overtaken
  BY <1>1, <1>3 DEF AtWork, Shaped
<1>5. code[Provider(op[p], u)] = op[p].plan.steps[u].code
  BY <1>1 DEF Passes, Snapshot, Provider
<1>6. edits \in 0..edits
  BY DEF IInv, Installed
<1>7. AtWork(p)'
  <2>1. \A x \in Providers : loaded'[p][x] # 0 => Explained(p, x)'
    BY <1>1, <1>4 DEF AtWork, Explained, Provider
  <2>2. Existing(op[p].plan)' = {}
    BY <1>1, <1>4 DEF AtWork, Existing
  <2>3. op'[p].plan \in plans' /\ op'[p].plan.ready /\ DOMAIN op'[p].made \subseteq Calls(op'[p].plan)
    BY <1>1, <1>4 DEF AtWork
  <2>4. \A v \in DOMAIN op'[p].made :
          /\ op'[p].made[v] = [provider |-> Provider(op'[p], v), code |-> loaded'[p][Provider(op'[p], v)]]
          /\ loaded'[p][Provider(op'[p], v)] # 0
    BY <1>1, <1>4 DEF AtWork, Provider
  <2>5. /\ op'[p].due \in Calls(op'[p].plan) /\ op'[p].since \in 0..edits'
        /\ code'[Provider(op'[p], op'[p].due)] = op'[p].plan.steps[op'[p].due].code
    BY <1>1, <1>4, <1>5, <1>6 DEF Provider
  <2> QED
    BY <1>4, <2>1, <2>2, <2>3, <2>4, <2>5 DEF AtWork
<1>8. Installed'
  BY <1>1 DEF IInv, Installed
<1> QED
  BY <1>1, <1>3, <1>4, <1>7, <1>8, OneSteps

LEMMA CallInv == ASSUME IInv, NEW p \in Procs, Call(p) PROVE IInv'
<1> DEFINE o == op[p]
           u == o.due
           x == o.plan.steps[u].provider
           made == Added(o.made, u, [provider |-> x, code |-> Imported(p, x)])
           over == IF loaded[p][x] = 0 /\ edits # o.since THEN o.overtaken \cup {x} ELSE o.overtaken
<1>1. /\ p \in DOMAIN op /\ AtWork(p) /\ o.at = "call"
      /\ Imported(p, x) # 0 /\ loaded' = [loaded EXCEPT ![p][x] = Imported(p, x)]
      /\ op' = [op EXCEPT ![p].at = "work", ![p].made = made, ![p].overtaken = over]
      /\ UNCHANGED <<code, edits, blobs, records, batches, plans, runs, held, faults>>
  BY DEF Call, AtStep, IInv, Working
<1>2. u \in Calls(o.plan) /\ u \in DOMAIN o.plan.steps /\ x \in Providers /\ Sound(o.plan)
  BY <1>1, CallIsPlanned DEF AtWork
<1>3. /\ DOMAIN op' = DOMAIN op /\ \A q \in DOMAIN op : q # p => op'[q] = op[q]
      /\ op'[p] = [op[p] EXCEPT !.at = "work", !.made = made, !.overtaken = over]
  <2> HIDE DEF made, over
  <2> QED
    BY <1>1 DEF AtWork, Shaped
<1>4. Shaped(op'[p]) /\ op'[p].at = "work" /\ op'[p].plan = o.plan
      /\ op'[p].made = made /\ op'[p].had = o.had /\ op'[p].overtaken = over
  <2> HIDE DEF made, over
  <2> QED
    BY <1>1, <1>3 DEF AtWork, Shaped
<1>5. Installed'
  <2>1. Imported(p, x) \in Versions
    BY <1>2 DEF IInv, Installed, Imported
  <2> QED
    BY <1>1, <1>2, <2>1 DEF IInv, Installed
<1>6. /\ \A y \in Providers : loaded'[p][y] = IF y = x THEN Imported(p, x) ELSE loaded[p][y]
      /\ \A q \in Procs : q # p => loaded'[q] = loaded[q]
  BY <1>1, <1>2 DEF IInv, Installed
<1>7. loaded[p][x] # 0 => Imported(p, x) = loaded[p][x]
  BY DEF Imported
<1>8. \A v \in DOMAIN o.made : v \in Calls(o.plan) /\ Provider(o, v) \in Providers
  BY <1>1, CallIsPlanned DEF AtWork, Provider
<1>9. ASSUME NEW v \in DOMAIN made
      PROVE  /\ v \in Calls(o.plan) /\ loaded'[p][Provider(o, v)] # 0
             /\ made[v] = [provider |-> Provider(o, v), code |-> loaded'[p][Provider(o, v)]]
  <2>1. CASE v \in DOMAIN o.made
    <3>1. made[v] = o.made[v]
      BY <2>1 DEF Added
    <3>2. loaded'[p][Provider(o, v)] = loaded[p][Provider(o, v)]
      <4>1. loaded[p][Provider(o, v)] # 0 /\ Provider(o, v) \in Providers
        BY <1>1, <1>8, <2>1 DEF AtWork
      <4> HIDE DEF made, over
      <4> QED
        BY <1>6, <1>7, <4>1
    <3> QED
      BY <1>1, <1>8, <2>1, <3>1, <3>2 DEF AtWork
  <2>2. CASE v \notin DOMAIN o.made
    <3>1. v = u /\ made[v] = [provider |-> x, code |-> Imported(p, x)]
      BY <2>2 DEF Added
    <3> QED
      BY <1>1, <1>2, <1>6, <3>1 DEF Provider
  <2> QED
    BY <2>1, <2>2
<1>10. ASSUME NEW y \in Providers, loaded'[p][y] # 0 PROVE Explained(p, y)'
  <2>1. o.overtaken \subseteq over
    OBVIOUS
  <2>2. CASE loaded[p][y] # 0
    <3>1. Explained(p, y) /\ loaded'[p][y] = loaded[p][y]
      BY <1>1, <1>6, <1>7, <2>2 DEF AtWork
    <3> HIDE DEF over, made
    <3> QED
      BY <1>4, <2>1, <3>1 DEF Explained, Provider
  <2>3. CASE loaded[p][y] = 0
    <3>1. y = x /\ loaded'[p][x] = code[x]
      BY <1>6, <1>10, <2>3 DEF Imported
    <3>2. CASE edits # o.since
      <4>1. x \in over
        BY <2>3, <3>1, <3>2
      <4> QED
        BY <1>4, <3>1, <4>1 DEF Explained
    <3>3. CASE edits = o.since
      <4>1. code[x] = o.plan.steps[u].code
        BY <1>1, <3>3 DEF AtWork, Provider
      <4>2. ASSUME NEW v \in Calls(o.plan), Provider(o, v) = x PROVE o.plan.steps[v].code = code[x]
        <5>1. v \in DOMAIN o.plan.steps
          BY <1>1, <4>2, CallIsPlanned
        <5> QED
          BY <1>2, <4>1, <4>2, <5>1 DEF Sound, Provider
      <4> HIDE DEF over, made
      <4> QED
        BY <1>4, <3>1, <4>2 DEF Explained, Provider
    <3> QED
      BY <3>2, <3>3
  <2> QED
    BY <2>2, <2>3
<1>11. AtWork(p)'
  <2> HIDE DEF made, over
  <2>1. Existing(op[p].plan)' = {}
    BY <1>1, <1>4 DEF AtWork, Existing
  <2>2. op'[p].plan \in plans' /\ op'[p].plan.ready /\ DOMAIN op'[p].made \subseteq Calls(op'[p].plan)
    BY <1>1, <1>4, <1>9 DEF AtWork
  <2>3. \A v \in DOMAIN op'[p].made :
          /\ op'[p].made[v] = [provider |-> Provider(op'[p], v), code |-> loaded'[p][Provider(op'[p], v)]]
          /\ loaded'[p][Provider(op'[p], v)] # 0
    BY <1>4, <1>9 DEF Provider
  <2>4. \A y \in Providers : loaded'[p][y] # 0 => Explained(p, y)'
    BY <1>10
  <2> QED
    BY <1>4, <2>1, <2>2, <2>3, <2>4 DEF AtWork
<1> QED
  BY <1>1, <1>3, <1>4, <1>5, <1>6, <1>11, OneSteps

LEMMA NextInv == IInv /\ [PNext]_pvars => IInv'
BY SourceInv, InstallationInv, CreatePlanInv, LookInv, LockInv, LookAgainInv, ReadingInv, CheckCodeInv,
   CallInv, RefuseInv, CommitInv DEF PNext

\* The inductive invariant of registering, planning and running.
THEOREM PlansInvariant == PSpec => []IInv
BY InitInv, NextInv, PTL DEF PSpec

\* Every variable keeps its shape, and the lock file is there exactly while a
\* process is past its lock (ingestion/executor.py, ingestion/transaction.py).
THEOREM PlansTypeOK == PSpec => []TypeOK
<1>1. IInv => TypeOK
  <2> SUFFICES ASSUME IInv PROVE TypeOK
    OBVIOUS
  <2>1. \A p \in DOMAIN op : op[p].plan \in plans
    BY DEF IInv, Working, AtWork
  <2> QED
    BY <2>1 DEF IInv, Blobs, Sound, Installed, Versions, Working, TypeOK
<1> QED
  BY <1>1, PlansInvariant, PTL

\* A plan is carried out once, and nobody past the look under the lock works on a
\* plan whose run is there, however many processes begin it, in whatever order
\* (ingestion/executor.py, execute_ingestion_plan).
THEOREM PlansRunOnce == PSpec => []NothingIsMadeAgain
<1>1. IInv => NothingIsMadeAgain
  BY DEF IInv, Working, AtWork, NothingIsMadeAgain
<1> QED
  BY <1>1, PlansInvariant, PTL

\* The code called for a plan is the plan's, unless it slipped in between the check
\* and the import or the process had imported it before; and it is one code from the
\* first source to the last.  For command lines and for workers that live on, and
\* whoever changes the installation, there and back (ingestion/executor.py,
\* plugins/registry.py).
THEOREM ForeignCodeIsExplained == PSpec => []ForeignCodeIsInheritedOrOvertook
BY PlansInvariant, PTL DEF IInv

-----------------------------------------------------------------------------
(* The deployment of a package (GraphImport).                              *)

\* An execution whose creation was answered, before its last answer.
Creators == {r \in Runners : pc[r] \in {"inspect", "count", "import", "explicit", "complete", "default"}}

\* Those whose import may be, or become, part of the repository.
Importers ==
  Creators \cup {r \in Runners : <<r, "import">> \in flight} \cup IF repo = Absent THEN {} ELSE repo.imports

\* A repository is created once, so only one execution goes on to import; what
\* is reported as verified, or about to be, was seen to be exact.
GInv ==
  /\ GTypeOK
  /\ repo = Absent => Importers = {}
  /\ \A r, s \in Importers : r = s
  /\ \A r \in Runners : pc[r] = "default" => exact[r]
  /\ VerifiedWasThere

LEMMA GraphInit == GInit => GInv
<1> SUFFICES ASSUME GInit PROVE GInv
  OBVIOUS
<1>1. GTypeOK
  BY GraphAssumption DEF GInit, GTypeOK
<1>2. Importers = {}
  BY GraphAssumption DEF GInit, Importers, Creators, Requests
<1>3. VerifiedWasThere /\ \A r \in Runners : pc[r] # "default"
  BY GraphAssumption DEF GInit, VerifiedWasThere, Requests, Receipts
<1> QED
  BY <1>1, <1>2, <1>3 DEF GInv

\* What a request does keeps the type of the repository, and never removes it.
LEMMA EffectTypes ==
  ASSUME GTypeOK, NEW r \in Runners, NEW request, Effect(r, request)
  PROVE  /\ repo' \in Repositories \cup {Absent}
         /\ repo # Absent => repo' # Absent
<1>1. CASE request = "create" /\ repo = Absent
  <2>1. repo' = [rules |-> "empty", data |-> {}, imports |-> {}]
    BY <1>1 DEF Effect
  <2> QED
    BY <1>1, <2>1 DEF Repositories
<1>2. CASE request = "import" /\ repo # Absent
  <2>1. repo' = [repo EXCEPT !.data = @ \cup Data, !.imports = @ \cup {r}]
    BY <1>2 DEF Effect
  <2>2. repo' \in Repositories
    BY <1>2, <2>1 DEF Repositories, GTypeOK
  <2> QED
    BY <2>2, GraphAssumption
<1>3. CASE repo' = repo
  BY <1>3 DEF GTypeOK
<1> QED
  BY <1>1, <1>2, <1>3 DEF Effect

\* Where an execution goes after a request.
LEMMA Order ==
  /\ After["create"] = "inspect" /\ After["import"] = "explicit"
  /\ Then["list"] = "create" /\ Then["inspect"] = "count" /\ Then["count"] = "import"
  /\ Then["explicit"] = "complete" /\ Then["complete"] = "default"
BY DEF After, Then

LEMMA GraphTypes == ASSUME GTypeOK, GNext PROVE GTypeOK'
<1>1. exact' \in [Runners -> BOOLEAN]
  BY DEF GNext, GTypeOK
<1>2. /\ repo' \in Repositories \cup {Absent} /\ turns' \in 0..MaxTurns
      /\ pc' \in [Runners -> Requests \cup {Absent}]
      /\ receipt' \in [Runners -> Receipts \cup {Absent}]
      /\ flight' \subseteq Runners \X {"create", "import"}
  <2>1. CASE \E r \in Runners : Execute(r)
    BY <2>1 DEF Execute, GTypeOK, Requests
  <2>2. ASSUME NEW r \in Runners, NEW request \in {"create", "import"}, Write(r, request) PROVE <1>2
    <3>1. repo' \in Repositories \cup {Absent} /\ turns' = turns
      BY <2>2, EffectTypes DEF Write, GTypeOK
    <3>2. After[request] \in Requests
      BY Order DEF Requests
    <3>3. pc' \in [Runners -> Requests \cup {Absent}] /\ receipt' \in [Runners -> Receipts \cup {Absent}]
      BY <2>2, <3>2 DEF Write, Goto, Return, GTypeOK, Receipts
    <3>4. flight' \subseteq Runners \X {"create", "import"}
      BY <2>2 DEF Write, GTypeOK
    <3> QED
      BY <3>1, <3>3, <3>4 DEF GTypeOK
  <2>3. ASSUME NEW r \in Runners, NEW request \in {"create", "import"}, Late(r, request) PROVE <1>2
    BY <2>3, EffectTypes DEF Late, GTypeOK
  <2>4. ASSUME NEW r \in Runners, NEW request \in DOMAIN Then \cup {"default"}, Read(r, request) PROVE <1>2
    <3>1. request # "default" => Then[request] \in Requests
      BY DEF Then, Requests
    <3> QED
      BY <2>4, <3>1 DEF Read, Goto, Return, GTypeOK, Receipts
  <2>5. CASE Other
    <3>1. repo' \in Repositories
      BY <2>5, GraphAssumption DEF Other, GTypeOK, Repositories, Strange
    <3> QED
      BY <2>5, <3>1, GraphAssumption DEF Other, GTypeOK
  <2> QED
    BY <2>1, <2>2, <2>3, <2>4, <2>5 DEF GNext, Step
<1> QED
  BY <1>1, <1>2 DEF GTypeOK

\* A step makes nobody an importer, or one execution the only one: its creation is
\* carried out on a server without the repository, and answered.
LEMMA ImporterSteps ==
  ASSUME GInv, GNext
  PROVE  \/ Importers' \subseteq Importers /\ (repo # Absent => repo' # Absent)
         \/ repo' # Absent /\ \E r \in Runners : Importers' \subseteq {r}
<1> DEFINE Alive == {"inspect", "count", "import", "explicit", "complete", "default"}
<1>1. CASE \E r \in Runners : Execute(r)
  <2>1. PICK r \in Runners : Execute(r)
    BY <1>1
  <2>2. Creators' \subseteq Creators
    BY <2>1 DEF Execute, Creators, GInv, GTypeOK
  <2> QED
    BY <2>1, <2>2 DEF Execute, Importers
<1>2. ASSUME NEW r \in Runners, Write(r, "create")
      PROVE  \/ Importers' \subseteq Importers /\ (repo # Absent => repo' # Absent)
             \/ repo' # Absent /\ Importers' \subseteq {r}
  <2>1. CASE Effect(r, "create") /\ Accepted("create") /\ Goto(r, After["create"]) /\ UNCHANGED flight
    <3>1. repo = Absent /\ repo' = [rules |-> "empty", data |-> {}, imports |-> {}]
      BY <2>1 DEF Effect, Accepted
    <3>2. repo' # Absent /\ repo'.imports = {}
      BY <3>1, GraphAssumption DEF Repositories
    <3>3. Importers = {}
      BY <3>1 DEF GInv
    <3>4. Creators' \subseteq Creators \cup {r}
      BY <2>1 DEF Goto, Creators, GInv, GTypeOK
    <3> QED
      BY <2>1, <3>2, <3>3, <3>4 DEF Importers
  <2>2. CASE Return(r, "RECONCILIATION_REQUIRED")
    <3>1. Creators' \subseteq Creators
      BY <2>2, GraphAssumption DEF Return, Creators, GInv, GTypeOK, Requests
    <3>2. {s \in Runners : <<s, "import">> \in flight'} \subseteq {s \in Runners : <<s, "import">> \in flight}
      BY <1>2 DEF Write
    <3>3. repo' = repo \/ (repo = Absent /\ repo' = [rules |-> "empty", data |-> {}, imports |-> {}])
      BY <1>2 DEF Write, Effect
    <3> QED
      BY <3>1, <3>2, <3>3 DEF Importers
  <2> QED
    BY <1>2, <2>1, <2>2 DEF Write
<1>3. ASSUME NEW r \in Runners, Write(r, "import")
      PROVE  Importers' \subseteq Importers /\ (repo # Absent => repo' # Absent)
  <2>1. r \in Creators /\ repo # Absent
    BY <1>3 DEF Write, Creators, GInv, Importers
  <2>2. Creators' \subseteq Creators
    BY <1>3, <2>1, Order, GraphAssumption DEF Write, Goto, Return, Creators, GInv, GTypeOK, Requests
  <2>3. {s \in Runners : <<s, "import">> \in flight'} \subseteq {s \in Runners : <<s, "import">> \in flight} \cup {r}
    BY <1>3 DEF Write
  <2>4. repo' # Absent /\ repo'.imports \subseteq repo.imports \cup {r}
    <3>1. CASE repo' = repo
      BY <2>1, <3>1
    <3>2. CASE Effect(r, "import")
      <4>1. repo' = [repo EXCEPT !.data = @ \cup Data, !.imports = @ \cup {r}]
        BY <2>1, <3>2 DEF Effect
      <4>2. repo \in Repositories
        BY <2>1 DEF GInv, GTypeOK
      <4> QED
        BY <4>1, <4>2, <2>1, <3>2, EffectTypes DEF Repositories, GInv
    <3> QED
      BY <1>3, <3>1, <3>2 DEF Write
  <2> QED
    BY <2>1, <2>2, <2>3, <2>4 DEF Importers
<1>4. ASSUME NEW r \in Runners, NEW request \in {"create", "import"}, Late(r, request)
      PROVE  Importers' \subseteq Importers /\ (repo # Absent => repo' # Absent)
  <2>1. Creators' = Creators
    BY <1>4 DEF Late, Creators
  <2>2. repo # Absent => repo' # Absent
    BY <1>4, EffectTypes DEF Late, GInv
  <2>3. repo' # Absent => repo'.imports \subseteq Importers
    <3>1. CASE request = "create" /\ repo = Absent
      BY <1>4, <3>1 DEF Late, Effect
    <3>2. CASE request = "import" /\ repo # Absent
      <4>1. repo' = [repo EXCEPT !.data = @ \cup Data, !.imports = @ \cup {r}]
        BY <1>4, <3>2 DEF Late, Effect
      <4>2. repo \in Repositories
        BY <3>2 DEF GInv, GTypeOK
      <4>3. repo'.imports = repo.imports \cup {r}
        BY <4>1, <4>2 DEF Repositories
      <4> QED
        BY <1>4, <3>2, <4>3 DEF Late, Importers
    <3>3. CASE repo' = repo
      BY <3>3 DEF Importers
    <3> QED
      BY <1>4, <3>1, <3>2, <3>3 DEF Late, Effect
  <2>4. flight' \subseteq flight
    BY <1>4 DEF Late
  <2> QED
    BY <2>1, <2>2, <2>3, <2>4 DEF Importers
<1>5. ASSUME NEW r \in Runners, NEW request \in DOMAIN Then \cup {"default"}, Read(r, request)
      PROVE  Importers' \subseteq Importers /\ repo' = repo
  <2>1. request \in Alive \cup {"list"} /\ (request # "default" => Then[request] \in Alive \cup {"create"})
        /\ (request = "list" => Then[request] = "create")
    BY DEF Then
  <2>2. pc'[r] = Absent \/ (request # "default" /\ pc'[r] = Then[request])
    BY <1>5 DEF Read, Goto, Return, GInv, GTypeOK
  <2>3. Creators' \subseteq Creators
    <3>1. \A s \in Runners : s # r => pc'[s] = pc[s]
      BY <1>5 DEF Read, Goto, Return, GInv, GTypeOK
    <3>2. pc[r] = request
      BY <1>5 DEF Read
    <3> QED
      BY <2>1, <2>2, <3>1, <3>2, GraphAssumption DEF Creators, Requests
  <2> QED
    BY <1>5, <2>3 DEF Read, Importers
<1>6. CASE Other
  <2>1. repo # Absent /\ repo \in Repositories /\ UNCHANGED <<pc, flight>>
    BY <1>6 DEF Other, GInv, GTypeOK
  <2>2. repo' # Absent /\ repo'.imports \subseteq repo.imports
    BY <1>6, <2>1, GraphAssumption DEF Other, Repositories, Strange
  <2> QED
    BY <2>1, <2>2 DEF Importers, Creators
<1> QED
  BY <1>1, <1>2, <1>3, <1>4, <1>5, <1>6 DEF GNext, Step, Execute

\* What is exact is seen to be so between the two requests that look for it.
LEMMA SeenExact ==
  ASSUME GInv, GNext
  PROVE  /\ \A r \in Runners : pc'[r] = "default" => exact'[r]
         /\ VerifiedWasThere'
<1> SUFFICES ASSUME NEW r \in Runners
             PROVE  /\ pc'[r] = "default" => exact'[r]
                    /\ receipt'[r] = "DEPLOYMENT_VERIFIED" => exact'[r]
  BY DEF VerifiedWasThere
<1> DEFINE Same == pc'[r] = pc[r] /\ receipt'[r] = receipt[r]
           Harmless == pc'[r] # "default" /\ (receipt'[r] = "DEPLOYMENT_VERIFIED" => exact'[r])
<1>0. exact'[r] = IF pc[r] # Absent THEN exact[r] \/ Exact(repo) ELSE pc'[r] = Absent /\ exact[r]
  BY DEF GNext
<1>9. pc[r] # Absent /\ receipt[r] = "DEPLOYMENT_VERIFIED" => exact'[r]
  BY <1>0 DEF GInv, VerifiedWasThere
<1>1. CASE Same
  BY <1>0, <1>1, GraphAssumption DEF GInv, GTypeOK, VerifiedWasThere, Requests
<1>2. CASE Harmless
  BY <1>2
<1>3. ASSUME Read(r, "complete"), pc'[r] = "default" PROVE receipt'[r] = receipt[r] /\ exact'[r]
  <2>1. pc[r] = "complete" /\ r \in Creators
    BY <1>3 DEF Read, Creators
  <2>2. repo # Absent
    BY <2>1 DEF GInv, Importers
  <2>3. Wanted("complete") /\ receipt' = receipt
    BY <1>3, GraphAssumption DEF Read, Goto, Return, Requests, GInv, GTypeOK
  <2>4. Exact(repo)
    BY <2>2, <2>3 DEF Wanted, Exact
  <2> QED
    BY <1>0, <2>1, <2>3, <2>4, GraphAssumption DEF Requests, GInv, GTypeOK
<1>4. ASSUME Read(r, "default"), receipt'[r] = "DEPLOYMENT_VERIFIED" PROVE exact'[r] /\ pc'[r] # "default"
  BY <1>0, <1>4, GraphAssumption DEF Read, Return, Goto, Requests, GInv, GTypeOK
<1>5. ASSUME NEW q \in Runners, Execute(q) PROVE Same \/ Harmless
  BY <1>5, GraphAssumption DEF Execute, GInv, GTypeOK, Receipts, Requests
<1>6. ASSUME NEW q \in Runners, NEW request \in {"create", "import"}, Write(q, request) PROVE Same \/ Harmless
  <2>1. CASE q # r
    BY <1>6, <2>1 DEF Write, Goto, Return, GInv, GTypeOK
  <2>2. CASE q = r
    <3>1. CASE Goto(r, After[request])
      <4>1. pc[r] # Absent
        BY <1>6, <2>2, GraphAssumption DEF Write, Requests
      <4> QED
        BY <1>9, <2>2, <3>1, <4>1, Order DEF Goto, GInv, GTypeOK
    <3>2. CASE Return(r, "RECONCILIATION_REQUIRED")
      BY <3>2, GraphAssumption DEF Return, GInv, GTypeOK, Requests
    <3> QED
      BY <1>6, <2>2, <3>1, <3>2 DEF Write
  <2> QED
    BY <2>1, <2>2
<1>7. ASSUME NEW q \in Runners, NEW request \in DOMAIN Then \cup {"default"}, Read(q, request)
      PROVE  \/ Same \/ Harmless
             \/ q = r /\ request = "complete" /\ pc'[r] = "default"
             \/ q = r /\ request = "default" /\ receipt'[r] = "DEPLOYMENT_VERIFIED"
  <2>1. CASE q # r
    BY <1>7, <2>1 DEF Read, Goto, Return, GInv, GTypeOK
  <2>2. CASE q = r
    <3>1. ASSUME NEW s \in {"RECONCILIATION_REQUIRED", "FAILED"}, Return(r, s) PROVE Harmless
      BY <3>1, GraphAssumption DEF Return, GInv, GTypeOK, Requests
    <3>2. CASE request # "default" /\ Goto(r, Then[request])
      <4>1. request \notin {"default", "complete"} => Then[request] # "default"
        BY DEF Then
      <4>2. receipt'[r] = receipt[r] /\ pc'[r] = Then[request] /\ (receipt[r] = "DEPLOYMENT_VERIFIED" => exact'[r])
        <5>1. pc[r] # Absent
          BY <1>7, <2>2, <3>2, GraphAssumption DEF Read, Requests, Then
        <5> QED
          BY <1>9, <3>2, <5>1 DEF Goto, GInv, GTypeOK
      <4> QED
        BY <2>2, <3>2, <4>1, <4>2
    <3>3. CASE request = "default" /\ Return(r, "DEPLOYMENT_VERIFIED")
      BY <2>2, <3>3 DEF Return, GInv, GTypeOK
    <3> QED
      BY <1>7, <2>2, <3>1, <3>2, <3>3 DEF Read
  <2> QED
    BY <2>1, <2>2
<1>8. CASE Other \/ \E q \in Runners, request \in {"create", "import"} : Late(q, request)
  BY <1>1, <1>8 DEF Other, Late
<1> QED
  BY <1>1, <1>2, <1>3, <1>4, <1>5, <1>6, <1>7, <1>8 DEF GNext, Step

LEMMA GraphStep == GInv /\ [GNext]_gvars => GInv'
<1> SUFFICES ASSUME GInv, [GNext]_gvars PROVE GInv'
  OBVIOUS
<1>1. CASE UNCHANGED gvars
  BY <1>1 DEF gvars, GInv, GTypeOK, Importers, Creators, VerifiedWasThere
<1>2. CASE GNext
  <2>1. GTypeOK'
    BY <1>2, GraphTypes DEF GInv
  <2>2. (repo' = Absent => Importers' = {}) /\ \A r, s \in Importers' : r = s
    BY <1>2, ImporterSteps DEF GInv
  <2> QED
    BY <1>2, <2>1, <2>2, SeenExact DEF GInv
<1> QED
  BY <1>1, <1>2

\* At most one execution is an importer, so at most one has imported.
LEMMA GraphSafe == GInv => DeploymentWasExact
<1> SUFFICES ASSUME GInv, repo # Absent PROVE Cardinality(repo.imports) <= 1
  BY DEF GInv, DeploymentWasExact, OneImporter
<1>1. \A r, s \in repo.imports : r = s
  BY DEF GInv, Importers
<1>2. CASE repo.imports = {}
  BY <1>2, FS_EmptySet
<1>3. ASSUME NEW r \in repo.imports PROVE Cardinality(repo.imports) <= 1
  <2>1. repo.imports = {r}
    BY <1>1, <1>3
  <2>2. Cardinality({r}) = 1
    BY FS_Singleton
  <2> QED
    BY <2>1, <2>2
<1> QED
  BY <1>2, <1>3

\* Whoever executes a plan, how often, with whatever requests lost or late and
\* whatever others do on the server: a deployment reported as verified held
\* exactly the package, and was imported by one execution
\* (integrations/graphdb.py, execute).
THEOREM DeploymentsAreExact == GSpec => []DeploymentWasExact
BY GraphInit, GraphStep, GraphSafe, PTL DEF GSpec

-----------------------------------------------------------------------------
(* The assessment of a case (RuleEvaluation).                              *)

LEMMA MinIsLeast ==
  ASSUME NEW S \in SUBSET Nat, S # {}
  PROVE  Min(S) \in S
<1>1. PICK x \in S : \A y \in S : ~ (<<y, x>> \in OpToRel(<, Nat))
  BY NatLessThanWellFounded, WFMin
<1>2. \E z \in S : \A y \in S : z =< y
  <2> SUFFICES ASSUME NEW y \in S PROVE x =< y
    OBVIOUS
  <2>1. ~ (y < x)
    BY <1>1 DEF OpToRel
  <2> QED
    BY <2>1
<1> QED
  BY <1>2 DEF Min

\* Windows that do not overlap two by two: at most one version of a rule at a time.
LEMMA OneInForce ==
  ASSUME RTypeOK, Valid(catalog), NEW r, NEW v \in InForce(r, now), NEW w \in InForce(r, now)
  PROVE  v = w
<1>1. /\ v \in catalog /\ v.rule = r /\ v.from <= now /\ now <= v.to
      /\ w \in catalog /\ w.rule = r /\ w.from <= now /\ now <= w.to
  BY DEF InForce
<1>2. /\ v.from \in Int /\ v.to \in Int /\ w.from \in Int /\ w.to \in Int /\ now \in Int
  BY <1>1, RulesAssumption DEF RTypeOK
<1> QED
  BY <1>1, <1>2 DEF Valid

LEMMA NeverMultiple ==
  ASSUME RTypeOK, Valid(catalog), NEW r
  PROVE  ~ Cardinality(InForce(r, now)) > 1
<1>1. CASE InForce(r, now) = {}
  BY <1>1, FS_EmptySet
<1>2. ASSUME NEW v \in InForce(r, now) PROVE ~ Cardinality(InForce(r, now)) > 1
  <2>1. InForce(r, now) = {v}
    BY <1>2, OneInForce
  <2>2. Cardinality({v}) = 1
    BY FS_Singleton
  <2> QED
    BY <2>1, <2>2
<1> QED
  BY <1>1, <1>2

\* What the outcome of a version that is in force says, and what it cites.
LEMMA OutcomeSays ==
  ASSUME RTypeOK, NEW r, NEW v \in InForce(r, now)
  PROVE  /\ Outcome(v).rule = r
         /\ Outcome(v).status = "PASS" => Proved(r, now, evidence)
         /\ Outcome(v).status \in {"PASS", "FAIL", "MISSING"}
         /\ Outcome(v).evidence # Nothing =>
              Outcome(v).evidence \in evidence /\ Pieces[Outcome(v).evidence].type = v.type
<1> DEFINE all == {e \in evidence : Pieces[e].type = v.type}
           e == IF Usable(v.type) # {} THEN Min(Usable(v.type)) ELSE IF all # {} THEN Min(all) ELSE Nothing
           status == IF Usable(v.type) = {} THEN "MISSING" ELSE IF Satisfies(v, e) THEN "PASS" ELSE "FAIL"
<1>1. Usable(v.type) \in SUBSET Nat /\ all \in SUBSET Nat /\ Usable(v.type) \subseteq all
  BY RulesAssumption DEF Usable, RTypeOK
<1>2. /\ Usable(v.type) # {} => e \in Usable(v.type)
      /\ e # Nothing => e \in all
  BY <1>1, MinIsLeast
<1>3. v.rule = r
  BY DEF InForce
<1>4. Outcome(v) = [rule |-> v.rule, version |-> v.version, evidence |-> e, status |-> status,
                    reason |-> IF status = "MISSING" THEN "MISSING_OR_EXPIRED_EVIDENCE" ELSE v.rule]
  BY DEF Outcome
<1> HIDE DEF e, all
<1>5. status = "PASS" => Proved(r, now, evidence)
  <2> SUFFICES ASSUME status = "PASS" PROVE Proved(r, now, evidence)
    OBVIOUS
  <2>1. e \in Usable(v.type) /\ Satisfies(v, e)
    BY <1>2
  <2>2. e \in evidence /\ Pieces[e].type = v.type /\ Pieces[e].valid /\ Pieces[e].until >= now
    BY <2>1 DEF Usable
  <2> QED
    BY <2>1, <2>2 DEF Proved, Satisfies
<1>6. e # Nothing => e \in evidence /\ Pieces[e].type = v.type
  BY <1>2 DEF all
<1> HIDE DEF status
<1>7. status \in {"PASS", "FAIL", "MISSING"}
  BY DEF status
<1> QED
  BY <1>3, <1>4, <1>5, <1>6, <1>7

Chosen == {Outcome(CHOOSE v \in InForce(r, now) : TRUE) : r \in Rules(catalog)}

\* An assessment has one outcome for each rule, about the version in force.
LEMMA OutcomePerRule ==
  ASSUME RTypeOK, \A r \in Rules(catalog) : InForce(r, now) # {}
  PROVE  /\ \A r \in Rules(catalog) : \E o \in Chosen : o.rule = r
         /\ \A o \in Chosen :
              /\ o.rule \in Rules(catalog)
              /\ o.status \in {"PASS", "FAIL", "MISSING"}
              /\ o.status = "PASS" => Proved(o.rule, now, evidence)
              /\ o.evidence # Nothing =>
                   \E v \in catalog : v.rule = o.rule /\ v.type = Pieces[o.evidence].type
<1> SUFFICES ASSUME NEW r \in Rules(catalog)
             PROVE  \E o : /\ o = Outcome(CHOOSE v \in InForce(r, now) : TRUE)
                           /\ o.rule = r
                           /\ o.status \in {"PASS", "FAIL", "MISSING"}
                           /\ o.status = "PASS" => Proved(r, now, evidence)
                           /\ o.evidence # Nothing =>
                                \E v \in catalog : v.rule = r /\ v.type = Pieces[o.evidence].type
  BY DEF Chosen
<1>1. PICK v \in InForce(r, now) : v = CHOOSE w \in InForce(r, now) : TRUE
  OBVIOUS
<1>2. v \in catalog /\ v.rule = r
  BY DEF InForce
<1>3. WITNESS Outcome(v)
<1> QED
  BY <1>1, <1>2, OutcomeSays

\* Every rule has passed when none is missing or failed.
LEMMA SummarySays ==
  ASSUME NEW outcomes, Summary(outcomes) = "ELIGIBLE"
  PROVE  \A o \in outcomes : o.status \notin {"MISSING", "FAIL"}
BY DEF Summary

\* A reason that conforms to the shape is about one rule, on evidence of that rule.
LEMMA ReasonsSay ==
  ASSUME NEW outcomes, IsFiniteSet({o.rule : o \in outcomes}), Conforms(Reasons(outcomes)), NEW o \in outcomes, o.status # "PASS"
  PROVE  \E s \in Reasons(outcomes) :
           /\ s.rules = {o.rule}
           /\ \A e \in s.evidence : e # Nothing /\ \E p \in outcomes : p.rule = o.rule /\ p.evidence = e
<1> DEFINE open == {p \in outcomes : p.status # "PASS"}
           same == {p \in open : p.reason = o.reason}
           s == [code |-> o.reason, rules |-> {p.rule : p \in same},
                 evidence |-> {p.evidence : p \in same} \ {Nothing}]
<1>1. s \in Reasons(outcomes)
  BY DEF Reasons
<1>2. o.rule \in s.rules
  OBVIOUS
<1>3. Cardinality(s.rules) = 1
  BY <1>1 DEF Conforms
<1>4. s.rules = {o.rule}
  <2>1. s.rules \subseteq {p.rule : p \in outcomes}
    OBVIOUS
  <2>2. IsFiniteSet(s.rules)
    BY <2>1, FS_Subset
  <2>3. PICK r : s.rules = {r}
    <3> HIDE DEF s
    <3> QED
      BY <1>3, <2>2, FS_Singleton
  <2> QED
    BY <1>2, <2>3
<1>5. ASSUME NEW e \in s.evidence PROVE e # Nothing /\ \E p \in outcomes : p.rule = o.rule /\ p.evidence = e
  <2>1. PICK p \in same : p.evidence = e /\ e # Nothing
    OBVIOUS
  <2>2. p.rule \in s.rules /\ p \in outcomes
    OBVIOUS
  <2> QED
    BY <2>1, <2>2, <1>4
<1> QED
  BY <1>1, <1>4, <1>5

LEMMA FinitelyManyRules == ASSUME RTypeOK PROVE IsFiniteSet(Rules(catalog))
<1> DEFINE f == [v \in catalog |-> v.rule]
<1>1. f \in Surjection(catalog, Rules(catalog))
  BY DEF Surjection, Rules
<1>2. IsFiniteSet(catalog)
  BY RulesAssumption DEF RTypeOK
<1> QED
  BY <1>1, <1>2, FS_Surjection

\* What an assessment that was made now says is so now.
LEMMA AssessedRightly ==
  ASSUME RTypeOK, Assess
  PROVE  /\ result'.at = now
         /\ result'.is # "MULTIPLE"
         /\ result'.is = "ASSESSED" =>
              /\ result'.on = evidence
              /\ result'.decision = "ELIGIBLE" => \A r \in Rules(catalog) : Proved(r, now, evidence)
              /\ result'.advances => Advances(result'.decision)
              /\ result'.publishable =>
                   \A r \in Rules(catalog) : ~Proved(r, now, evidence) =>
                     \E s \in result'.reasons :
                       /\ s.rules = {r}
                       /\ \A e \in s.evidence : \E v \in catalog : v.rule = r /\ v.type = Pieces[e].type
<1>1. CASE ~Valid(catalog)
  <2>1. result' = [is |-> "INVALID", at |-> now]
    BY <1>1 DEF Assess
  <2> QED
    BY <2>1
<1>2. CASE Valid(catalog) /\ \E r \in Rules(catalog) : InForce(r, now) = {}
  <2>1. result' = [is |-> "NONE", at |-> now]
    BY <1>2 DEF Assess
  <2> QED
    BY <2>1
<1>3. CASE Valid(catalog) /\ \A r \in Rules(catalog) : InForce(r, now) # {}
  <2> DEFINE reasons == Reasons(Chosen)
             decision == Summary(Chosen)
  <2>1. ~ \E r \in Rules(catalog) : Cardinality(InForce(r, now)) > 1
    BY <1>3, NeverMultiple
  <2>2. result' = [is |-> "ASSESSED", at |-> now, on |-> evidence, decision |-> decision, reasons |-> reasons,
                   publishable |-> Conforms(reasons), advances |-> Advances(decision)]
    BY <1>3, <2>1, Zenon DEF Assess, Chosen
  <2>3. decision = "ELIGIBLE" => \A r \in Rules(catalog) : Proved(r, now, evidence)
    BY <1>3, OutcomePerRule, SummarySays
  <2>4. ASSUME Conforms(reasons), NEW r \in Rules(catalog), ~Proved(r, now, evidence)
        PROVE  \E s \in reasons :
                 /\ s.rules = {r}
                 /\ \A e \in s.evidence : \E v \in catalog : v.rule = r /\ v.type = Pieces[e].type
    <3>1. PICK o \in Chosen : o.rule = r /\ o.status # "PASS"
      BY <1>3, <2>4, OutcomePerRule
    <3>2. {p.rule : p \in Chosen} \subseteq Rules(catalog)
      BY <1>3, OutcomePerRule
    <3>3. IsFiniteSet({p.rule : p \in Chosen})
      BY <3>2, FinitelyManyRules, FS_Subset
    <3>4. PICK s \in reasons :
            /\ s.rules = {o.rule}
            /\ \A e \in s.evidence : e # Nothing /\ \E p \in Chosen : p.rule = o.rule /\ p.evidence = e
      BY <2>4, <3>1, <3>3, ReasonsSay
    <3> QED
      BY <1>3, <3>1, <3>4, OutcomePerRule
  <2> HIDE DEF reasons, decision
  <2>5. /\ result'.at = now /\ result'.is = "ASSESSED" /\ result'.on = evidence
        /\ result'.decision = decision /\ result'.reasons = reasons
        /\ result'.publishable = Conforms(reasons) /\ result'.advances = Advances(decision)
    BY <2>2
  <2> QED
    BY <2>3, <2>4, <2>5
<1> QED
  BY <1>1, <1>2, <1>3

LEMMA RulesStep == ASSUME EligibleIsProved, [RNext]_rvars PROVE EligibleIsProved'
<1>1. UNCHANGED catalog
  BY DEF RNext, Arrive, Tick, Assess, rvars
<1>2. CASE Assess
  <2>1. UNCHANGED <<catalog, now, evidence, auth, agreement>>
    BY <1>2 DEF Assess
  <2>2. \A r, t, on : Proved(r, t, on)' <=> Proved(r, t, on)
    BY <1>1 DEF Proved, InForce
  <2>3. RTypeOK
    BY DEF EligibleIsProved
  <2>4. RTypeOK'
    BY <1>2, <2>1, <2>3, AssessedRightly DEF RTypeOK
  <2>5. OneVersionAtATime' /\ EligibleOnEvidence' /\ PublishedSaysWhy'
    BY <1>2, <2>1, <2>2, <2>3, AssessedRightly
       DEF OneVersionAtATime, EligibleOnEvidence, PublishedSaysWhy, Rules
  <2>6. AdvanceIsEligible'
    BY <1>2, <2>1, <2>2, <2>3, AssessedRightly DEF AdvanceIsEligible, Advances, Pending, Rules
  <2> QED
    BY <2>4, <2>5, <2>6 DEF EligibleIsProved
<1>3. CASE UNCHANGED <<catalog, auth, agreement, result>> /\ evidence \subseteq evidence' /\ RTypeOK' 
  <2>1. OneVersionAtATime' /\ PublishedSaysWhy'
    <3>2. OneVersionAtATime /\ PublishedSaysWhy
      BY DEF EligibleIsProved
    <3>3. OneVersionAtATime'
      BY <1>3, <3>2 DEF OneVersionAtATime
    <3>4. PublishedSaysWhy'
      <4>1. ASSUME NEW r
            PROVE  (\E s \in result'.reasons :
                      s.rules = {r} /\ \A e \in s.evidence : \E v \in catalog' : v.rule = r /\ v.type = Pieces[e].type)
                <=> \E s \in result.reasons :
                      s.rules = {r} /\ \A e \in s.evidence : \E v \in catalog : v.rule = r /\ v.type = Pieces[e].type
        BY <1>3
      <4>2. \A r : Proved(r, result.at, result.on)' <=> Proved(r, result.at, result.on)
        BY <1>3 DEF Proved, InForce
      <4> QED
        BY <1>3, <3>2, <4>1, <4>2 DEF PublishedSaysWhy, Rules
    <3> QED
      BY <3>3, <3>4
  <2>2. EligibleOnEvidence' /\ AdvanceIsEligible'
    BY <1>3 DEF EligibleIsProved, EligibleOnEvidence, AdvanceIsEligible, Pending, Proved, InForce, Rules
  <2> QED
    BY <1>3, <2>1, <2>2 DEF EligibleIsProved
<1>4. CASE (\E e \in DOMAIN Pieces : Arrive(e)) \/ Tick \/ UNCHANGED rvars
  <2>1. RTypeOK'
    <3>1. RTypeOK
      BY DEF EligibleIsProved
    <3>2. CASE \E e \in DOMAIN Pieces : Arrive(e)
      BY <3>1, <3>2 DEF RTypeOK, Arrive
    <3>3. CASE Tick
      BY <3>1, <3>3, RulesAssumption DEF RTypeOK, Tick
    <3>4. CASE UNCHANGED rvars
      BY <3>1, <3>4 DEF RTypeOK, rvars
    <3> QED
      BY <1>4, <3>2, <3>3, <3>4
  <2> QED
    BY <1>3, <1>4, <2>1 DEF Arrive, Tick, rvars
<1> QED
  BY <1>2, <1>4 DEF RNext

\* Whatever the rules, their versions and windows, and whenever evidence arrives and
\* expires: a case is eligible, goes on, or is published as not eligible, on rules in
\* force and evidence that is good at that time (rule_engine.py, evaluator.py).
THEOREM EligibilityIsProved == RSpec => []EligibleIsProved
<1>1. RInit => EligibleIsProved
  BY RulesAssumption DEF RInit, EligibleIsProved, RTypeOK, OneVersionAtATime, EligibleOnEvidence,
     AdvanceIsEligible, PublishedSaysWhy
<1> QED
  BY <1>1, RulesStep, PTL DEF RSpec

-----------------------------------------------------------------------------
(* The sessions of a browser (BrowserSession).                             *)

\* Whoever names a session names a row that exists.
Known(s) == s \in Rows \cup {Empty} /\ (s # Empty => sessions[s] # Empty)

\* A request under way names rows that exist, has an answer when it is answered, and
\* a write has passed under the session of its token.
Underway(r) ==
  /\ r \in Request
  /\ Known(r.cookie) /\ Known(r.csrf)
  /\ r.kind = "login" => r.token \in Tokens /\ r.at # "passed"
  /\ r.at \in {"passed-login", "resolved"} => r.kind = "login"
  /\ r.at = "answered" => r.answer # Empty /\ Known(r.answer.what)
  /\ r.at = "passed" /\ r.cookie # Empty /\ r.kind \in {"write", "logout"} => r.csrf = r.cookie

BTyped ==
  /\ sessions \in [Rows -> Session \cup {Empty}] /\ revoked \subseteq Tokens /\ Known(cookie)
  /\ csrf \in [Tabs -> Rows \cup {Empty}] /\ data \in [Tabs -> Rows \cup {Empty}]
  /\ expired \in [Tabs -> BOOLEAN]
  /\ \A t \in Tabs : Known(csrf[t]) /\ Known(data[t])
  /\ requests \in [Keys -> Request \cup {Empty}]
  /\ \A k \in Keys : requests[k] # Empty => Underway(requests[k])

BInv == BTyped /\ CarriedOutForTheTab /\ GoodWhenCarriedOut

LEMMA BrowserInit == BInit => BInv
BY DEF BInit, BInv, BTyped, Known, Keys, CarriedOutForTheTab, GoodWhenCarriedOut

\* A step is one of a request, of the clock or of an operator.
OfARequest ==
  \E k \in Keys :
    \/ \E kind \in Kinds : Send(k, kind)
    \/ \E token \in Tokens : SendLogin(k, token)
    \/ Middleware(k) \/ Handle(k) \/ Enter(k) \/ Resolve(k) \/ Create(k) \/ Receive(k)

LEMMA BrowserSteps ==
  ASSUME BNext
  PROVE  \/ OfARequest
         \/ (\E s \in Rows : Expire(s)) \/ \E token \in Tokens : Revoke(token)
BY Zenon DEF BNext, OfARequest

\* How a step changes the table of sessions.
LEMMA SessionSteps ==
  ASSUME BInv, BNext
  PROVE  \/ UNCHANGED sessions
         \/ \E s \in Rows : sessions[s] # Empty /\ sessions' = [sessions EXCEPT ![s].good = FALSE]
         \/ \E k \in Keys : /\ Create(k)
                            /\ \E s \in Rows :
                                 /\ sessions[s] = Empty /\ requests[k].token \in Tokens
                                 /\ sessions' = [sessions EXCEPT ![s] = [token |-> requests[k].token, good |-> TRUE]]
<1>1. ASSUME NEW k \in Keys, Handle(k) \/ Enter(k)
      PROVE  \/ UNCHANGED sessions
             \/ \E s \in Rows : sessions[s] # Empty /\ sessions' = [sessions EXCEPT ![s].good = FALSE]
  <2>1. requests[k] # Empty /\ Underway(requests[k])
    BY <1>1 DEF Handle, Enter, BInv, BTyped
  <2>2. Known(requests[k].cookie)
    BY <2>1 DEF Underway
  <2>3. \/ UNCHANGED sessions
        \/ requests[k].cookie # Empty /\ sessions' = [sessions EXCEPT ![requests[k].cookie].good = FALSE]
    BY <1>1 DEF Handle, Enter, Good
  <2> QED
    BY <2>2, <2>3 DEF Known
<1>2. ASSUME NEW k \in Keys, Create(k)
      PROVE  \E s \in Rows : /\ sessions[s] = Empty /\ requests[k].token \in Tokens
                             /\ sessions' = [sessions EXCEPT ![s] = [token |-> requests[k].token, good |-> TRUE]]
  BY <1>2 DEF Create, BInv, BTyped, Underway
<1>3. CASE \E s \in Rows : Expire(s)
  BY <1>3 DEF Expire
<1>4. ASSUME NEW k \in Keys, \/ \E kind \in Kinds : Send(k, kind)
                             \/ \E token \in Tokens : SendLogin(k, token)
                             \/ Middleware(k) \/ Resolve(k) \/ Receive(k)
      PROVE  UNCHANGED sessions
  BY <1>4 DEF Send, SendLogin, Middleware, Resolve, Receive
<1>5. CASE \E token \in Tokens : Revoke(token)
  BY <1>5 DEF Revoke
<1> QED
  BY <1>1, <1>2, <1>3, <1>4, <1>5 DEF BNext, Keys

\* Rows are never removed, and a session that is over is never good again.
LEMMA RowsStay ==
  ASSUME BInv, BNext
  PROVE  /\ sessions' \in [Rows -> Session \cup {Empty}]
         /\ \A s : Known(s) => Known(s)'
         /\ \A s \in Rows : Good(s)' => Good(s) \/ \E k \in Keys : Create(k)
<1>0. sessions \in [Rows -> Session \cup {Empty}] /\ Empty \notin Session
  BY BrowserAssumption DEF BInv, BTyped
<1>1. revoked \subseteq revoked'
  BY DEF BNext, Send, SendLogin, Middleware, Handle, Enter, Resolve, Create, Receive, Expire, Revoke
<1>2. CASE UNCHANGED sessions
  BY <1>0, <1>1, <1>2 DEF Known, Good
<1>3. ASSUME NEW s \in Rows, sessions[s] # Empty, sessions' = [sessions EXCEPT ![s].good = FALSE]
      PROVE  /\ sessions' \in [Rows -> Session \cup {Empty}]
             /\ \A t : Known(t) => Known(t)'
             /\ \A t \in Rows : Good(t)' => Good(t)
  <2>1. [sessions[s] EXCEPT !.good = FALSE] \in Session /\ ~[sessions[s] EXCEPT !.good = FALSE].good
    BY <1>0, <1>3 DEF Session
  <2>2. sessions' = [sessions EXCEPT ![s] = [sessions[s] EXCEPT !.good = FALSE]]
    BY <1>3
  <2>3. \A t \in Rows : t # s => sessions'[t] = sessions[t]
    BY <1>0, <2>2
  <2>4. sessions'[s] \in Session /\ ~sessions'[s].good
    BY <1>0, <2>1, <2>2
  <2>5. sessions' \in [Rows -> Session \cup {Empty}]
    BY <1>0, <2>1, <2>2
  <2>6. \A t : Known(t) => Known(t)'
    BY <1>0, <2>3, <2>4 DEF Known, Rows
  <2>7. \A t \in Rows : Good(t)' => Good(t)
    BY <1>1, <2>3, <2>4 DEF Good
  <2> QED
    BY <2>5, <2>6, <2>7
<1>4. ASSUME NEW k \in Keys, Create(k), NEW s \in Rows, sessions[s] = Empty, requests[k].token \in Tokens,
             sessions' = [sessions EXCEPT ![s] = [token |-> requests[k].token, good |-> TRUE]]
      PROVE  /\ sessions' \in [Rows -> Session \cup {Empty}]
             /\ \A t : Known(t) => Known(t)'
  <2>1. [token |-> requests[k].token, good |-> TRUE] \in Session
    BY <1>4 DEF Session
  <2>2. sessions'[s] # Empty /\ \A t \in Rows : t # s => sessions'[t] = sessions[t]
    BY <1>0, <1>4, <2>1
  <2>3. sessions' \in [Rows -> Session \cup {Empty}]
    BY <1>0, <1>4, <2>1
  <2> QED
    BY <2>2, <2>3 DEF Known, Rows
<1> QED
  BY <1>2, <1>3, <1>4, SessionSteps

\* What a step puts in the place of a request.
LEMMA PutKeeps ==
  ASSUME BInv, BNext, NEW k \in Keys, NEW r, Put(k, r), r # Empty => Underway(r)'
  PROVE  /\ requests' \in [Keys -> Request \cup {Empty}]
         /\ (\A j \in Keys : requests[j] # Empty => Underway(requests[j]))'
<1>1. requests' = [requests EXCEPT ![k] = r] /\ r \in Request \cup {Empty}
  BY DEF Put, Underway
<1>2. requests \in [Keys -> Request \cup {Empty}] /\ \A j \in Keys : requests[j] # Empty => Underway(requests[j])
  BY DEF BInv, BTyped
<1>3. \A q : Underway(q) => Underway(q)'
  BY RowsStay DEF Underway
<1>4. requests'[k] = r /\ \A j \in Keys : j # k => requests'[j] = requests[j]
  BY <1>1, <1>2
<1>5. (\A j \in Keys : requests[j] # Empty => Underway(requests[j]))'
  <2> SUFFICES ASSUME NEW j \in Keys, requests'[j] # Empty PROVE Underway(requests[j])'
    BY DEF Keys
  <2>1. PICK q : q = requests'[j]
    OBVIOUS
  <2>2. Underway(q)'
    <3>1. j # k => Underway(q)
      BY <1>2, <1>4, <2>1
    <3> QED
      BY <1>3, <1>4, <2>1, <3>1
  <2> QED
    BY <2>1, <2>2 DEF Underway
<1> QED
  BY <1>1, <1>2, <1>5

LEMMA ReplyKeeps ==
  ASSUME BInv, BNext, NEW k \in Keys, requests[k] # Empty,
         NEW c \in {200, 401, 403}, NEW what, Known(what)', Reply(k, c, what)
  PROVE  /\ requests' \in [Keys -> Request \cup {Empty}]
         /\ (\A j \in Keys : requests[j] # Empty => Underway(requests[j]))'
<1>0. PICK r : r = [requests[k] EXCEPT !.at = "answered", !.answer = [code |-> c, what |-> what]]
  OBVIOUS
<1>1. Underway(requests[k]) /\ requests[k] \in Request
  BY DEF BInv, BTyped, Underway
<1>2. what \in Rows \cup {Empty}
  BY DEF Known, Rows
<1>3. [code |-> c, what |-> what] \in Answer /\ [code |-> c, what |-> what] # Empty
  BY <1>2, BrowserAssumption DEF Answer
<1>4. /\ r \in Request /\ r.at = "answered" /\ r.answer = [code |-> c, what |-> what]
      /\ r.kind = requests[k].kind /\ r.token = requests[k].token
      /\ r.cookie = requests[k].cookie /\ r.csrf = requests[k].csrf
  <2>1. PICK q \in Request : q = requests[k]
    BY <1>1
  <2>2. PICK a \in Answer : a = [code |-> c, what |-> what]
    BY <1>3
  <2>3. r = [q EXCEPT !.at = "answered", !.answer = a]
    BY <1>0, <2>1, <2>2, Zenon
  <2>4. /\ r.at = "answered" /\ r.answer = a /\ r.kind = q.kind /\ r.token = q.token
        /\ r.cookie = q.cookie /\ r.csrf = q.csrf
    BY <2>3 DEF Request
  <2>5. r = [kind |-> q.kind, token |-> q.token, cookie |-> q.cookie, csrf |-> q.csrf,
             answer |-> a, at |-> "answered"]
    BY <2>3 DEF Request
  <2>6. r \in Request
    BY <2>1, <2>2, <2>5 DEF Request
  <2> QED
    BY <2>1, <2>2, <2>4, <2>6
<1>5. Put(k, r)
  BY <1>0 DEF Reply
<1>6. Known(r.cookie)' /\ Known(r.csrf)' /\ Known(r.answer.what)'
  <2>1. Known(r.cookie) /\ Known(r.csrf)
    BY <1>1, <1>4 DEF Underway
  <2>2. r.answer.what = what
    BY <1>4
  <2> QED
    BY <2>1, <2>2, RowsStay
<1>7. Underway(r)'
  BY <1>1, <1>3, <1>4, <1>6 DEF Underway
<1> QED
  BY <1>5, <1>7, PutKeeps

\* What becomes of the requests when an answer is received: nothing new.
LEMMA DropKeeps ==
  ASSUME BInv, BNext, \A j \in Keys : requests'[j] \in {requests[j], Empty},
         requests' = [j \in Keys |-> requests'[j]]
  PROVE  /\ requests' \in [Keys -> Request \cup {Empty}]
         /\ (\A j \in Keys : requests[j] # Empty => Underway(requests[j]))'
<1>1. requests \in [Keys -> Request \cup {Empty}] /\ \A j \in Keys : requests[j] # Empty => Underway(requests[j])
  BY DEF BInv, BTyped
<1>2. requests' \in [Keys -> Request \cup {Empty}]
  BY <1>1
<1>3. ASSUME NEW j \in Keys, requests'[j] # Empty PROVE Underway(requests[j])'
  <2>1. PICK q : q = requests'[j]
    OBVIOUS
  <2>2. Underway(q)
    BY <1>1, <1>3, <2>1
  <2>3. Underway(q)'
    BY <2>2, RowsStay DEF Underway
  <2> QED
    BY <2>1, <2>3 DEF Underway
<1> QED
  BY <1>2, <1>3 DEF Keys

LEMMA RequestsKept ==
  ASSUME BInv, BNext
  PROVE  /\ requests' \in [Keys -> Request \cup {Empty}]
         /\ (\A j \in Keys : requests[j] # Empty => Underway(requests[j]))'
<1> DEFINE Kept == /\ requests' \in [Keys -> Request \cup {Empty}]
                   /\ (\A j \in Keys : requests[j] # Empty => Underway(requests[j]))'
<1>0. /\ \A k \in Keys : k[1] \in Tabs
      /\ \A t \in Tabs : Known(csrf[t]) /\ Known(data[t])
      /\ Known(cookie) /\ Known(Empty)
      /\ requests \in [Keys -> Request \cup {Empty}]
      /\ \A k \in Keys : requests[k] # Empty => Underway(requests[k])
  BY DEF BInv, BTyped, Keys, Known
<1>1. ASSUME NEW k \in Keys, NEW kind \in Kinds, Send(k, kind) PROVE Kept
  <2>1. PICK r : r = [kind |-> kind, cookie |-> cookie, csrf |-> csrf[k[1]], token |-> Empty, at |-> "sent", answer |-> Empty]
    OBVIOUS
  <2>2. Underway(r)
    BY <1>0, <2>1, BrowserAssumption DEF Underway, Request, Known
  <2>3. Underway(r)'
    BY <2>2, RowsStay DEF Underway
  <2> QED
    BY <1>1, <2>1, <2>3, PutKeeps DEF Send
<1>2. ASSUME NEW k \in Keys, NEW token \in Tokens, SendLogin(k, token) PROVE Kept
  <2>1. PICK r : r = [kind |-> "login", cookie |-> cookie, csrf |-> Empty, token |-> token, at |-> "sent", answer |-> Empty]
    OBVIOUS
  <2>2. Underway(r)
    BY <1>0, <2>1 DEF Underway, Request, Known
  <2>3. Underway(r)'
    BY <2>2, RowsStay DEF Underway
  <2> QED
    BY <1>2, <2>1, <2>3, PutKeeps DEF SendLogin
<1>3. ASSUME NEW k \in Keys, requests[k] # Empty, NEW at \in {"passed", "passed-login", "resolved"},
             Put(k, [requests[k] EXCEPT !.at = at]),
             at = "passed" => /\ requests[k].kind # "login"
                              /\ requests[k].cookie # Empty /\ requests[k].kind \in {"write", "logout"}
                                   => requests[k].csrf = requests[k].cookie,
             at # "passed" => requests[k].kind = "login"
      PROVE  Kept
  <2>1. PICK r : r = [requests[k] EXCEPT !.at = at]
    OBVIOUS
  <2>2. Underway(requests[k])
    BY <1>0, <1>3
  <2>3. Underway(r)
    BY <1>3, <2>1, <2>2 DEF Underway, Request
  <2>4. Underway(r)'
    BY <2>3, RowsStay DEF Underway
  <2> QED
    BY <1>3, <2>1, <2>4, PutKeeps
<1>4. ASSUME NEW k \in Keys, Middleware(k) \/ Handle(k) \/ Enter(k) \/ Resolve(k) \/ Create(k) PROVE Kept
  <2>1. requests[k] # Empty /\ Underway(requests[k])
    BY <1>0, <1>4 DEF Middleware, Handle, Enter, Resolve, Create
  <2>2. Known(Empty)' /\ Known(requests[k].cookie)
    BY <2>1 DEF Known, Underway
  <2>3. CASE Middleware(k)
    <3>1. CASE Reply(k, 401, Empty) \/ Reply(k, 403, Empty)
      BY <2>1, <2>2, <3>1, ReplyKeeps
    <3>2. CASE /\ Put(k, [requests[k] EXCEPT !.at = "passed"]) /\ requests[k].kind # "login"
               /\ requests[k].cookie # Empty /\ requests[k].kind \in {"write", "logout"}
                    => requests[k].csrf = requests[k].cookie
      BY <1>3, <2>1, <3>2
    <3> QED
      BY <2>3, <3>1, <3>2, Zenon DEF Middleware
  <2>4. CASE Handle(k)
    <3>1. PICK s : s = requests[k].cookie
      OBVIOUS
    <3>2. Known(s)'
      BY <2>2, <3>1, RowsStay
    <3> QED
      BY <2>1, <2>2, <2>4, <3>1, <3>2, ReplyKeeps DEF Handle
  <2>5. CASE Enter(k)
    <3>1. CASE Reply(k, 401, Empty)
      BY <2>1, <2>2, <3>1, ReplyKeeps
    <3>2. CASE Put(k, [requests[k] EXCEPT !.at = "passed-login"]) /\ requests[k].kind = "login"
      BY <1>3, <2>1, <3>2
    <3> QED
      BY <2>5, <3>1, <3>2, Zenon DEF Enter
  <2>6. CASE Resolve(k)
    <3>1. CASE Reply(k, 401, Empty)
      BY <2>1, <2>2, <3>1, ReplyKeeps
    <3>2. requests[k].kind = "login"
      BY <2>1, <2>6 DEF Resolve, Underway
    <3>3. CASE Put(k, [requests[k] EXCEPT !.at = "resolved"])
      BY <1>3, <2>1, <3>2, <3>3
    <3> QED
      BY <2>6, <3>1, <3>3, Zenon DEF Resolve
  <2>7. CASE Create(k)
    <3>1. PICK s \in Rows : /\ sessions' = [sessions EXCEPT ![s] = [token |-> requests[k].token, good |-> TRUE]]
                            /\ Reply(k, 200, s)
      BY <2>7 DEF Create
    <3>2. requests[k].token \in Tokens
      BY <2>1, <2>7 DEF Create, Underway
    <3>3. [token |-> requests[k].token, good |-> TRUE] # Empty
      <4>1. [token |-> requests[k].token, good |-> TRUE] \in Session
        BY <3>2 DEF Session
      <4> QED
        BY <4>1, BrowserAssumption
    <3>4. sessions'[s] # Empty
      BY <3>1, <3>3 DEF BInv, BTyped
    <3>5. Known(s)'
      BY <3>4 DEF Known, Rows
    <3> QED
      BY <2>1, <3>1, <3>5, ReplyKeeps
  <2> QED
    BY <1>4, <2>3, <2>4, <2>5, <2>6, <2>7
<1>5. ASSUME NEW k \in Keys, Receive(k) PROVE Kept
  <2>1. \A j \in Keys : requests'[j] \in {requests[j], Empty}
    BY <1>0, <1>5 DEF Receive, Reload, Put, Keys
  <2>2. requests' = [j \in Keys |-> requests'[j]]
    BY <1>0, <1>5 DEF Receive, Reload, Put, Keys
  <2> QED
    BY <2>1, <2>2, DropKeeps
<1>6. ASSUME UNCHANGED requests PROVE Kept
  BY <1>0, <1>6, DropKeeps
<1>7. ASSUME (\E s \in Rows : Expire(s)) \/ \E token \in Tokens : Revoke(token) PROVE Kept
  BY <1>6, <1>7 DEF Expire, Revoke
<1> HIDE DEF Kept
<1>8. ASSUME OfARequest PROVE Kept
  BY <1>1, <1>2, <1>4, <1>5, <1>8, Zenon DEF OfARequest
<1>9. Kept
  BY <1>7, <1>8, BrowserSteps, Zenon
<1> QED
  BY <1>9 DEF Kept

\* A tab and the cookie name rows that exist.
LEMMA TabsKept ==
  ASSUME BInv, BNext
  PROVE  /\ Known(cookie)' /\ csrf' \in [Tabs -> Rows \cup {Empty}] /\ data' \in [Tabs -> Rows \cup {Empty}]
         /\ expired' \in [Tabs -> BOOLEAN]
         /\ (\A t \in Tabs : Known(csrf[t]) /\ Known(data[t]))'
<1> DEFINE New == {cookie, Empty} \cup {csrf[t] : t \in Tabs} \cup {data[t] : t \in Tabs}
                    \cup {requests[k].answer.what : k \in {j \in Keys : requests[j] # Empty /\ requests[j].at = "answered"}}
<1>0. /\ csrf \in [Tabs -> Rows \cup {Empty}] /\ data \in [Tabs -> Rows \cup {Empty}] /\ expired \in [Tabs -> BOOLEAN]
      /\ \A k \in Keys : k[1] \in Tabs
  BY DEF BInv, BTyped, Keys
<1>1. \A s \in New : Known(s)
  BY DEF BInv, BTyped, Underway, Known
<1>2. \A s \in New : Known(s)' /\ s \in Rows \cup {Empty}
  BY <1>1, RowsStay DEF Known
<1>3. /\ csrf' \in [Tabs -> New] /\ data' \in [Tabs -> New] /\ expired' \in [Tabs -> BOOLEAN] /\ cookie' \in New
  <2>1. ASSUME UNCHANGED <<csrf, data, expired, cookie>> PROVE <1>3!:
    BY <1>0, <2>1
  <2>2. ASSUME NEW k \in Keys, Receive(k) PROVE <1>3!:
    <3>1. PICK t \in Tabs : t = k[1]
      BY <1>0
    <3>2. PICK w : w = requests[k].answer.what
      OBVIOUS
    <3>3. w \in New /\ Empty \in New /\ cookie \in New /\ csrf \in [Tabs -> New] /\ data \in [Tabs -> New]
      BY <1>0, <2>2, <3>2 DEF Receive
    <3>4. \/ UNCHANGED <<csrf, data, expired>>
          \/ /\ csrf' = [csrf EXCEPT ![t] = Empty] /\ expired' = [expired EXCEPT ![t] = FALSE] /\ data' = [data EXCEPT ![t] = Empty]
          \/ /\ csrf' = [csrf EXCEPT ![t] = w] /\ expired' = [expired EXCEPT ![t] = FALSE] /\ data' = data
          \/ /\ csrf' \in {csrf, [csrf EXCEPT ![t] = w]} /\ expired' = expired /\ data' = [data EXCEPT ![t] = w]
          \/ /\ csrf' = [csrf EXCEPT ![t] = Empty] /\ expired' = [expired EXCEPT ![t] = TRUE] /\ data' = data
      BY <2>2, <3>1, <3>2 DEF Receive, Reload
    <3>5. cookie' \in {cookie, Empty, w}
      BY <2>2, <3>2 DEF Receive
    <3> HIDE DEF New
    <3>6. \A v \in New : [csrf EXCEPT ![t] = v] \in [Tabs -> New] /\ [data EXCEPT ![t] = v] \in [Tabs -> New]
      BY <3>1, <3>3
    <3>7. \A v \in BOOLEAN : [expired EXCEPT ![t] = v] \in [Tabs -> BOOLEAN]
      BY <1>0, <3>1
    <3>8. csrf' \in [Tabs -> New] /\ data' \in [Tabs -> New]
      BY <3>3, <3>4, <3>6
    <3>9. expired' \in [Tabs -> BOOLEAN]
      BY <1>0, <3>4, <3>7
    <3> QED
      BY <3>3, <3>5, <3>8, <3>9
  <2>3. ASSUME NEW k \in Keys, \/ \E kind \in Kinds : Send(k, kind)
                               \/ \E token \in Tokens : SendLogin(k, token)
                               \/ Middleware(k) \/ Handle(k) \/ Enter(k) \/ Resolve(k) \/ Create(k)
        PROVE  UNCHANGED <<csrf, data, expired, cookie>>
    BY <2>3 DEF Send, SendLogin, Middleware, Handle, Enter, Resolve, Create
  <2>4. CASE (\E s \in Rows : Expire(s)) \/ \E token \in Tokens : Revoke(token)
    BY <2>1, <2>4 DEF Expire, Revoke
  <2> HIDE DEF New
  <2> QED
    BY <2>1, <2>2, <2>3, <2>4, BrowserSteps, Zenon DEF OfARequest
<1> HIDE DEF New
<1>4. csrf' \in [Tabs -> Rows \cup {Empty}] /\ data' \in [Tabs -> Rows \cup {Empty}]
  BY <1>2, <1>3
<1>5. Known(cookie)'
  <2>1. PICK q \in New : q = cookie'
    BY <1>3
  <2> QED
    BY <1>2, <2>1 DEF Known
<1>6. ASSUME NEW t \in Tabs PROVE (Known(csrf[t]) /\ Known(data[t]))'
  <2>1. PICK q \in New, r \in New : q = csrf'[t] /\ r = data'[t]
    BY <1>3
  <2> QED
    BY <1>2, <2>1 DEF Known
<1> QED
  BY <1>3, <1>4, <1>5, <1>6

\* Only a handler carries a request out, when the session is good and the middleware has
\* compared its token.
LEMMA CarriedRightly ==
  ASSUME BInv, BNext
  PROVE  CarriedOutForTheTab' /\ GoodWhenCarriedOut'
<1>1. ASSUME NEW k \in Keys, Handle(k), carried' # carried PROVE CarriedOutForTheTab' /\ GoodWhenCarriedOut'
  <2>1. Underway(requests[k]) /\ requests[k].at = "passed" /\ Good(requests[k].cookie)
    BY <1>1 DEF Handle, BInv, BTyped
  <2>2. carried' = [kind |-> requests[k].kind, session |-> requests[k].cookie, csrf |-> requests[k].csrf, good |-> TRUE]
    BY <1>1, <2>1 DEF Handle
  <2> QED
    BY <2>1, <2>2 DEF Underway, Good, CarriedOutForTheTab, GoodWhenCarriedOut
<1>2. CASE carried' = carried
  BY <1>2 DEF BInv, CarriedOutForTheTab, GoodWhenCarriedOut
<1>3. ASSUME NEW k \in Keys, \/ \E kind \in Kinds : Send(k, kind)
                             \/ \E token \in Tokens : SendLogin(k, token)
                             \/ Middleware(k) \/ Enter(k) \/ Resolve(k) \/ Create(k) \/ Receive(k)
      PROVE  carried' = carried
  BY <1>3 DEF Send, SendLogin, Middleware, Enter, Resolve, Create, Receive
<1>4. CASE (\E s \in Rows : Expire(s)) \/ \E token \in Tokens : Revoke(token)
  BY <1>2, <1>4 DEF Expire, Revoke
<1> QED
  BY <1>1, <1>2, <1>3, <1>4, BrowserSteps, Zenon DEF OfARequest

LEMMA BrowserStep == BInv /\ [BNext]_bvars => BInv'
<1>1. ASSUME BInv, BNext PROVE BInv'
  <2>1. revoked' \subseteq Tokens
    BY <1>1 DEF BInv, BTyped, BNext, Send, SendLogin, Middleware, Handle, Enter, Resolve, Create, Receive, Expire, Revoke
  <2>2. BTyped'
    <3>1. sessions' \in [Rows -> Session \cup {Empty}]
      BY <1>1, RowsStay
    <3> QED
      BY <1>1, <2>1, <3>1, RequestsKept, TabsKept DEF BTyped, Keys
  <2> QED
    BY <1>1, <2>2, CarriedRightly DEF BInv
<1>2. ASSUME BInv, UNCHANGED bvars PROVE BInv'
  BY <1>2 DEF BInv, BTyped, Known, Underway, Keys, CarriedOutForTheTab, GoodWhenCarriedOut, bvars
<1> QED
  BY <1>1, <1>2

LEMMA BrowserSafe == BInv => BTypeOK /\ CarriedOutForTheTab /\ GoodWhenCarriedOut
<1> SUFFICES ASSUME BInv PROVE BTypeOK
  BY DEF BInv
<1>1. /\ DOMAIN sessions = Rows /\ DOMAIN expired = Tabs /\ DOMAIN csrf = Tabs /\ DOMAIN data = Tabs
      /\ DOMAIN requests = Keys
  BY DEF BInv, BTyped
<1>2. /\ \A s \in Rows : sessions[s] \in Session \cup {Empty}
      /\ revoked \subseteq Tokens /\ \A t \in Tabs : expired[t] \in BOOLEAN
  BY DEF BInv, BTyped
<1>3. \A s \in {cookie} \cup {csrf[t] : t \in Tabs} \cup {data[t] : t \in Tabs} :
        s # Empty => s \in Rows /\ sessions[s] # Empty
  BY DEF BInv, BTyped, Known
<1>4. \A k \in Keys : requests[k] # Empty => requests[k].at \in {"sent", "passed", "passed-login", "resolved", "answered"}
  BY DEF BInv, BTyped, Underway, Request
<1> QED
  BY <1>1, <1>2, <1>3, <1>4 DEF BTypeOK

\* In a browser with one tab there is at most one login; where it stands says which
\* session may still be good.
Login(k) == requests[k] # Empty /\ requests[k].kind = "login"

OnlyGood(q) == \A s \in Rows : Good(s) => s = q

LoginSays(k) ==
  /\ requests[k].at = "sent" => requests[k].cookie = cookie /\ OnlyGood(cookie)
  /\ requests[k].at \in {"passed-login", "resolved"} => OnlyGood(Empty)
  /\ requests[k].at = "answered" /\ requests[k].answer.code = 200 => OnlyGood(requests[k].answer.what)
  /\ requests[k].at = "answered" /\ requests[k].answer.code # 200 => OnlyGood(cookie)

LoginInv ==
  /\ \A k \in Keys : requests[k] # Empty => requests[k].kind # "logout"
  /\ \A j, k \in Keys : Login(j) /\ Login(k) => j = k
  /\ \A k \in Keys : Login(k) => LoginSays(k)
  /\ (\A k \in Keys : ~Login(k)) => OnlyGood(cookie)

\* A step that leaves the cookie and the logins alone and makes no session good.
LEMMA LoginsUntouched ==
  ASSUME LoginInv, cookie' = cookie, \A s \in Rows : Good(s)' => Good(s),
         \A k \in Keys : \/ requests'[k] = requests[k]
                         \/ ~Login(k) /\ (requests'[k] = Empty \/ requests'[k].kind \notin {"login", "logout"})
  PROVE  LoginInv'
<1>1. \A q : OnlyGood(q) => \A s \in Rows : Good(s)' => s = q
  BY DEF OnlyGood
<1>2. \A k \in Keys : (requests'[k] # Empty /\ requests'[k].kind = "login") = Login(k)
  BY DEF Login
<1>3. \A k \in Keys : Login(k) => requests'[k] = requests[k]
  OBVIOUS
<1>4. (\A k \in Keys : requests[k] # Empty => requests[k].kind # "logout")'
  BY DEF LoginInv, Keys
<1>5. (\A j, k \in Keys : Login(j) /\ Login(k) => j = k)'
  BY <1>2 DEF LoginInv, Login, Keys
<1>6. ASSUME NEW k \in Keys, Login(k)' PROVE LoginSays(k)'
  <2>1. Login(k) /\ requests'[k] = requests[k] /\ LoginSays(k)
    BY <1>2, <1>3, <1>6 DEF Login, LoginInv
  <2> QED
    BY <1>1, <2>1 DEF LoginSays, OnlyGood, Rows
<1>7. ((\A k \in Keys : ~Login(k)) => OnlyGood(cookie))'
  BY <1>1, <1>2 DEF LoginInv, OnlyGood, Login, Rows, Keys
<1> QED
  BY <1>4, <1>5, <1>6, <1>7 DEF LoginInv, Keys

\* A step of the one login.
LEMMA LoginMoves ==
  ASSUME LoginInv, NEW k \in Keys, Login(k), \A j \in Keys : j # k => requests'[j] = requests[j],
         Login(k)', LoginSays(k)'
  PROVE  LoginInv'
<1>1. \A j \in Keys : j # k => ~(requests'[j] # Empty /\ requests'[j].kind = "login")
  BY DEF LoginInv, Login
<1>2. (\A j \in Keys : requests[j] # Empty => requests[j].kind # "logout")'
  <2> SUFFICES ASSUME NEW j \in Keys PROVE requests'[j] # Empty => requests'[j].kind # "logout"
    BY DEF Keys
  <2> QED
    BY DEF LoginInv, Login
<1>3. (\A i, j \in Keys : Login(i) /\ Login(j) => i = j)'
  BY <1>1 DEF Login, Keys
<1>4. (\A j \in Keys : Login(j) => LoginSays(j))'
  <2> SUFFICES ASSUME NEW j \in Keys, Login(j)' PROVE LoginSays(j)'
    BY DEF Keys
  <2>1. j = k
    BY <1>1 DEF Login
  <2> QED
    BY <2>1
<1>5. ~(\A j \in Keys : ~Login(j))'
  BY DEF Keys
<1> QED
  BY <1>2, <1>3, <1>4, <1>5 DEF LoginInv

LEMMA LoginStep ==
  ASSUME BInv, LoginInv, BNext, "logout" \notin Kinds, \A j, k \in Keys : j[1] = k[1]
  PROVE  LoginInv'
<1>0. /\ requests \in [Keys -> Request \cup {Empty}] /\ sessions \in [Rows -> Session \cup {Empty}]
      /\ \A k \in Keys : requests[k] # Empty => Underway(requests[k])
      /\ BrowserAssumption!:
  BY BrowserAssumption DEF BInv, BTyped
<1>1. ASSUME NEW k \in Keys, NEW kind \in Kinds, Send(k, kind) PROVE LoginInv'
  <2>1. kind \notin {"login", "logout"} /\ ~Login(k)
    BY <1>0, <1>1 DEF Send, Login
  <2>2. \A s \in Rows : Good(s)' => Good(s)
    BY <1>1 DEF Send, Good
  <2>3. requests'[k].kind = kind /\ \A j \in Keys : j # k => requests'[j] = requests[j]
    BY <1>0, <1>1 DEF Send, Put
  <2> QED
    BY <1>1, <2>1, <2>2, <2>3, LoginsUntouched DEF Send
<1>2. ASSUME NEW k \in Keys, NEW token \in Tokens, SendLogin(k, token) PROVE LoginInv'
  <2>1. PICK r : r = [kind |-> "login", cookie |-> cookie, csrf |-> Empty, token |-> token, at |-> "sent", answer |-> Empty]
    OBVIOUS
  <2>2. r \in Request
    BY <1>0, <2>1 DEF Request, BInv, BTyped, Known
  <2>3. \A j \in Keys : ~Login(j)
    <3> SUFFICES ASSUME NEW j \in Keys PROVE ~Login(j)
      OBVIOUS
    <3>1. j = <<k[1], j[2]>> /\ j[2] \in Slots
      BY DEF Keys
    <3> QED
      BY <1>2, <3>1 DEF SendLogin, Login
  <2>4. requests'[k] = r /\ \A j \in Keys : j # k => requests'[j] = requests[j]
    BY <1>0, <1>2, <2>1 DEF SendLogin, Put
  <2>5. r # Empty
    BY <1>0, <2>2
  <2>6. OnlyGood(cookie)' /\ cookie' = cookie
    BY <1>2, <2>3 DEF SendLogin, LoginInv, OnlyGood, Good, Rows
  <2>7. \A j \in Keys : j # k => ~(requests'[j] # Empty /\ requests'[j].kind = "login")
    BY <2>3, <2>4 DEF Login
  <2>8. LoginSays(k)' /\ Login(k)'
    BY <2>1, <2>4, <2>5, <2>6 DEF LoginSays, Login
  <2>9. (\A j \in Keys : requests[j] # Empty => requests[j].kind # "logout")'
    <3> SUFFICES ASSUME NEW j \in Keys PROVE requests'[j] # Empty => requests'[j].kind # "logout"
      BY DEF Keys
    <3> QED
      BY <2>1, <2>4 DEF LoginInv
  <2>10. (\A j \in Keys : Login(j) => LoginSays(j))'
    <3> SUFFICES ASSUME NEW j \in Keys, Login(j)' PROVE LoginSays(j)'
      BY DEF Keys
    <3>1. j = k
      BY <2>7 DEF Login
    <3> QED
      BY <2>8, <3>1
  <2>11. (\A i, j \in Keys : Login(i) /\ Login(j) => i = j)'
    BY <2>7 DEF Login, Keys
  <2>12. ~(\A j \in Keys : ~Login(j))'
    BY <2>8 DEF Keys
  <2> QED
    BY <2>9, <2>10, <2>11, <2>12 DEF LoginInv
<1>3. ASSUME NEW k \in Keys, Middleware(k) \/ Handle(k) PROVE LoginInv'
  <2>1. requests[k] # Empty /\ Underway(requests[k]) /\ ~Login(k) /\ requests[k].kind # "logout"
    BY <1>0, <1>3 DEF Middleware, Handle, Login, Underway, LoginInv
  <2>2. \A s \in Rows : Good(s)' => Good(s)
    <3>1. CASE Middleware(k)
      BY <3>1 DEF Middleware, Good
    <3>2. CASE Handle(k)
      <4>1. sessions' = sessions /\ revoked' = revoked
        BY <2>1, <3>2 DEF Handle
      <4> QED
        BY <4>1 DEF Good
    <3> QED
      BY <1>3, <3>1, <3>2
  <2>3. cookie' = cookie
    BY <1>3 DEF Middleware, Handle
  <2>4. PICK q \in Request : q = requests[k]
    BY <2>1 DEF Underway
  <2>5. ASSUME NEW c, NEW w, Reply(k, c, w) PROVE \E r : requests' = [requests EXCEPT ![k] = r] /\ r.kind = q.kind
    <3>1. PICK a : a = [code |-> c, what |-> w]
      OBVIOUS
    <3>2. Put(k, [q EXCEPT !.at = "answered", !.answer = a])
      BY <2>4, <2>5, <3>1, Zenon DEF Reply
    <3>3. [q EXCEPT !.at = "answered", !.answer = a].kind = q.kind
      BY DEF Request
    <3> QED
      BY <3>2, <3>3 DEF Put
  <2>6. ASSUME Put(k, [requests[k] EXCEPT !.at = "passed"]) PROVE \E r : requests' = [requests EXCEPT ![k] = r] /\ r.kind = q.kind
    <3>1. [q EXCEPT !.at = "passed"].kind = q.kind
      BY DEF Request
    <3> QED
      BY <2>4, <2>6, <3>1 DEF Put
  <2>7. \E r : requests' = [requests EXCEPT ![k] = r] /\ r.kind = q.kind
    <3>1. CASE Middleware(k)
      <4>1. \/ Reply(k, 401, Empty) \/ Reply(k, 403, Empty)
            \/ Put(k, [requests[k] EXCEPT !.at = "passed"])
        BY <3>1, Zenon DEF Middleware
      <4> QED
        BY <2>5, <2>6, <4>1, Zenon
    <3>2. CASE Handle(k)
      <4>1. Reply(k, 401, Empty) \/ Reply(k, 200, requests[k].cookie)
        BY <3>2, Zenon DEF Handle
      <4> QED
        BY <2>5, <4>1, Zenon
    <3> QED
      BY <1>3, <3>1, <3>2, Zenon
  <2>8. (\A j \in Keys : j # k => requests'[j] = requests[j]) /\ requests'[k].kind = requests[k].kind
    BY <1>0, <2>4, <2>7
  <2>9. requests[k].kind # "login"
    BY <2>1 DEF Login
  <2> QED
    BY <2>1, <2>2, <2>3, <2>9, <2>8, LoginsUntouched
<1>4. ASSUME NEW s \in Rows, Expire(s) PROVE LoginInv'
  <2>1. \A t \in Rows : Good(t)' => Good(t)
    BY <1>0, <1>4 DEF Expire, Good, Session
  <2> QED
    BY <1>4, <2>1, LoginsUntouched DEF Expire
<1>5. ASSUME NEW token \in Tokens, Revoke(token) PROVE LoginInv'
  <2>1. \A t \in Rows : Good(t)' => Good(t)
    BY <1>5 DEF Revoke, Good
  <2> QED
    BY <1>5, <2>1, LoginsUntouched DEF Revoke
<1>6. ASSUME NEW k \in Keys, Enter(k) \/ Resolve(k) \/ Create(k) PROVE LoginInv'
  <2>1. Login(k) /\ LoginSays(k) /\ Underway(requests[k]) /\ requests[k] \in Request /\ cookie' = cookie
    BY <1>0, <1>6 DEF Enter, Resolve, Create, Login, LoginInv, Underway
  <2>2. ASSUME NEW r \in Request, Put(k, r), r.kind = "login", r.at # "sent",
               r.at \in {"passed-login", "resolved"} => \A s \in Rows : ~Good(s)',
               r.at = "answered" /\ r.answer.code = 200 => \A s \in Rows : Good(s)' => s = r.answer.what,
               r.at = "answered" /\ r.answer.code # 200 => \A s \in Rows : Good(s)' => s = cookie
        PROVE  LoginInv'
    <3>1. requests'[k] = r /\ \A j \in Keys : j # k => requests'[j] = requests[j]
      BY <1>0, <2>2, Zenon DEF Put
    <3>2. r # Empty
      BY <1>0
    <3> QED
      BY <2>1, <2>2, <3>1, <3>2, LoginMoves DEF Login, LoginSays, OnlyGood, Rows
  <2>3. ASSUME NEW c \in {200, 401}, NEW w \in Rows \cup {Empty}, Reply(k, c, w),
               c = 200 => \A s \in Rows : Good(s)' => s = w,
               c # 200 => \A s \in Rows : Good(s)' => s = cookie
        PROVE  LoginInv'
    <3>0. [code |-> c, what |-> w] \in Answer
      BY DEF Answer
    <3>1. PICK q \in Request, a \in Answer : q = requests[k] /\ a = [code |-> c, what |-> w]
      BY <2>1, <3>0
    <3>2. PICK r : r = [q EXCEPT !.at = "answered", !.answer = a]
      OBVIOUS
    <3>3. r = [kind |-> q.kind, token |-> q.token, cookie |-> q.cookie, csrf |-> q.csrf,
               answer |-> a, at |-> "answered"]
      BY <3>2 DEF Request
    <3>4. r \in Request /\ r.at = "answered" /\ r.answer = a /\ r.kind = q.kind
      BY <3>3 DEF Request
    <3>5. Put(k, r)
      BY <2>3, <3>1, <3>2, Zenon DEF Reply
    <3>6. r.kind = "login" /\ r.answer.code = c /\ r.answer.what = w
      BY <2>1, <3>1, <3>4 DEF Login
    <3> QED
      BY <2>2, <2>3, <3>4, <3>5, <3>6
  <2>4. ASSUME NEW at \in {"passed-login", "resolved"}, Put(k, [requests[k] EXCEPT !.at = at]),
               \A s \in Rows : ~Good(s)'
        PROVE  LoginInv'
    <3>1. PICK q \in Request : q = requests[k]
      BY <2>1
    <3>2. PICK r : r = [q EXCEPT !.at = at]
      OBVIOUS
    <3>3. r \in Request /\ r.at = at /\ r.kind = q.kind
      BY <3>2 DEF Request
    <3>4. Put(k, r) /\ r.kind = "login"
      BY <2>1, <2>4, <3>1, <3>2, <3>3 DEF Login
    <3> QED
      BY <2>2, <2>4, <3>3, <3>4
  <2>5. CASE Enter(k)
    <3>1. OnlyGood(requests[k].cookie) /\ requests[k].cookie = cookie /\ Known(cookie)
      BY <2>1, <2>5 DEF Enter, LoginSays, BInv, BTyped
    <3>2. CASE Reply(k, 401, Empty) /\ sessions' = sessions
      <4>1. \A s \in Rows : Good(s)' => s = cookie
        BY <2>5, <3>1, <3>2 DEF Enter, Good, OnlyGood
      <4> QED
        BY <2>3, <3>2, <4>1
    <3>3. CASE /\ Put(k, [requests[k] EXCEPT !.at = "passed-login"])
               /\ sessions' = IF requests[k].cookie # Empty THEN [sessions EXCEPT ![requests[k].cookie].good = FALSE] ELSE sessions
      <4>1. \A s \in Rows : s # cookie => ~Good(s)'
        BY <1>0, <2>5, <3>1, <3>3 DEF Enter, Good, OnlyGood, Known
      <4>2. cookie \in Rows => ~Good(cookie)'
        <5>1. ASSUME cookie \in Rows, cookie # Empty PROVE sessions'[cookie].good = FALSE
          <6>1. sessions[cookie] \in Session /\ sessions' = [sessions EXCEPT ![cookie] = [sessions[cookie] EXCEPT !.good = FALSE]]
            BY <1>0, <3>1, <3>3, <5>1 DEF Known
          <6>2. sessions'[cookie] = [sessions[cookie] EXCEPT !.good = FALSE]
            BY <1>0, <5>1, <6>1
          <6> QED
            BY <6>1, <6>2 DEF Session
        <5> QED
          BY <2>1, <5>1 DEF Good
      <4>3. \A s \in Rows : ~Good(s)'
        BY <2>1, <4>1, <4>2 DEF Good, Rows
      <4> QED
        BY <2>4, <3>3, <4>3
    <3> QED
      BY <2>5, <3>2, <3>3, Zenon DEF Enter
  <2>6. CASE Resolve(k)
    <3>1. \A s \in Rows : ~Good(s)'
      BY <2>1, <2>6 DEF Resolve, LoginSays, OnlyGood, Good
    <3> QED
      BY <2>3, <2>4, <2>6, <3>1 DEF Resolve
  <2>7. CASE Create(k)
    <3>1. PICK s \in Rows : /\ sessions' = [sessions EXCEPT ![s] = [token |-> requests[k].token, good |-> TRUE]]
                            /\ Reply(k, 200, s)
      BY <2>7 DEF Create
    <3>2. \A t \in Rows : ~Good(t)
      BY <2>1, <2>7 DEF Create, LoginSays, OnlyGood, Good
    <3>3. \A t \in Rows : Good(t)' => t = s
      BY <1>0, <2>7, <3>1, <3>2 DEF Create, Good
    <3> QED
      BY <2>3, <3>1, <3>3
  <2> QED
    BY <1>6, <2>5, <2>6, <2>7
<1>7. ASSUME NEW k \in Keys, Receive(k) PROVE LoginInv'
  <2>1. /\ requests[k] # Empty /\ requests[k].kind # "logout" /\ requests[k].at = "answered"
        /\ sessions' = sessions /\ revoked' = revoked
    BY <1>7 DEF Receive, LoginInv
  <2>2. \A s \in Rows : Good(s)' <=> Good(s)
    BY <2>1 DEF Good
  <2>3. CASE ~Login(k)
    <3>1. requests[k].kind # "login"
      BY <2>1, <2>3 DEF Login
    <3>2. cookie' = cookie /\ Put(k, Empty)
      BY <1>7, <2>1, <3>1 DEF Receive
    <3>3. requests'[k] = Empty /\ \A j \in Keys : j # k => requests'[j] = requests[j]
      BY <1>0, <3>2 DEF Put
    <3> QED
      BY <2>2, <2>3, <3>2, <3>3, LoginsUntouched
  <2>4. CASE Login(k)
    <3>1. \A j \in Keys : requests'[j] \in {requests[j], Empty}
      BY <1>0, <1>7 DEF Receive, Reload, Put, Keys
    <3>2. requests'[k] = Empty
      BY <1>0, <1>7, <2>1, <2>4 DEF Receive, Put, Keys, Login
    <3>3. \A j \in Keys : ~(requests'[j] # Empty /\ requests'[j].kind = "login")
      BY <2>4, <3>1, <3>2 DEF LoginInv, Login
    <3>4. cookie' = IF requests[k].answer.code = 200 THEN requests[k].answer.what ELSE cookie
      BY <1>7, <2>1, <2>4 DEF Receive, Login
    <3>5. LoginSays(k)
      BY <2>4 DEF LoginInv
    <3>6. OnlyGood(cookie)'
      BY <2>1, <2>2, <3>4, <3>5 DEF LoginSays, OnlyGood, Rows
    <3>7. (\A j \in Keys : requests[j] # Empty => requests[j].kind # "logout")'
      BY <3>1 DEF LoginInv, Keys
    <3> QED
      BY <3>3, <3>6, <3>7 DEF LoginInv, Login, Keys
  <2> QED
    BY <2>3, <2>4
<1> QED
  BY <1>1, <1>2, <1>3, <1>4, <1>5, <1>6, <1>7, BrowserSteps, Zenon DEF OfARequest

LEMMA NoneLeft == ASSUME BInv, LoginInv PROVE LoginLeavesNone
<1>1. DOMAIN requests = Keys /\ DOMAIN sessions = Rows
  BY DEF BInv, BTyped
<1> QED
  BY <1>1 DEF LoginLeavesNone, LoginInv, Login, OnlyGood

\* What a tab writes is carried out under the session whose token the tab holds, which
\* is good then; and where the browser has one tab, which does not log out meanwhile, a
\* login that is over has left no good session but that of the cookie.
THEOREM WritesStayOfTheTab ==
  ASSUME "logout" \notin Kinds \/ \E j, k \in Keys : j[1] # k[1]
  PROVE  BSpec => []WritesAreOfTheTab
<1>1. CASE "logout" \notin Kinds /\ \A j, k \in Keys : j[1] = k[1]
  <2>1. BInit => BInv /\ LoginInv
    BY BrowserInit DEF BInit, LoginInv, Login, OnlyGood, Good, Keys
  <2>2. BInv /\ LoginInv /\ [BNext]_bvars => (BInv /\ LoginInv)'
    <3>1. UNCHANGED bvars /\ LoginInv => LoginInv'
      BY DEF bvars, LoginInv, Login, LoginSays, OnlyGood, Good, Rows, Keys
    <3> QED
      BY <1>1, <3>1, BrowserStep, LoginStep
  <2>3. BInv /\ LoginInv => WritesAreOfTheTab
    BY BrowserSafe, NoneLeft DEF WritesAreOfTheTab
  <2> QED
    BY <2>1, <2>2, <2>3, PTL DEF BSpec
<1>2. CASE \E j, k \in Keys : j[1] # k[1]
  <2>1. BInv => WritesAreOfTheTab
    <3>1. BInv => DOMAIN requests = Keys
      BY DEF BInv, BTyped
    <3> QED
      BY <1>2, <3>1, BrowserSafe DEF WritesAreOfTheTab, LoginLeavesNone
  <2> QED
    BY <2>1, BrowserInit, BrowserStep, PTL DEF BSpec
<1> QED
  BY <1>1, <1>2 DEF Keys
=============================================================================
