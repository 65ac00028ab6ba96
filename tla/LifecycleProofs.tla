---------------------------- MODULE LifecycleProofs ----------------------------
(***************************************************************************)
(* Proofs about ReleaseGovernance for any packages, people, credentials    *)
(* and review profiles, and review logs of any length, and about           *)
(* GovernanceWorkspace for any users and logs of any length.               *)
(***************************************************************************)
EXTENDS ReleaseGovernance, GovernanceWorkspace, FiniteSetTheorems, WellFoundedInduction, TLAPS

(***************************************************************************)
(* The last word of a reviewer.                                            *)
(***************************************************************************)

\* Numbers up to a bound have a largest one.
LEMMA LargestExists ==
  ASSUME NEW n \in Nat, NEW S, S \subseteq 1..n, S # {}
  PROVE  Max(S) \in S /\ \A i \in S : i =< Max(S)
<1> DEFINE T == {m \in Nat : \A i \in S : i =< m}
           R == OpToRel(<, Nat)
<1>1. n \in T
  OBVIOUS
<1>2. PICK m \in T : \A k \in T : ~(<<k, m>> \in R)
  <2>1. IsWellFoundedOn(R, Nat) /\ T \subseteq Nat /\ T # {}
    BY <1>1, NatLessThanWellFounded
  <2> HIDE DEF R, T
  <2> QED
    BY <2>1, WFMin
<1>3. ASSUME NEW k \in T PROVE ~(k < m)
  <2>1. k < m => <<k, m>> \in R
    BY DEF OpToRel
  <2> HIDE DEF R
  <2> QED
    BY <1>2, <2>1
<1>4. m \in S
  <2> SUFFICES ASSUME m \notin S PROVE FALSE
    OBVIOUS
  <2>1. PICK i \in S : TRUE
    OBVIOUS
  <2>2. m - 1 \in T
    BY <2>1
  <2> QED
    BY <1>3, <2>2
<1>5. \A i \in S : m >= i
  OBVIOUS
<1> QED
  BY <1>4, <1>5 DEF Max

Said(log, person) == {i \in DOMAIN log : Owner[log[i].by] = person}

\* The last word of somebody who spoke is one of the latest actions.
LEMMA LastIsLatest ==
  ASSUME NEW log \in Seq(Action), NEW person, Said(log, person) # {}
  PROVE  /\ Max(Said(log, person)) \in Said(log, person)
         /\ Max(Said(log, person)) \in Latest(log)
         /\ LastWord(log, person) = log[Max(Said(log, person))].decision
<1>1. Said(log, person) \subseteq 1..Len(log) /\ Len(log) \in Nat
  BY DEF Said
<1>2. /\ Max(Said(log, person)) \in Said(log, person)
      /\ \A i \in Said(log, person) : i =< Max(Said(log, person))
  BY <1>1, LargestExists
<1>3. Max(Said(log, person)) \in Latest(log)
  BY <1>2 DEF Said, Latest
<1> QED
  BY <1>2, <1>3 DEF Said, LastWord

\* A latest action is the last word of whoever took it.
LEMMA LatestIsLast ==
  ASSUME NEW log \in Seq(Action), NEW i \in Latest(log)
  PROVE  LastWord(log, Owner[log[i].by]) = log[i].decision
<1> DEFINE h == Owner[log[i].by]
           last == Max(Said(log, h))
<1>1. i \in Said(log, h)
  BY DEF Said, Latest
<1>2. last \in Said(log, h) /\ LastWord(log, h) = log[last].decision /\ last \in Latest(log)
  BY <1>1, LastIsLatest
<1>3. i =< last /\ last =< i /\ i \in Nat /\ last \in Nat
  BY <1>1, <1>2 DEF Said, Latest
<1>4. i = last
  BY <1>3
<1> QED
  BY <1>2, <1>4

\* The people a release stands on are those of the latest actions, all approvals.
LEMMA QuorumIsLastWord ==
  ASSUME NEW r, r.log \in Seq(Action), Quorum(r.cand, r.log)
  PROVE  /\ Supporters(r) = {Owner[r.log[i].by] : i \in Latest(r.log)}
         /\ \A cred \in Creds : LastWord(r.log, Owner[cred]) \in {"none", "APPROVE"}
         /\ Cardinality(Supporters(r)) >= MinReviewers[r.cand.profile]
<1>1. \A i \in Latest(r.log) : r.log[i].decision = "APPROVE" /\ r.log[i].by \in Creds
  <2> TAKE i \in Latest(r.log)
  <2>1. i \in DOMAIN r.log
    BY DEF Latest
  <2>2. r.log[i] \in Action
    BY <2>1
  <2>3. Latest(r.log) = {k \in Latest(r.log) : r.log[k].decision = "APPROVE"}
    BY DEF Quorum
  <2> QED
    BY <2>2, <2>3 DEF Action
<1>2. ASSUME NEW h PROVE Said(r.log, h) = {} => LastWord(r.log, h) = "none"
  BY DEF Said, LastWord
<1>3. ASSUME NEW h, Said(r.log, h) # {}
      PROVE  LastWord(r.log, h) = "APPROVE" /\ h \in {Owner[r.log[i].by] : i \in Latest(r.log)}
  <2> DEFINE last == Max(Said(r.log, h))
  <2>1. last \in Said(r.log, h) /\ last \in Latest(r.log) /\ LastWord(r.log, h) = r.log[last].decision
    BY <1>3, LastIsLatest
  <2>2. Owner[r.log[last].by] = h
    BY <2>1 DEF Said
  <2> HIDE DEF last
  <2> QED
    BY <1>1, <2>1, <2>2
<1>4. ASSUME NEW i \in Latest(r.log) PROVE Owner[r.log[i].by] \in Supporters(r)
  BY <1>1, LatestIsLast DEF Supporters
<1>5. ASSUME NEW h \in Supporters(r) PROVE h \in {Owner[r.log[i].by] : i \in Latest(r.log)}
  BY <1>2, <1>3 DEF Supporters
<1>6. Supporters(r) = {Owner[r.log[i].by] : i \in Latest(r.log)}
  BY <1>4, <1>5
<1> QED
  BY <1>2, <1>3, <1>6 DEF Quorum

(***************************************************************************)
(* The invariant.                                                          *)
(***************************************************************************)

Typed ==
  /\ imported \subseteq Packages /\ consumers \subseteq Consumers /\ revoked \subseteq Creds
  /\ plans \subseteq [change : Change, passed : BOOLEAN]
  /\ evaluations \subseteq Change /\ candidates \subseteq Candidate /\ profile \in Profiles
  /\ actions \in [candidates -> Seq(Action)]

\* What a client looked at is still so, or it has to look again.
SeenIsCurrent ==
  seen # NothingSeen => seen.cand \in candidates /\ seen.log = actions[seen.cand]

ReleasedByQuorum ==
  \A r \in releases : r.cand \in candidates /\ r.log \in Seq(Action) /\ Quorum(r.cand, r.log)

\* A regression compares two registered packages, an evaluation rests on one that
\* passed, and a successor is proposed for the package of its evaluation.
ChangesAreRegressed ==
  /\ \A plan \in plans : {plan.change.base, plan.change.cand} \subseteq imported /\ plan.change.base # plan.change.cand
  /\ \A ch \in evaluations : \E plan \in plans : plan.change = ch /\ plan.passed
  /\ \A c \in candidates : c.change # None => c.change \in evaluations /\ c.change.cand = c.pkg

IInv == Typed /\ SeenIsCurrent /\ ReleasedByQuorum /\ ChangesAreRegressed

LEMMA InitInv == RInit => IInv
BY DEF RInit, IInv, Typed, SeenIsCurrent, ReleasedByQuorum, ChangesAreRegressed

LEMMA PrepareInv ==
  ASSUME IInv,
         \/ \E p \in Packages : Import(p)
         \/ \E k \in Consumers : RegisterConsumer(k)
         \/ \E b, c \in Packages : Regress(b, c)
         \/ \E plan \in plans : Evaluate(plan)
         \/ \E cred \in Creds : Revoke(cred)
         \/ Reconfigure
         \/ UNCHANGED vars
  PROVE  IInv'
<1>1. UNCHANGED <<candidates, actions, releases>> /\ seen' \in {seen, NothingSeen}
  BY DEF Import, RegisterConsumer, Regress, Evaluate, Revoke, Reconfigure, NewHead, vars
<1>2. SeenIsCurrent' /\ ReleasedByQuorum'
  BY <1>1 DEF IInv, SeenIsCurrent, ReleasedByQuorum
<1>3. CASE \E b, c \in Packages : Regress(b, c)
  <2>1. PICK b \in Packages, c \in Packages, passed \in BOOLEAN :
          /\ {b, c} \subseteq imported /\ b # c
          /\ plans' = plans \cup {[change |-> [base |-> b, cand |-> c, cover |-> consumers], passed |-> passed]}
          /\ UNCHANGED <<imported, consumers, evaluations, candidates, revoked, profile, actions>>
    BY <1>3 DEF Regress
  <2>2. Typed'
    BY <2>1 DEF IInv, Typed, Change
  <2>3. ChangesAreRegressed'
    BY <2>1 DEF IInv, ChangesAreRegressed
  <2> QED
    BY <1>2, <2>2, <2>3 DEF IInv
<1>4. CASE \E plan \in plans : Evaluate(plan)
  <2>1. PICK plan \in plans :
          /\ evaluations' = evaluations \cup {ch \in {plan.change} : plan.passed}
          /\ UNCHANGED <<imported, consumers, plans, candidates, revoked, profile, actions>>
    BY <1>4 DEF Evaluate
  <2>2. Typed'
    BY <2>1 DEF IInv, Typed
  <2>3. ChangesAreRegressed'
    BY <2>1 DEF IInv, ChangesAreRegressed
  <2> QED
    BY <1>2, <2>2, <2>3 DEF IInv
<1>5. CASE \/ \E p \in Packages : Import(p)
           \/ \E k \in Consumers : RegisterConsumer(k)
           \/ \E cred \in Creds : Revoke(cred)
           \/ Reconfigure
           \/ UNCHANGED vars
  BY <1>1, <1>2, <1>5 DEF Import, RegisterConsumer, Revoke, Reconfigure, vars, IInv, Typed, ChangesAreRegressed
<1> QED
  BY <1>3, <1>4, <1>5

LEMMA ProposeInv == ASSUME IInv, NEW p \in Packages, Propose(p) PROVE IInv'
<1>1. PICK change \in Change \cup {None} :
        /\ change # None => change \in evaluations /\ change.cand = p
        /\ candidates' = candidates \cup {[pkg |-> p, change |-> change, profile |-> profile]}
        /\ actions' = [d \in candidates' |-> IF d \in candidates THEN actions[d] ELSE << >>]
  BY DEF Propose, IInv, Typed
<1>2. candidates' \subseteq Candidate
  BY <1>1 DEF IInv, Typed, Candidate
<1>3. actions' \in [candidates' -> Seq(Action)]
  BY <1>1 DEF IInv, Typed
<1>4. ChangesAreRegressed'
  BY <1>1 DEF Propose, IInv, ChangesAreRegressed
<1> QED
  BY <1>1, <1>2, <1>3, <1>4 DEF Propose, NewHead, IInv, Typed, SeenIsCurrent, ReleasedByQuorum

LEMMA ReviewInv ==
  ASSUME IInv, NEW c \in candidates, NEW cred \in Creds, NEW d \in Decisions, Review(c, cred, d)
  PROVE  IInv'
<1> DEFINE a == [by |-> cred, decision |-> d]
<1>1. /\ actions' = [actions EXCEPT ![c] = Append(actions[c], a)] /\ seen' = NothingSeen
      /\ UNCHANGED <<imported, consumers, plans, evaluations, candidates, releases, revoked, profile>>
  BY DEF Review, NewHead
<1>2. a \in Action
  BY DEF Action
<1>3. Append(actions[c], a) \in Seq(Action)
  BY <1>2 DEF IInv, Typed
<1>4. actions' \in [candidates' -> Seq(Action)]
  BY <1>1, <1>3 DEF IInv, Typed
<1> QED
  BY <1>1, <1>4 DEF IInv, Typed, SeenIsCurrent, ReleasedByQuorum, ChangesAreRegressed

LEMMA PublishInv == ASSUME IInv, NEW c \in candidates, Look(c) \/ Publish(c) PROVE IInv'
<1>1. CASE Look(c)
  BY <1>1 DEF Look, NothingSeen, IInv, Typed, SeenIsCurrent, ReleasedByQuorum, ChangesAreRegressed
<1>2. CASE Publish(c)
  <2>1. ReleasedByQuorum'
    BY <1>2 DEF Publish, IInv, Typed, ReleasedByQuorum
  <2> QED
    BY <1>2, <2>1 DEF Publish, NewHead, IInv, Typed, SeenIsCurrent, ChangesAreRegressed
<1> QED
  BY <1>1, <1>2

LEMMA NextInv == IInv /\ [Next]_vars => IInv'
BY PrepareInv, ProposeInv, ReviewInv, PublishInv DEF Next

\* Whatever is proposed, reviewed, revoked and reconfigured, each release was
\* published with a log that satisfies its quorum (services/lifecycle.py).
THEOREM GovernanceInvariant == Spec => []IInv
BY InitInv, NextInv, PTL DEF Spec

\* Every variable keeps its shape, and every release was reviewed
\* (services/lifecycle.py, lifecycle/release.py).
THEOREM ReleaseTypeOK == Spec => []TypeOK
<1>1. IInv => TypeOK
  <2> SUFFICES ASSUME IInv PROVE TypeOK
    OBVIOUS
  <2>1. \A c \in candidates : \A i \in DOMAIN actions[c] : actions[c][i] \in Action
    BY DEF IInv, Typed
  <2>2. ASSUME NEW r \in releases PROVE r.log # << >>
    <3>1. Latest(r.log) # {} /\ Latest(r.log) \subseteq DOMAIN r.log
      BY DEF IInv, ReleasedByQuorum, Quorum, Latest
    <3> QED
      BY <3>1
  <2> QED
    BY <2>1, <2>2 DEF IInv, Typed, ReleasedByQuorum, TypeOK
<1> QED
  BY <1>1, GovernanceInvariant, PTL

\* A release stands on enough people whose last word was to approve, and
\* against nobody's last word, however often they changed it
\* (lifecycle/release.py, _quorum).
THEOREM ReleasesStand == Spec => []QuorumStands
<1>1. IInv => QuorumStands
  BY QuorumIsLastWord DEF IInv, ReleasedByQuorum, QuorumStands
<1> QED
  BY <1>1, GovernanceInvariant, PTL

\* What a step adds to the releases.
LEMMA NewIsPublished ==
  ASSUME IInv, [Next]_vars, NEW r \in New
  PROVE  /\ r.cand \in candidates /\ Publish(r.cand)
         /\ r.log = actions[r.cand] /\ r.log \in Seq(Action)
<1>1. releases' # releases
  BY DEF New
<1>2. PICK c \in candidates : Publish(c)
  BY <1>1 DEF Next, vars, Import, Propose, RegisterConsumer, Regress, Evaluate, Look, Review, Revoke, Reconfigure
<1>3. r = [cand |-> c, log |-> actions[c]]
  BY <1>2 DEF Publish, New
<1> QED
  BY <1>2, <1>3 DEF IInv, Typed

\* The credential behind each approval that counts is live when the release is
\* published (services/lifecycle.py, execute: release.publish).
THEOREM ApprovalsAreLive == Spec => CountedApprovalsAreLive
<1>1. IInv /\ [Next]_vars => [\A r \in New : \A i \in Latest(r.log) : r.log[i].by \notin revoked]_vars
  <2> SUFFICES ASSUME IInv, [Next]_vars, NEW r \in New, NEW i \in Latest(r.log)
               PROVE  r.log[i].by \notin revoked
    OBVIOUS
  <2>1. Proven(r.cand, r.log) /\ r.log \in Seq(Action)
    BY NewIsPublished DEF Publish
  <2>2. i \in DOMAIN r.log /\ i \in Nat
    BY <2>1 DEF Latest
  <2>3. PICK k \in i..Len(r.log) : Owner[r.log[k].by] = Owner[r.log[i].by] /\ r.log[k].by \notin revoked
    BY <2>1, <2>2 DEF Proven
  <2>4. k \in DOMAIN r.log
    BY <2>1, <2>2
  <2>5. k = i
    BY <2>1, <2>2, <2>3, <2>4 DEF Latest
  <2> QED
    BY <2>3, <2>5
<1> QED
  BY <1>1, GovernanceInvariant, PTL DEF Spec, CountedApprovalsAreLive

\* Only what satisfies the profile in force is published
\* (services/release_policy.py, require_release_policy).
THEOREM ProfilesAreEnforced == Spec => ProfileIsEnforced
<1>1. IInv /\ [Next]_vars =>
        [\A r \in New : /\ Cardinality(Supporters(r)) >= MinReviewers[profile]
                        /\ Required[profile] \subseteq UNION {Grants[r.log[i].by] : i \in Latest(r.log)}]_vars
  <2> SUFFICES ASSUME IInv, [Next]_vars, NEW r \in New
               PROVE  /\ Cardinality(Supporters(r)) >= MinReviewers[profile]
                      /\ Required[profile] \subseteq UNION {Grants[r.log[i].by] : i \in Latest(r.log)}
    OBVIOUS
  <2>1. r.log \in Seq(Action) /\ Quorum(r.cand, r.log) /\ r.cand.profile = profile
    BY NewIsPublished DEF Publish, CurrentPolicy
  <2>2. Required[profile] \subseteq UNION {RolesOf(r.cand, r.log[i]) : i \in Latest(r.log)}
    BY <2>1 DEF Quorum
  <2>3. \A i \in Latest(r.log) : RolesOf(r.cand, r.log[i]) \subseteq Grants[r.log[i].by]
    BY DEF RolesOf
  <2>4. Cardinality(Supporters(r)) >= MinReviewers[profile]
    BY <2>1, QuorumIsLastWord
  <2> QED
    BY <2>2, <2>3, <2>4
<1> QED
  BY <1>1, GovernanceInvariant, PTL DEF Spec, ProfileIsEnforced

\* A successor rests on a regression that passed for it and that covers every
\* consumer registered when it is published (lifecycle/release.py, regression.py).
LEMMA RegressionsStand == Spec => SuccessorsAreRegressed
<1>1. IInv /\ [Next]_vars =>
        [\A r \in New : r.cand.change # None =>
           \E plan \in plans :
             /\ plan.change = r.cand.change /\ plan.passed
             /\ plan.change.cand = r.cand.pkg /\ plan.change.base \in imported \ {r.cand.pkg}
             /\ consumers \subseteq plan.change.cover]_vars
  <2> SUFFICES ASSUME IInv, [Next]_vars, NEW r \in New, r.cand.change # None
               PROVE  \E plan \in plans :
                        /\ plan.change = r.cand.change /\ plan.passed
                        /\ plan.change.cand = r.cand.pkg /\ plan.change.base \in imported \ {r.cand.pkg}
                        /\ consumers \subseteq plan.change.cover
    OBVIOUS
  <2>1. r.cand \in candidates /\ consumers \subseteq r.cand.change.cover
    BY NewIsPublished DEF Publish, Closed, Covered
  <2>2. r.cand.change \in evaluations /\ r.cand.change.cand = r.cand.pkg
    BY <2>1 DEF IInv, ChangesAreRegressed
  <2>3. PICK plan \in plans : plan.change = r.cand.change /\ plan.passed
    BY <2>2 DEF IInv, ChangesAreRegressed
  <2>4. plan.change.base \in imported /\ plan.change.base # plan.change.cand
    BY <2>3 DEF IInv, ChangesAreRegressed
  <2> QED
    BY <2>1, <2>2, <2>3, <2>4
<1> QED
  BY <1>1, GovernanceInvariant, PTL DEF Spec, SuccessorsAreRegressed

\* The regression, the credentials and the policy a release was prepared under all
\* still hold when it is published (services/lifecycle.py, release.publish).
THEOREM PublicationsStand == Spec => PublishedOnStanding
BY RegressionsStand, ApprovalsAreLive, ProfilesAreEnforced, PTL DEF PublishedOnStanding

\* What is published of a log is what its publisher looked at
\* (lifecycle/release.py, publish_release).
THEOREM PublishedIsSeen == Spec => PublishedAsSeen
<1>1. IInv /\ [Next]_vars => [\A r \in New : r.cand = seen.cand => r.log = seen.log]_vars
  BY NewIsPublished DEF Publish, ExpectedHead, IInv, SeenIsCurrent
<1> QED
  BY <1>1, GovernanceInvariant, PTL DEF Spec, PublishedAsSeen

(***************************************************************************)
(* The governance workspace.                                               *)
(***************************************************************************)

Entry == [type : Types, of : 1..MaxEvents, seen : 0..MaxEvents]
Asked == Decided \cup {"ProposalCreated", "ProposalSubmitted"}

\* Until it has written, an operation stands on the whole log, and there is room for it.
Standing ==
  call # Nothing =>
    /\ call.user \in Users /\ call.type \in Asked \cup {"Written"}
    /\ call.type \in Asked =>
         /\ view[call.user] = Len(entries) /\ Len(entries) + 2 =< MaxEvents
         /\ call.type # "ProposalCreated" => call.of \in 1..Len(entries)

WInv ==
  /\ authority \in {0, 1} /\ changes \in 0..MaxChanges
  /\ entries \in Seq(Entry) /\ Len(entries) =< MaxEvents
  /\ view \in [Users -> 0..MaxEvents]
  /\ Standing /\ LogIsValid /\ DecidedAsSeen

\* What precedes a place is not changed by what is appended.
LEMMA PastIsKept ==
  ASSUME NEW log \in Seq(Entry), NEW more \in Seq(Entry), NEW i \in 0..Len(log)
  PROVE  /\ \A types, p : Places(log \o more, types, p, i) = Places(log, types, p, i)
         /\ \A p : Status(log \o more, p, i) = Status(log, p, i)
         /\ i + 1 =< Len(log) => (Follows(log \o more, i + 1) <=> Follows(log, i + 1))
<1>1. \A k \in 1..Len(log) : (log \o more)[k] = log[k]
  OBVIOUS
<1>2. \A types, p : Places(log \o more, types, p, i) = Places(log, types, p, i)
  BY <1>1 DEF Places
<1>3. \A p : Status(log \o more, p, i) = Status(log, p, i)
  BY <1>2 DEF Status
<1>4. ASSUME i + 1 =< Len(log) PROVE Follows(log \o more, i + 1) <=> Follows(log, i + 1)
  <2>1. (log \o more)[i + 1] = log[i + 1] /\ (i + 1) - 1 = i
    BY <1>1, <1>4
  <2> QED
    BY <1>2, <1>3, <2>1 DEF Follows
<1> QED
  BY <1>2, <1>3, <1>4

\* One event more of a type, or none.
LEMMA CountOfAppended ==
  ASSUME NEW log \in Seq(Entry), NEW e \in Entry, NEW type
  PROVE  /\ Count(Append(log, e), type) = IF e.type = type THEN Count(log, type) + 1 ELSE Count(log, type)
         /\ Count(log, type) \in Nat
<1> DEFINE S == {i \in 1..Len(log) : log[i].type = type}
           T == {i \in 1..Len(Append(log, e)) : Append(log, e)[i].type = type}
<1>1. IsFiniteSet(S)
  <2>1. IsFiniteSet(1..Len(log))
    BY FS_Interval
  <2> QED
    BY <2>1, FS_Subset
<1>2. /\ Len(Append(log, e)) = Len(log) + 1 /\ Append(log, e)[Len(log) + 1] = e
      /\ \A i \in 1..Len(log) : Append(log, e)[i] = log[i]
  OBVIOUS
<1>3. T = IF e.type = type THEN S \cup {Len(log) + 1} ELSE S
  BY <1>2
<1>4. Len(log) + 1 \notin S
  OBVIOUS
<1>5. Cardinality(S \cup {Len(log) + 1}) = Cardinality(S) + 1 /\ Cardinality(S) \in Nat
  BY <1>1, <1>4, FS_AddElement, FS_CardinalityType
<1> QED
  BY <1>3, <1>5 DEF Count

\* Whether an event follows from those before it, when it is the last.
LEMMA FollowsAppended ==
  ASSUME NEW log \in Seq(Entry), NEW e \in Entry
  PROVE  (\A i \in 1..Len(Append(log, e)) : Follows(Append(log, e), i))
           <=> /\ \A i \in 1..Len(log) : Follows(log, i)
               /\ CASE e.type = "ProposalCreated" -> e.of = Len(log) + 1
                    [] e.type = "ProposalSubmitted" -> Status(log, e.of, Len(log)) = "DRAFT"
                    [] e.type \in Decided -> Status(log, e.of, Len(log)) = "SUBMITTED"
                    [] OTHER -> /\ Places(log, {"ReviewApproved"}, e.of, Len(log)) # {}
                                /\ Places(log, {"AmendmentRequestProduced"}, e.of, Len(log)) = {}
<1>1. PICK more \in Seq(Entry) : Append(log, e) = log \o more
  <2>1. Append(log, e) = log \o <<e>> /\ <<e>> \in Seq(Entry)
    OBVIOUS
  <2> QED
    BY <2>1
<1>2. Len(Append(log, e)) = Len(log) + 1 /\ Append(log, e)[Len(log) + 1] = e /\ (Len(log) + 1) - 1 = Len(log)
  OBVIOUS
<1>3. \A i \in 1..Len(log) : Follows(Append(log, e), i) <=> Follows(log, i)
  <2> SUFFICES ASSUME NEW i \in 1..Len(log) PROVE Follows(Append(log, e), i) <=> Follows(log, i)
    OBVIOUS
  <2>1. PICK j \in 0..Len(log) : j + 1 = i
    <3>1. i - 1 \in 0..Len(log) /\ (i - 1) + 1 = i
      OBVIOUS
    <3> QED
      BY <3>1
  <2> QED
    BY <1>1, <2>1, PastIsKept
<1>4. /\ \A p : Status(Append(log, e), p, Len(log)) = Status(log, p, Len(log))
      /\ \A types, p : Places(Append(log, e), types, p, Len(log)) = Places(log, types, p, Len(log))
  <2>1. Len(log) \in 0..Len(log)
    OBVIOUS
  <2> QED
    BY <1>1, <2>1, PastIsKept
<1>5. Follows(Append(log, e), Len(log) + 1)
        <=> CASE e.type = "ProposalCreated" -> e.of = Len(log) + 1
              [] e.type = "ProposalSubmitted" -> Status(log, e.of, Len(log)) = "DRAFT"
              [] e.type \in Decided -> Status(log, e.of, Len(log)) = "SUBMITTED"
              [] OTHER -> /\ Places(log, {"ReviewApproved"}, e.of, Len(log)) # {}
                          /\ Places(log, {"AmendmentRequestProduced"}, e.of, Len(log)) = {}
  BY <1>2, <1>4 DEF Follows
<1>6. \A i : i \in 1..Len(Append(log, e)) <=> i \in 1..Len(log) \/ i = Len(log) + 1
  BY <1>2
<1> QED
  BY <1>3, <1>5, <1>6

\* A valid log can be continued by one event; the counts are of the whole operation.
LEMMA ValidCreated ==
  ASSUME NEW log \in Seq(Entry), Valid(log), NEW e \in Entry,
         \/ e.type = "ProposalCreated" /\ e.of = Len(log) + 1
         \/ e.type = "ProposalSubmitted" /\ Status(log, e.of, Len(log)) = "DRAFT"
         \/ e.type \in {"ReviewRejected", "ReviewDeferred"} /\ Status(log, e.of, Len(log)) = "SUBMITTED"
  PROVE  Valid(Append(log, e))
<1>1. \A i \in 1..Len(Append(log, e)) : Follows(Append(log, e), i)
  BY FollowsAppended DEF Valid, Decided
<1>2. e.type \notin {"ReviewApproved", "AmendmentRequestProduced"}
  OBVIOUS
<1> QED
  BY <1>1, <1>2, CountOfAppended DEF Valid

\* What was submitted and not decided on has no request yet: an approval is followed by one.
LEMMA ValidApproved ==
  ASSUME NEW log \in Seq(Entry), Valid(log), NEW e \in Entry, NEW f \in Entry,
         e.type = "ReviewApproved", f.type = "AmendmentRequestProduced", f.of = e.of,
         Status(log, e.of, Len(log)) = "SUBMITTED"
  PROVE  Valid(Append(Append(log, e), f))
<1> DEFINE mid == Append(log, e)
<1>1. mid \in Seq(Entry) /\ Len(mid) = Len(log) + 1 /\ mid[Len(log) + 1] = e
      /\ \A i \in 1..Len(log) : mid[i] = log[i]
  OBVIOUS
<1>2. \A i \in 1..Len(mid) : Follows(mid, i)
  BY FollowsAppended DEF Valid, Decided
<1>3. Places(mid, {"ReviewApproved"}, e.of, Len(mid)) # {}
  BY <1>1 DEF Places
<1>4. Places(mid, {"AmendmentRequestProduced"}, e.of, Len(mid)) = {}
  <2> SUFFICES ASSUME NEW i \in 1..Len(log), log[i].type = "AmendmentRequestProduced", log[i].of = e.of PROVE FALSE
    BY <1>1 DEF Places
  <2>1. Places(log, {"ReviewApproved"}, e.of, i - 1) # {}
    BY DEF Valid, Follows, Decided
  <2>2. PICK k \in 1..(i - 1) : log[k].type = "ReviewApproved" /\ log[k].of = e.of
    BY <2>1 DEF Places
  <2>3. k \in Places(log, Decided, e.of, Len(log))
    BY <2>2 DEF Places, Decided
  <2> QED
    BY <2>3 DEF Status
<1> HIDE DEF mid
<1>5. \A i \in 1..Len(Append(mid, f)) : Follows(Append(mid, f), i)
  BY <1>1, <1>2, <1>3, <1>4, FollowsAppended DEF Decided
<1>6. /\ Count(mid, "ReviewApproved") = Count(log, "ReviewApproved") + 1
      /\ Count(mid, "AmendmentRequestProduced") = Count(log, "AmendmentRequestProduced")
  BY CountOfAppended DEF mid
<1>7. /\ Count(Append(mid, f), "ReviewApproved") = Count(mid, "ReviewApproved")
      /\ Count(Append(mid, f), "AmendmentRequestProduced") = Count(mid, "AmendmentRequestProduced") + 1
  BY <1>1, CountOfAppended
<1>8. Count(Append(mid, f), "ReviewApproved") = Count(Append(mid, f), "AmendmentRequestProduced")
  BY <1>6, <1>7 DEF Valid
<1> QED
  BY <1>5, <1>8 DEF Valid, mid

LEMMA WriteKeeps == ASSUME WInv, Write, WorkspaceAssumption PROVE WInv'
<1>0. entries \in Seq(Entry) /\ Len(entries) \in Nat /\ MaxEvents \in Nat /\ MaxChanges \in Nat
  BY DEF WInv, WorkspaceAssumption
<1>1. CASE call' = Nothing /\ entries' = entries
  BY <1>1 DEF Write, WInv, Standing, LogIsValid, DecidedAsSeen
<1>2. CASE /\ entries' = entries \o Appended(call.type, call.of) /\ call' = [call EXCEPT !.type = "Written"]
           /\ Allowed(call.type, call.of)
  <2>0. call # Nothing /\ call.type \in Types /\ call.type \in Asked \cup {"Written"}
    BY DEF Write, WInv, Standing
  <2>1. /\ call # Nothing /\ call.type \in Asked /\ call.user \in Users /\ view[call.user] = Len(entries)
        /\ Len(entries) + 2 =< MaxEvents
        /\ (call.type # "ProposalCreated") => call.of \in 1..Len(entries)
    <3>1. call.type \in Asked
      BY <2>0 DEF Types, Decided
    <3> QED
      BY <2>0, <3>1 DEF WInv, Standing
  <2>10. Len(entries) + 2 =< MaxEvents
    BY <2>1
  <2>11. \A n \in Nat : n + 2 =< MaxEvents => n + 1 \in 1..MaxEvents /\ n \in 0..MaxEvents /\ 1..n \subseteq 1..MaxEvents
    BY <1>0
  <2>12. Len(entries) + 1 \in 1..MaxEvents /\ Len(entries) \in 0..MaxEvents /\ 1..Len(entries) \subseteq 1..MaxEvents
    BY <1>0, <2>10, <2>11
  <2>2. PICK p \in 1..MaxEvents : p = IF call.type = "ProposalCreated" THEN Len(entries) + 1 ELSE call.of
    <3>1. Len(entries) + 1 \in 1..MaxEvents /\ 1..Len(entries) \subseteq 1..MaxEvents
      BY <2>12
    <3> QED
      BY <2>1, <3>1
  <2>3. PICK e \in Entry : e = [type |-> call.type, of |-> p, seen |-> Len(entries)]
    <3>1. Len(entries) \in 0..MaxEvents
      BY <2>12
    <3>2. [type |-> call.type, of |-> p, seen |-> Len(entries)] \in Entry
      BY <2>0, <3>1 DEF Entry
    <3> QED
      BY <3>2
  <2>4. PICK f \in Entry : f = [type |-> "AmendmentRequestProduced", of |-> p, seen |-> Len(entries)]
    <3>1. Len(entries) \in 0..MaxEvents
      BY <2>12
    <3>2. [type |-> "AmendmentRequestProduced", of |-> p, seen |-> Len(entries)] \in Entry
      BY <3>1 DEF Entry, Types
    <3> QED
      BY <3>2
  <2>5. entries' = IF call.type = "ReviewApproved" THEN Append(Append(entries, e), f) ELSE Append(entries, e)
    <3>1. Appended(call.type, call.of) = IF call.type = "ReviewApproved" THEN <<e, f>> ELSE <<e>>
      BY <2>1, <2>2, <2>3, <2>4 DEF Appended, Event, Asked, Decided
    <3>2. entries \o <<e, f>> = Append(Append(entries, e), f) /\ entries \o <<e>> = Append(entries, e)
      BY <1>0
    <3> QED
      BY <1>2, <3>1, <3>2
  <2>6. Valid(entries')
    <3>1. CASE call.type = "ReviewApproved"
      <4>1. Status(entries, e.of, Len(entries)) = "SUBMITTED"
        BY <1>2, <2>2, <2>3, <3>1 DEF Allowed
      <4> QED
        BY <1>0, <2>3, <2>4, <2>5, <3>1, <4>1, ValidApproved DEF WInv, LogIsValid
    <3>2. CASE call.type # "ReviewApproved"
      <4>1. \/ e.type = "ProposalCreated" /\ e.of = Len(entries) + 1
            \/ e.type = "ProposalSubmitted" /\ Status(entries, e.of, Len(entries)) = "DRAFT"
            \/ e.type \in {"ReviewRejected", "ReviewDeferred"} /\ Status(entries, e.of, Len(entries)) = "SUBMITTED"
        BY <1>2, <2>1, <2>2, <2>3, <3>2 DEF Allowed, Asked, Decided
      <4> QED
        BY <1>0, <2>5, <3>2, <4>1, ValidCreated DEF WInv, LogIsValid
    <3> QED
      BY <3>1, <3>2
  <2>7. /\ entries' \in Seq(Entry) /\ Len(entries') =< MaxEvents
        /\ \A i \in 1..Len(entries') : \/ i \in 1..Len(entries) /\ entries'[i] = entries[i]
                                       \/ i = Len(entries) + 1 /\ entries'[i] = e
                                       \/ entries'[i] = f
    <3>1. CASE entries' = Append(entries, e)
      <4>1. Len(entries') = Len(entries) + 1 /\ entries' \in Seq(Entry)
        BY <1>0, <3>1
      <4>2. Len(entries') =< MaxEvents
        BY <1>0, <2>10, <4>1
      <4>3. /\ \A i \in 1..Len(entries) : entries'[i] = entries[i]
            /\ entries'[Len(entries) + 1] = e
        BY <1>0, <3>1
      <4>4. \A i \in 1..Len(entries') : i \in 1..Len(entries) \/ i = Len(entries) + 1
        BY <1>0, <4>1
      <4> QED
        BY <4>1, <4>2, <4>3, <4>4
    <3>2. CASE entries' = Append(Append(entries, e), f)
      <4>1. Len(entries') = Len(entries) + 2 /\ entries' \in Seq(Entry)
        BY <1>0, <3>2
      <4>2. /\ \A i \in 1..Len(entries) : entries'[i] = entries[i]
            /\ entries'[Len(entries) + 1] = e /\ entries'[Len(entries) + 2] = f
        BY <1>0, <3>2
      <4>3. \A i \in 1..Len(entries') : i \in 1..Len(entries) \/ i = Len(entries) + 1 \/ i = Len(entries) + 2
        BY <1>0, <4>1
      <4>4. Len(entries') =< MaxEvents
        BY <1>0, <2>10, <4>1
      <4> QED
        BY <4>1, <4>2, <4>3, <4>4
    <3> QED
      BY <2>5, <3>1, <3>2
  <2>8. DecidedAsSeen'
    <3> SUFFICES ASSUME NEW i \in 1..Len(entries'), entries'[i].type \in Decided PROVE entries'[i].seen = i - 1
      BY DEF DecidedAsSeen
    <3>1. f.type \notin Decided
      BY <2>4 DEF Decided
    <3>2. e.seen = Len(entries)
      BY <2>3
    <3> QED
      BY <1>0, <2>7, <3>1, <3>2 DEF WInv, DecidedAsSeen
  <2>9. Standing'
    <3>1. call'.type = "Written" /\ call'.user = call.user
      BY <1>2, <2>1 DEF Write
    <3> QED
      BY <2>1, <3>1 DEF Standing, Asked, Decided
  <2> QED
    BY <2>6, <2>7, <2>8, <2>9 DEF Write, WInv, LogIsValid
<1> QED
  BY <1>1, <1>2 DEF Write

LEMMA WorkspaceStep == WInv /\ [WNext]_wvars => WInv'
<1> SUFFICES ASSUME WInv, [WNext]_wvars PROVE WInv'
  OBVIOUS
<1>0. entries \in Seq(Entry) /\ Len(entries) \in 0..MaxEvents /\ MaxEvents \in Nat /\ MaxChanges \in Nat
  BY WorkspaceAssumption DEF WInv
<1>1. CASE ReplaceAuthority
  BY <1>0, <1>1 DEF ReplaceAuthority, WInv, Standing, LogIsValid, DecidedAsSeen
<1>2. CASE Write
  BY <1>2, WriteKeeps, WorkspaceAssumption
<1>3. CASE Answer
  <2>1. call.user \in Users
    BY <1>3 DEF Answer, WInv, Standing
  <2>2. view' \in [Users -> 0..MaxEvents]
    BY <1>0, <1>3, <2>1 DEF Answer, WInv
  <2> QED
    BY <1>3, <2>2 DEF Answer, WInv, Standing, LogIsValid, DecidedAsSeen
<1>4. ASSUME NEW u \in Users, Browse(u) PROVE WInv'
  BY <1>0, <1>4 DEF Browse, WInv, Standing, LogIsValid, DecidedAsSeen
<1>5. ASSUME NEW u \in Users, NEW type \in Asked, NEW p, type # "ProposalCreated" => p \in Proposals, Enter(u, type, p)
      PROVE  WInv'
  <2>1. Standing'
    BY <1>5 DEF Enter, Current, Standing, Proposals, Asked
  <2> QED
    BY <1>5, <2>1 DEF Enter, WInv, LogIsValid, DecidedAsSeen
<1>6. CASE UNCHANGED wvars
  BY <1>6 DEF wvars, WInv, Standing, LogIsValid, DecidedAsSeen
<1>7. "ProposalCreated" \in Asked /\ Decided \cup {"ProposalSubmitted"} \subseteq Asked
      /\ "ProposalCreated" \notin Decided
  BY DEF Asked, Decided
<1> QED
  BY <1>1, <1>2, <1>3, <1>4, <1>5, <1>6, <1>7 DEF WNext

LEMMA CountOfNothing == \A type : Count(<<>>, type) = 0
<1> SUFFICES ASSUME NEW type PROVE Cardinality({i \in 1..Len(<<>>) : <<>>[i].type = type}) = 0
  BY DEF Count
<1>1. {i \in 1..Len(<<>>) : <<>>[i].type = type} = {}
  OBVIOUS
<1> QED
  BY <1>1, FS_EmptySet

\* The log of the workspace stays one its validator accepts, whoever operates on it and
\* whatever becomes of the authority, and no decision is about less than the whole of it
\* (governance/workspace.py).
THEOREM WorkspaceStaysValid == WSpec => []GovernanceIsValid
<1>1. WInit => WInv
  BY WorkspaceAssumption, CountOfNothing DEF WInit, WInv, Standing, LogIsValid, Valid, DecidedAsSeen
<1>2. WInv => GovernanceIsValid
  <2> SUFFICES ASSUME WInv PROVE WTypeOK
    BY DEF GovernanceIsValid, WInv
  <2>1. \A i \in 1..Len(entries) : entries[i] \in Entry
    BY DEF WInv
  <2>2. \A i \in 1..Len(entries) : entries[i].type \in Types /\ entries[i].of \in 1..MaxEvents
    BY <2>1 DEF Entry
  <2>3. call # Nothing => call.user \in Users /\ call.type \in Types \cup {"Written"}
    BY DEF WInv, Standing, Asked, Types, Decided
  <2> QED
    BY <2>2, <2>3 DEF WTypeOK, WInv
<1> QED
  BY <1>1, <1>2, WorkspaceStep, PTL DEF WSpec
=============================================================================
