--------------------------- MODULE DatasetReview ---------------------------
(***************************************************************************)
(* The Stage 05 review of a dataset proposal: one reviewer's decision log  *)
(* (modeling/review_log.py), the package that is derived from it           *)
(* (modeling/confirmation.py) and the resolution of its references when    *)
(* it is compiled (compilation/candidate_resolution.py).  A candidate's    *)
(* identifier is the hash of its content, so a content is its identifier.  *)
(***************************************************************************)
EXTENDS Naturals, Sequences, FiniteSets, SequencesExt

CONSTANTS
  Identifiers, \* the candidates of the proposal, in the order of their identifiers
  Content,    \* what an identifier stands for: an entity's IRI, an assertion's ends
  MayBecome,  \* contents a candidate may be modified into
  Issues,
  Blocking,   \* blocking issues
  Related,    \* candidates an issue is about
  Pending

Candidates == ToSet(Identifiers)
Entities   == {x \in DOMAIN Content : Content[x].kind = "ENTITY"}

VARIABLES
  decisions,  \* the reviewer's decision on a candidate or an issue
  completed,  \* the log has its completed_at
  package,    \* status of the package that was built
  refused,    \* builds that were refused, by their allow_blocked
  compiled    \* what became of each confirmed candidate

dvars == <<decisions, completed, package, refused, compiled>>

DInit ==
  /\ decisions = [t \in Candidates \cup Issues |-> Pending]
  /\ completed = FALSE /\ package = Pending /\ refused = {} /\ compiled = Pending

\* Decisions that are allowed on a target.
Allowed(t) ==
  IF t \in Issues
    THEN [is : {"REJECT", "DEFER"}, to : {Pending}, evidence : BOOLEAN]
    ELSE [is : {"CONFIRM"}, to : {t}, evidence : {FALSE}]
         \cup [is : {"REJECT", "DEFER"}, to : {Pending}, evidence : {FALSE}]
         \cup [is : {"MODIFY_AND_CONFIRM"}, to : MayBecome[t], evidence : {FALSE}]

ASSUME DatasetAssumption ==
  /\ Issues \cap Candidates = {} /\ Blocking \subseteq Issues
  /\ \A i \in Blocking : Related[i] \subseteq Candidates
  /\ \A t \in Candidates \cup Issues : Pending \notin Allowed(t)
  /\ Pending \notin {"CONFIRM", "MODIFY_AND_CONFIRM", "REJECT", "DEFER", "BLOCKED", "READY_FOR_COMPILATION"}

RecordAction(t, d) ==
  /\ ~completed /\ decisions[t] = Pending
  /\ decisions' = [decisions EXCEPT ![t] = d]
  /\ UNCHANGED <<completed, package, refused, compiled>>

FinalizeLog ==
  /\ ~completed /\ \A t \in Candidates \cup Issues : decisions[t] # Pending
  /\ completed' = TRUE /\ UNCHANGED <<decisions, package, refused, compiled>>

Ruling(t) == IF decisions[t] = Pending THEN Pending ELSE decisions[t].is

Confirmed == {t \in Candidates : Ruling(t) \in {"CONFIRM", "MODIFY_AND_CONFIRM"}}

Effective(t) == decisions[t].to

\* A blocking issue is rejected on evidence or because of what became of its candidates.
Grounded(i) ==
  Ruling(i) = "REJECT" /\ (decisions[i].evidence \/ \E c \in Related[i] : Ruling(c) \in {"MODIFY_AND_CONFIRM", "REJECT"})

Ends(x) ==
  CASE x \in Entities                   -> {}
    [] Content[x].kind = "DATA"         -> {Content[x].subject}
    [] OTHER                            -> {Content[x].subject, Content[x].object}

\* Fault: only the subject of an assertion must be confirmed.
ClosedSubject ==
  \A t \in Confirmed : Effective(t) \notin Entities =>
    Content[Effective(t)].subject \in Confirmed \cup {Effective(c) : c \in Confirmed}

\* An end is confirmed under its proposed or under its new identifier.
Closed ==
  \A t \in Confirmed : Ends(Effective(t)) \subseteq Confirmed \cup {Effective(c) : c \in Confirmed}

\* What must differ between two confirmed candidates, and the data property
\* being functional, two values on one subject.
Key(x) == IF x \in Entities THEN Content[x].iri ELSE <<Content[x].subject, Content[x].kind, Content[x].object>>

Apart ==
  \A t, u \in Confirmed : t # u =>
    LET x == Effective(t)  y == Effective(u)
    IN /\ (x \in Entities <=> y \in Entities) => Key(x) # Key(y)
       /\ Content[x].kind = "DATA" /\ Content[y].kind = "DATA" =>
            Content[x].subject # Content[y].subject \/ Content[x].object = Content[y].object

Unresolved == {i \in Blocking : Ruling(i) = "DEFER"}

\* build_confirmed_modeling_package.
Build(allow) ==
  /\ completed /\ package = Pending
  /\ LET sound  == /\ \A i \in Blocking : Ruling(i) = "REJECT" => Grounded(i)
                   /\ Closed /\ Apart
         status == IF Unresolved # {} THEN "BLOCKED" ELSE "READY_FOR_COMPILATION"
     IN IF sound /\ (status = "BLOCKED" => allow)
          THEN package' = status /\ refused' = refused
          ELSE package' = package /\ refused' = refused \cup {allow}
  /\ UNCHANGED <<decisions, completed, compiled>>

Precedes(t, u) == \E i, j \in DOMAIN Identifiers : i < j /\ Identifiers[i] = t /\ Identifiers[j] = u

\* resolve_effective_candidates: in the order of the package each item is entered under both
\* its identifiers.  Who comes later replaces what an identifier stood for, unless it is the
\* identifier of a source, which refuses a second meaning.
Resolved ==
  [x \in Confirmed \cup {Effective(t) : t \in Confirmed} |->
     IF x \in Confirmed /\ \A t \in Confirmed : Precedes(x, t) => Effective(t) # x
       THEN Effective(x) ELSE x]

Clash == \E t, u \in Confirmed : Precedes(u, t) /\ Effective(u) = t /\ Effective(t) # t

\* candidate_to_rdf_triple: the ends are the IRIs of the resolved entities.
Triple(as, x) ==
  LET iri(e) == Content[as[e]].iri
  IN CASE x \in Entities           -> <<Content[x].iri, "class">>
       [] Content[x].kind = "DATA" -> <<iri(Content[x].subject), Content[x].object>>
       [] OTHER                    -> <<iri(Content[x].subject), iri(Content[x].object)>>

\* compile_abox; an end that is not an entity, or a clash, refuses the package.
Compile ==
  /\ package = "READY_FOR_COMPILATION" /\ compiled = Pending
  /\ ~Clash
  /\ \A t \in Confirmed : \A e \in Ends(Resolved[t]) : Resolved[e] \in Entities
  /\ compiled' = [t \in Confirmed |-> [content |-> Resolved[t], triple |-> Triple(Resolved, Resolved[t])]]
  /\ UNCHANGED <<decisions, completed, package, refused>>

DNext ==
  \/ \E t \in Candidates \cup Issues : \E d \in Allowed(t) : RecordAction(t, d)
  \/ FinalizeLog
  \/ \E allow \in BOOLEAN : Build(allow)
  \/ Compile

DSpec == DInit /\ [][DNext]_dvars

-----------------------------------------------------------------------------

\* Types of the variables; a package is of a completed log, and only a package
\* that is ready is compiled (review_log.py, confirmation.py, compiler.py:78).
DTypeOK ==
  /\ \A t \in Candidates \cup Issues : decisions[t] \in Allowed(t) \cup {Pending}
  /\ completed \in BOOLEAN /\ refused \subseteq BOOLEAN
  /\ package \in {Pending, "BLOCKED", "READY_FOR_COMPILATION"}
  /\ package # Pending => completed
  /\ compiled # Pending => package = "READY_FOR_COMPILATION" /\ DOMAIN compiled = Confirmed

\* A package that may be compiled was reviewed to the end, every end of an
\* assertion it confirms is an item a reviewer confirmed, and no blocking
\* issue was put off or waved through (confirmation.py:282-367).
ReviewedToTheEnd ==
  package = "READY_FOR_COMPILATION" =>
    /\ \A t \in Candidates \cup Issues : decisions[t] # Pending
    /\ \A t \in Confirmed : \A e \in Ends(decisions[t].to) :
         \E c \in Confirmed : e \in {c, decisions[c].to}
    /\ \A i \in Blocking :
         /\ decisions[i].is = "REJECT"
         /\ decisions[i].evidence \/ \E c \in Related[i] : decisions[c].is \in {"MODIFY_AND_CONFIRM", "REJECT"}

\* As long as nothing was modified into another candidate of the proposal, a
\* confirmed candidate is compiled as it was reviewed, and each end of an
\* assertion is the IRI its own reviewer's decision gave it
\* (candidate_resolution.py:33-75, abox_compiler.py:169-279).
ApartIsReviewed ==
  compiled # Pending /\ (\A t \in Confirmed : decisions[t].to \in {t} \cup (DOMAIN Content \ Candidates)) =>
    \A t \in Confirmed :
      /\ compiled[t].content = decisions[t].to
      /\ \A e \in Ends(decisions[t].to) \cap Confirmed :
           Content[decisions[e].to].iri \in {compiled[t].triple[1], compiled[t].triple[2]}

\* Nothing is compiled that no reviewer's decision named (modification-policy.md).
NothingUnreviewed ==
  compiled # Pending => \A t \in Confirmed : \E c \in Confirmed : compiled[t].content = decisions[c].to

\* Every confirmed candidate is compiled as it was reviewed: a candidate has
\* one resolution (candidate_resolution.py:42, "candidate has multiple
\* effective resolutions").
\* The code does not keep it: TLC refutes it (README.md, "Statements TLC refutes").
CompiledIsReviewed ==
  compiled # Pending => \A t \in Confirmed : compiled[t].content = decisions[t].to

\* Two confirmed candidates are never one fact (confirmation.py:397,
\* "duplicate confirmed assertion triples").
\* The code does not keep it: TLC refutes it (README.md, "Statements TLC refutes").
FactsAreApart ==
  compiled # Pending => \A t, u \in Confirmed : compiled[t].triple = compiled[u].triple => t = u

\* A completed log rejects a blocking issue only on evidence or because of what
\* became of its candidates (docs/review/issue-resolution.md:10-13).
\* The code does not keep it: TLC refutes it (README.md, "Statements TLC refutes").
RejectionIsGrounded ==
  completed => \A i \in Blocking : Ruling(i) = "REJECT" => Grounded(i)

\* Where the only trouble is an assertion on something unconfirmed, a build
\* that allows it gives a BLOCKED package (docs/review/package-readiness.md:23-24).
\* The code does not keep it: TLC refutes it (README.md, "Statements TLC refutes").
UnconfirmedIsBlocked ==
  TRUE \in refused =>
    Closed \/ ~Apart \/ \E i \in Blocking : Ruling(i) = "REJECT" /\ ~Grounded(i)

\* A dataset package that may be compiled was reviewed to its end, and what is compiled is
\* what a reviewer's decision named (modeling/confirmation.py).
ReadyIsReviewed == DTypeOK /\ ReviewedToTheEnd /\ ApartIsReviewed /\ NothingUnreviewed
=============================================================================
