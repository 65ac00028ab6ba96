-------------------------- MODULE AmendmentReentry --------------------------
(* Carrying out an approved amendment: the input data is revised by a human, *)
(* the revision is checked against what was declared, the proposal that the  *)
(* generator makes of it must represent the request, a human decides on each *)
(* candidate, and a new publication is built beside the old one.             *)
(*                                                                           *)
(* A field stands for a source pointer and a candidate is a field with its   *)
(* value: what the generator proposes for revised data.                      *)
EXTENDS Naturals, Sequences, FiniteSets, FiniteSetsExt

CONSTANTS Fields, Values,
          Requests,         \* approved requests: [type, value, sources, refs, base]
          Decisions,        \* what a reviewer may decide on a candidate: its kind and a new value
          Targets,          \* target pointers the human may name
          MaxPublications   \* bound

Absent == 0

ASSUME ReentryAssumption ==
  /\ Values # {} /\ Values \subseteq Nat \ {Absent} /\ Fields # {}
  /\ \A r \in Requests: r.base \in Nat \ {0}
  /\ Decisions \subseteq ({"CONFIRM", "REJECT", "DEFER"} \X {Absent}) \cup ({"MODIFY"} \X Values)
  /\ MaxPublications \in Nat \ {0}

VARIABLES library,   \* publications, the first is the base of everything
          request,   \* the request that is being carried out, or Nothing
          intake,    \* its manifest with the revised data, or Nothing
          proposal,  \* the candidates the generator proposed
          outcome    \* how the re-entry ended

avars == <<library, request, intake, proposal, outcome>>

Nothing == <<>>
Data == [Fields -> Values \cup {Absent}]
DataTypes == {"PROPOSE_VALUE_CANDIDATE", "PROPOSE_SOURCE_ATTACHMENT"}

AInit == /\ LET data == [f \in Fields |-> IF f = (CHOOSE g \in Fields: TRUE) THEN Min(Values) ELSE Absent]
           IN library = <<[data |-> data, facts |-> data, request |-> Nothing, declared |-> {}, targets |-> {}, modified |-> {}]>>
        /\ request = Nothing /\ intake = Nothing /\ proposal = {} /\ outcome = "NONE"

Changed(base, revised) == {f \in Fields: base[f] # revised[f]}

Declared(base, revised, declared) == declared = Changed(base, revised)

\* validate_amendment_scope: what a request of a type may change, and where.
InScope(type, changed, targets) ==
  /\ type # "PROPOSE_CONSTRAINT_REVIEW"
  /\ type \in {"NO_CHANGE_RECOMMENDED", "REQUEST_REVIEW_REOPEN"} => changed = {}
  /\ type \in DataTypes => changed # {}
  /\ targets # {} => changed \subseteq targets

\* The requests that may be taken up: on a publication that is there.
Open == {r \in Requests: request = Nothing /\ r.base <= Len(library) /\ Len(library) < MaxPublications}

\* A human hands in revised data with a manifest for an approved request, and the
\* data they revised, which nothing compares with what the base was published from.
Create(r, base, revised, declared, targets) ==
  /\ r \in Open
  /\ Declared(base, revised, declared)
  /\ InScope(r.type, declared, targets)
  /\ request' = r
  /\ intake' = [revised |-> revised, declared |-> declared, targets |-> targets]
  /\ outcome' = "VALIDATED"
  /\ UNCHANGED <<library, proposal>>

\* The candidates the generator makes of revised data.
Proposed(data) == {<<f, data[f]>>: f \in {g \in Fields: data[g] # Absent}}

\* _term_matches, _lineage_matches: a candidate that may stand for the request.
Pointers(i) == IF i.targets # {} THEN i.targets ELSE i.declared

Matches(r, i, c) ==
  /\ r.refs = {} \/ c \in r.refs
  /\ r.value = Absent \/ c[2] = r.value
  /\ r.sources # {} \/ Pointers(i) = {} \/ c[1] \in Pointers(i)
  /\ r.sources = {} \/ c[1] \in r.sources

Matching == {c \in Proposed(intake.revised): Matches(request, intake, c)}

\* bind_amendment_to_proposal: exactly one candidate represents the request.
Prepare ==
  /\ outcome = "VALIDATED"
  /\ IF request.type = "NO_CHANGE_RECOMMENDED"
     THEN outcome' = "NO_REENTRY_REQUIRED" /\ UNCHANGED proposal
     ELSE IF Cardinality(Matching) = 1
          THEN outcome' = "REENTRY_PROPOSAL_READY" /\ proposal' = Proposed(intake.revised)
          ELSE outcome' = "NOT_REPRESENTED" /\ UNCHANGED proposal
  /\ UNCHANGED <<library, request, intake>>

\* A decision is its kind and, for a modification, the new value.
Kind(log, c) == log[c][1]

\* What a decision log makes of the candidates: the confirmed and the modified ones.
Facts(log) ==
  [f \in Fields |-> IF \E c \in DOMAIN log: c[1] = f /\ Kind(log, c) \in {"CONFIRM", "MODIFY"}
                    THEN LET c == CHOOSE c \in DOMAIN log: c[1] = f
                         IN IF Kind(log, c) = "MODIFY" THEN log[c][2] ELSE c[2]
                    ELSE Absent]

\* The fields whose candidates were given another value: the publication keeps the log.
Modified(log) == {c[1]: c \in {d \in DOMAIN log: Kind(log, d) = "MODIFY"}}

\* Fault: what was put off does not count as refused.
RefusedRejected(log) == {c \in DOMAIN log: Kind(log, c) = "REJECT"}

Refused(log) == {c \in DOMAIN log: Kind(log, c) \in {"REJECT", "DEFER"}}

\* complete_reentry: a review of all candidates, and a new publication when none is refused.
Complete(log) ==
  /\ outcome = "REENTRY_PROPOSAL_READY"
  /\ DOMAIN log = proposal
  /\ IF Refused(log) # {}
     THEN /\ outcome' = IF \E c \in DOMAIN log: Kind(log, c) = "REJECT" THEN "REVIEW_REJECTED" ELSE "REVIEW_DEFERRED"
          /\ UNCHANGED library
     ELSE /\ outcome' = "PUBLISHED"
          /\ library' = Append(library, [data |-> intake.revised, facts |-> Facts(log), request |-> request,
                                         declared |-> intake.declared, targets |-> intake.targets,
                                         modified |-> Modified(log)])
  /\ UNCHANGED <<request, intake, proposal>>

\* A package with the identity of the base is refused.
SameIdentity(log) ==
  /\ outcome = "REENTRY_PROPOSAL_READY" /\ DOMAIN log = proposal /\ Refused(log) = {}
  /\ intake.revised = library[request.base].data /\ Facts(log) = library[request.base].facts
  /\ outcome' = "PUBLICATION_IMMUTABILITY_VIOLATION"
  /\ UNCHANGED <<library, request, intake, proposal>>

\* A prepared re-entry may be completed with another log after a refusal; or it is dropped.
Again == /\ outcome \in {"REVIEW_REJECTED", "REVIEW_DEFERRED", "PUBLISHED"}
         /\ Len(library) < MaxPublications
         /\ outcome' = "REENTRY_PROPOSAL_READY"
         /\ UNCHANGED <<library, request, intake, proposal>>

Drop == /\ request # Nothing
        /\ request' = Nothing /\ intake' = Nothing /\ proposal' = {} /\ outcome' = "NONE"
        /\ UNCHANGED library

ANext == \/ \E r \in Open, base, revised \in Data, declared \in SUBSET Fields, targets \in Targets:
             Create(r, base, revised, declared, targets)
        \/ Prepare
        \/ \E log \in [proposal -> Decisions]: Complete(log) \/ SameIdentity(log)
        \/ Again \/ Drop

ASpec == AInit /\ [][ANext]_avars

\* Types of the variables.
ATypeOK == /\ Len(library) \in 1..MaxPublications
           /\ \A k \in 1..Len(library): library[k].data \in Data /\ library[k].facts \in Data
           /\ request # Nothing => request \in Requests
           /\ intake # Nothing => intake.revised \in Data /\ intake.declared \subseteq Fields
           /\ proposal \subseteq Fields \X Values

New == 2..Len(library)
Base(k) == library[library[k].request.base]

\* Whatever is said of a field in a new publication, a human decided on every candidate of
\* the revised data, and none of them was refused or put off.
AllWasDecided == \A k \in New, f \in Fields: (library[k].facts[f] = Absent) = (library[k].data[f] = Absent)

\* Where the human's manifest or the request says that the change is.
Named(k) == library[k].declared \cup library[k].targets \cup library[k].request.sources

\* The revised data say what the request asked for where the manifest or the request
\* names a place, and the publication says it there too, unless the reviewer of that
\* very candidate gave it another value.
RequestIsFollowed ==
  \A k \in New: library[k].request.value # Absent =>
    \E f \in Fields: /\ library[k].data[f] = library[k].request.value
                     /\ library[k].request.refs # {} \/ Named(k) = {} \/ f \in Named(k)
                     /\ library[k].facts[f] = library[k].data[f] \/ f \in library[k].modified

\* A publication says what its request asked for.
\* The code does not keep it: TLC refutes it (README.md, "Statements TLC refutes").
PublishedIsRequested ==
  \A k \in New: library[k].request.value # Absent =>
    \E f \in Fields: library[k].facts[f] = library[k].request.value

\* A publication differs from the data of its base where the manifest says, and nowhere
\* else.  The code does not keep it: TLC refutes it (README.md, "Statements TLC refutes").
ChangesAreDeclared == \A k \in New: Changed(Base(k).data, library[k].data) = library[k].declared

\* A change was in the scope the human named: no scope allows no change.
\* The code does not keep it: TLC refutes it (README.md, "Statements TLC refutes").
ChangesAreApproved == intake # Nothing => intake.declared \subseteq intake.targets

\* A human decided on all of a re-entered amendment, after it was bound to its request,
\* and it says what its request asked for but where the human changed that very statement
\* (amendment/republication.py, candidate_binding.py).
ReentryIsDecided == ATypeOK /\ AllWasDecided /\ RequestIsFollowed
=============================================================================
