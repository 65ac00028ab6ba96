------------------------ MODULE GovernanceWorkspace ------------------------
(* The workspace in which humans propose how a diagnostic is resolved and    *)
(* decide on the proposals: a chain of events, written against the authority *)
(* it was opened for and read back by an independent validator before and    *)
(* after every operation.  The authority is rebuilt from its files each time *)
(* and may have changed.                                                     *)
EXTENDS Naturals, Sequences, FiniteSets

CONSTANTS Users,
          MaxEvents, MaxChanges    \* bounds

ASSUME WorkspaceAssumption == MaxEvents \in Nat /\ MaxChanges \in Nat

VARIABLES authority,   \* the authority its files give now: 0 is the workspace's own
          changes,     \* how often the files changed
          entries,      \* [type, of, seen]: a proposal is named by the place of its creation
          view,        \* how much of the workspace each user has read
          call         \* the operation that is under way, or Nothing

wvars == <<authority, changes, entries, view, call>>

Nothing == <<>>
Decided == {"ReviewApproved", "ReviewRejected", "ReviewDeferred"}
Types == Decided \cup {"ProposalCreated", "ProposalSubmitted", "AmendmentRequestProduced"}

WInit == /\ authority = 0 /\ changes = 0
         /\ entries = <<>>
         /\ view = [u \in Users |-> 0]
         /\ call = Nothing

\* The places of the events of some types about a proposal, before a place.
Places(log, types, p, before) == {i \in 1..before: log[i].type \in types /\ log[i].of = p}

\* The status the validator reconstructs for a proposal.
Status(log, p, before) ==
  IF Places(log, Decided, p, before) # {} THEN "DECIDED"
  ELSE IF Places(log, {"ProposalSubmitted"}, p, before) # {} THEN "SUBMITTED"
  ELSE IF Places(log, {"ProposalCreated"}, p, before) # {} THEN "DRAFT" ELSE "UNKNOWN"

\* validate_governance_workspace_against_authorities: every event follows from those before
\* it, and there are as many requests as approvals.
Follows(log, i) ==
  CASE log[i].type = "ProposalCreated" -> log[i].of = i
    [] log[i].type = "ProposalSubmitted" -> Status(log, log[i].of, i - 1) = "DRAFT"
    [] log[i].type \in Decided -> Status(log, log[i].of, i - 1) = "SUBMITTED"
    [] OTHER -> /\ Places(log, {"ReviewApproved"}, log[i].of, i - 1) # {}
                /\ Places(log, {"AmendmentRequestProduced"}, log[i].of, i - 1) = {}

Count(log, type) == Cardinality({i \in 1..Len(log): log[i].type = type})

Valid(log) == /\ \A i \in 1..Len(log): Follows(log, i)
              /\ Count(log, "ReviewApproved") = Count(log, "AmendmentRequestProduced")

Browse(u) == /\ call = Nothing /\ view[u] < Len(entries)
             /\ view' = [view EXCEPT ![u] = Len(entries)]
             /\ UNCHANGED <<authority, changes, entries, call>>

\* _current: the user has read the whole workspace, and the authority is still its own.
Current(u) == /\ view[u] = Len(entries)
              /\ authority = 0 /\ Valid(entries)

Enter(u, type, p) ==
  /\ call = Nothing /\ Current(u)
  /\ Len(entries) + 2 <= MaxEvents
  /\ call' = [user |-> u, type |-> type, of |-> p]
  /\ UNCHANGED <<authority, changes, entries, view>>

\* require_transition and the tests for what was done before.
Allowed(type, p) == CASE type = "ProposalCreated" -> TRUE
                      [] type = "ProposalSubmitted" -> Status(entries, p, Len(entries)) = "DRAFT"
                      [] OTHER -> Status(entries, p, Len(entries)) = "SUBMITTED"

Event(type, p) == [type |-> type, of |-> p, seen |-> view[call.user]]

\* Fault: a request is made of every decision.
AppendedForAll(type, p) ==
  CASE type = "ProposalCreated" -> <<Event(type, Len(entries) + 1)>>
    [] type = "ProposalSubmitted" -> <<Event(type, p)>>
    [] OTHER -> <<Event(type, p), Event("AmendmentRequestProduced", p)>>

\* What an operation appends: an approval is followed by the request for the amendment.
Appended(type, p) ==
  CASE type = "ProposalCreated" -> <<Event(type, Len(entries) + 1)>>
    [] type = "ReviewApproved" -> <<Event(type, p), Event("AmendmentRequestProduced", p)>>
    [] OTHER -> <<Event(type, p)>>

\* The workspace is validated again before an existing proposal is looked up.
Write == /\ call # Nothing /\ call.type \in Types
         /\ IF /\ call.type # "ProposalCreated" => authority = 0 /\ Valid(entries)
               /\ Allowed(call.type, call.of)
            THEN /\ entries' = entries \o Appended(call.type, call.of)
                 /\ call' = [call EXCEPT !.type = "Written"]
            ELSE call' = Nothing /\ UNCHANGED entries
         /\ UNCHANGED <<authority, changes, view>>

\* The last validation decides only what the user is told: the new state, or an error.
Answer == /\ call # Nothing /\ call.type = "Written"
          /\ view' = IF authority = 0 /\ Valid(entries) THEN [view EXCEPT ![call.user] = Len(entries)] ELSE view
          /\ call' = Nothing
          /\ UNCHANGED <<authority, changes, entries>>

\* external: the files of the authority are replaced, and perhaps put back.
ReplaceAuthority == /\ changes < MaxChanges
                    /\ changes' = changes + 1
                    /\ authority' \in {0, 1} \ {authority}
                    /\ UNCHANGED <<entries, view, call>>

Proposals == {i \in 1..Len(entries): entries[i].type = "ProposalCreated"}

WNext == \/ ReplaceAuthority \/ Write \/ Answer
         \/ \E u \in Users: \/ Browse(u) \/ Enter(u, "ProposalCreated", 0)
                            \/ \E p \in Proposals, type \in Decided \cup {"ProposalSubmitted"}: Enter(u, type, p)

WSpec == WInit /\ [][WNext]_wvars

\* Types of the variables.
WTypeOK == /\ authority \in {0, 1} /\ changes \in 0..MaxChanges
           /\ Len(entries) <= MaxEvents
           /\ \A i \in 1..Len(entries): entries[i].type \in Types /\ entries[i].of \in 1..MaxEvents
           /\ view \in [Users -> 0..MaxEvents]
           /\ call # Nothing => call.user \in Users /\ call.type \in Types \cup {"Written"}

\* Whatever operations wrote, some of which ended with an error, the validator accepts: the
\* workspace never locks its users out.
LogIsValid == Valid(entries)

\* A user decides on what they have read: nothing was written between.  Only the second
\* event of their own approval follows what they saw at a distance.
DecidedAsSeen == \A i \in 1..Len(entries): entries[i].type \in Decided => entries[i].seen = i - 1

\* What the operations leave, also those that end with an error, the validator accepts, and
\* who decides has read everything (governance/workspace.py).
GovernanceIsValid == WTypeOK /\ LogIsValid /\ DecidedAsSeen
=============================================================================
