------------------------- MODULE ActivationHistory -------------------------
(***************************************************************************)
(* The activation history of publications (activation/registry.py) and its *)
(* independent replay (activation/validator.py).  A pointer's hash covers  *)
(* its target and the hash of the pointer before, so a pointer is modelled *)
(* as the sequence of publications selected so far, and a proposal, a      *)
(* review or an event, whose identifiers are hashes too, as its content.   *)
(***************************************************************************)
EXTENDS Naturals, Sequences, FiniteSets, SequencesExt, Functions

CONSTANTS
  Base,        \* the publication of the bootstrap
  Candidates,  \* publications that may be activated
  Reasons,     \* rationales of proposals
  MaxEvents    \* bound on the length of the history

Kinds == {"ACTIVATE_NEW", "ROLLBACK_TO_PRIOR"}

Proposals ==
  [kind : Kinds, target : Candidates \cup {Base}, base : Seq(Candidates \cup {Base}), why : Reasons]

DECISIONS == {"APPROVE", "REJECT", "DEFER"}

Boot == [type |-> "Bootstrapped"]

Created(p)   == [type |-> "Created", proposal |-> p]
Submitted(p) == [type |-> "Submitted", proposal |-> p]
Reviewed(p, d) == [type |-> "Reviewed", proposal |-> p, decision |-> d]
Applied(p, d, old, new) ==
  [type |-> "Applied", proposal |-> p, decision |-> d, old |-> old, new |-> new]

-----------------------------------------------------------------------------
(* Replay of a history.                                                    *)

Refused == [ok |-> FALSE]

Start == [ok |-> TRUE, pointer |-> <<Base>>, status |-> <<>>, decided |-> {}, executed |-> {}]

Status(s, p) == IF p \in DOMAIN s.status THEN s.status[p] ELSE "none"

Put(f, p, v) == [q \in DOMAIN f \cup {p} |-> IF q = p THEN v ELSE f[q]]

\* What a proposal may select, from the pointer it is made on.
Eligible(s, p) ==
  /\ p.base = s.pointer /\ p.target # Last(s.pointer)
  /\ IF p.kind = "ACTIVATE_NEW" THEN p.target \in Candidates ELSE p.target \in Range(s.pointer)
  /\ Status(s, p) = "none"

\* One unused explicit approval, the pointer it was given for, and its target.
Approved(s, e) ==
  /\ Status(s, e.proposal) = "APPROVE" /\ e.decision = "APPROVE"
  /\ <<e.proposal, e.decision>> \in s.decided /\ e.proposal \notin s.executed
  /\ e.old = s.pointer /\ e.proposal.base = e.old
  /\ e.new = Append(e.old, e.proposal.target)

Step(s, e) ==
  CASE s.ok /\ e.type = "Created" /\ Eligible(s, e.proposal) ->
         [s EXCEPT !.status = Put(@, e.proposal, "DRAFT")]
    [] s.ok /\ e.type = "Submitted" /\ Status(s, e.proposal) = "DRAFT" ->
         [s EXCEPT !.status = Put(@, e.proposal, "SUBMITTED")]
    [] s.ok /\ e.type = "Reviewed" /\ Status(s, e.proposal) = "SUBMITTED" ->
         [s EXCEPT !.status = Put(@, e.proposal, e.decision),
                   !.decided = @ \cup {<<e.proposal, e.decision>>}]
    [] s.ok /\ e.type = "Applied" /\ Approved(s, e) ->
         [s EXCEPT !.pointer = e.new, !.executed = @ \cup {e.proposal}]
    [] OTHER -> Refused

Replay(log) ==
  IF log # <<>> /\ Head(log) = Boot THEN FoldLeft(Step, Start, Tail(log)) ELSE Refused

-----------------------------------------------------------------------------
(* The registry: what is written, its pointer, and the publications whose  *)
(* package was changed since it was verified.                              *)

VARIABLES log, pointer, changed

hvars == <<log, pointer, changed>>

HInit == log = <<Boot>> /\ pointer = <<Base>> /\ changed = {}

State == Replay(log)

\* Each operation rebuilds the state first, for the revision and head expected of it.
Ready == Len(log) < MaxEvents /\ State.ok /\ State.pointer = pointer

Write(e) == log' = Append(log, e)

CreateProposal(kind, target, why) ==
  LET p == [kind |-> kind, target |-> target, base |-> pointer, why |-> why] IN
  /\ Ready /\ Eligible(State, p) /\ Write(Created(p))
  /\ UNCHANGED <<pointer, changed>>

Fresh(p) == p.target \notin changed

SubmitProposal(p) ==
  /\ Ready /\ Status(State, p) = "DRAFT" /\ Fresh(p) /\ Write(Submitted(p))
  /\ UNCHANGED <<pointer, changed>>

RecordReview(p, d) ==
  /\ Ready /\ Status(State, p) = "SUBMITTED" /\ Fresh(p) /\ Write(Reviewed(p, d))
  /\ UNCHANGED <<pointer, changed>>

\* The caller holds an approval, perhaps a stale or a used one: it says it has
\* verified the execution, which is written before it is checked.
AppendExecution(p, old) ==
  /\ Len(log) < MaxEvents /\ Contains(log, Reviewed(p, "APPROVE"))
  /\ Write(Applied(p, "APPROVE", old, Append(old, p.target)))
  /\ pointer' = Append(old, p.target)
  /\ UNCHANGED changed

\* Somebody changes the package of a publication.
Change(t) ==
  /\ t \notin changed /\ changed' = changed \cup {t}
  /\ UNCHANGED <<log, pointer>>

Known == {log[i].proposal : i \in 2..Len(log)}

Next ==
  \/ \E k \in Kinds, t \in Candidates \cup {Base}, w \in Reasons : CreateProposal(k, t, w)
  \/ \E p \in Known : \/ SubmitProposal(p)
                      \/ \E d \in DECISIONS : RecordReview(p, d)
                      \/ \E old \in {p.base, pointer} : AppendExecution(p, old)
  \/ \E t \in Candidates : Change(t)

Spec == HInit /\ [][Next]_hvars

-----------------------------------------------------------------------------
(* What a history is, said without replaying it.                           *)

PointerBefore(h, i) ==
  LET applied == SelectSeq(SubSeq(h, 2, i - 1), LAMBDA e : e.type = "Applied")
  IN <<Base>> \o [j \in DOMAIN applied |-> applied[j].proposal.target]

Before(h, i, type) == {j \in 1..(i - 1) : h[j].type = type /\ h[j].proposal = h[i].proposal}

Explained(h, i) ==
  LET e == h[i]
      now == PointerBefore(h, i)
  IN CASE e.type = "Created" ->
            /\ Before(h, i, "Created") = {} /\ e.proposal.base = now /\ e.proposal.target # Last(now)
            /\ e.proposal.kind = "ROLLBACK_TO_PRIOR" => \E j \in DOMAIN now : now[j] = e.proposal.target
            /\ e.proposal.kind = "ACTIVATE_NEW" => e.proposal.target \in Candidates
       [] e.type = "Submitted" ->
            Before(h, i, "Created") # {} /\ Before(h, i, "Submitted") = {}
       [] e.type = "Reviewed" ->
            Before(h, i, "Submitted") # {} /\ Before(h, i, "Reviewed") = {}
       [] e.type = "Applied" ->
            /\ e.decision = "APPROVE" /\ \E j \in Before(h, i, "Reviewed") : h[j].decision = "APPROVE"
            /\ e.old = now /\ e.proposal.base = now /\ e.new = Append(now, e.proposal.target)
       [] OTHER -> FALSE

IsHistory(h) == h # <<>> /\ h[1] = Boot /\ \A i \in 2..Len(h) : Explained(h, i)

\* The written history with an event removed, repeated, or exchanged with another.
Altered(h) ==
  {RemoveAt(h, i) : i \in DOMAIN h} \cup
  {InsertAt(h, ij[1], h[ij[2]]) : ij \in (1..Len(h)) \X (1..Len(h))} \cup
  {[h EXCEPT ![ij[1]] = h[ij[2]], ![ij[2]] = h[ij[1]]] : ij \in (1..Len(h)) \X (1..Len(h))}

\* Type correctness.
TypeOK ==
  /\ log[1] = Boot /\ \A p \in Known : p \in Proposals
  /\ pointer[1] = Base /\ Range(pointer) \subseteq Candidates \cup {Base}
  /\ State.ok => \A p \in DOMAIN State.status : State.status[p] \in {"DRAFT", "SUBMITTED"} \cup DECISIONS

\* validate_activation_registry_against_authorities accepts exactly the
\* histories: whatever is written, removed, repeated or reordered, an execution
\* passes only on the pointer it was proposed and approved for, and only once.
ReplayIsExact ==
  \A h \in {log} \cup (IF State.ok THEN Altered(log) ELSE {}) : Replay(h).ok <=> IsHistory(h)

\* Until a caller appends an execution it should not have, the pointer that is
\* kept beside the log is the one the log explains, and the next operation is
\* accepted.
WrittenIsReplayed ==
  (\A i \in 2..Len(log) : log[i].type = "Applied" => Explained(log, i)) =>
    State.ok /\ State.pointer = pointer
=============================================================================
