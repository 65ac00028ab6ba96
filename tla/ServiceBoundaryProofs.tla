------------------------ MODULE ServiceBoundaryProofs ------------------------
(***************************************************************************)
(* Proofs about ServiceBoundary for any number of calls, keys, names and   *)
(* domain packs, repeated, concurrent and dying in any way.                *)
(***************************************************************************)
EXTENDS ServiceBoundary, SequenceTheorems, TLAPS

\* The calls that own the row of their key: they committed its intent and have
\* not written their outcome into it.
Busy(c) == call[c].pc \in {"create", "inside", "save", "finish"}

Ended(c) == call[c].pc \in {"audit", "append", "reply", "replied"}

Verdicts == {"SUCCEEDED", "FAILED"}

Received == \A c \in Calls : call[c].pc # "new" => call[c].body \in Bodies

\* At most one call owns the row of a key, and the row says so.
OneBusy == \A c, d \in Calls :
    Busy(c) /\ Busy(d) /\ Key(c) = Key(d) /\ Key(c) # None => c = d

BusyRow == \A c \in Calls : Busy(c) /\ Key(c) # None =>
    requests[Key(c)] = [digest |-> call[c].body, status |-> "RECOVERY_REQUIRED"]

Entries ==
    /\ \A k \in Keys : /\ entered[k] \in {0, 1}
                       /\ requests[k].status = "ABSENT" => entered[k] = 0
    /\ \A c \in Calls : At(c, "create") /\ Key(c) # None => entered[Key(c)] = 0

\* A call that ended with a verdict found it in the row of its key or left it there.
RowIsAnswer == \A c \in Calls :
    Ended(c) /\ Key(c) # None /\ call[c].outcome \in Verdicts =>
        requests[Key(c)] = [digest |-> call[c].body, status |-> call[c].outcome]

Settled == \A c \in Calls :
    /\ call[c].pc \in {"new", "intent", "create", "inside", "save"} =>
         call[c].outcome = None
    /\ At(c, "finish") => Key(c) # None /\ call[c].outcome \in Verdicts
    /\ Ended(c) => call[c].outcome \in Outcomes
    /\ At(c, "intent") => Key(c) # None

CatalogHeld == \A c \in Calls : call[c].pc \in {"inside", "save"} <=> locks.catalog = c

\* The name that was free when the lock was taken is free when it is saved.
NewName == \A c \in Calls : At(c, "save") => projects[Name(c)] = None

Truth == \A c \in Calls : call[c].outcome = "SUCCEEDED" => projects[Name(c)] = Pack(c)

RowTruth == \A k \in Keys : requests[k].status = "SUCCEEDED" =>
    /\ requests[k].digest \in Bodies
    /\ projects[requests[k].digest[1]] = requests[k].digest[2]

\* What can still become of the call that founded a project, and of its key.
KnownAs(n, f) ==
    /\ projects[n] # None
    /\ call[f].pc \in {"finish", "audit", "append", "reply", "replied", "dead"}
    /\ call[f].outcome # "FAILED"
    /\ Key(f) # None =>
         /\ requests[Key(f)].status \in {"RECOVERY_REQUIRED", "SUCCEEDED"}
         /\ \A c \in Calls : Busy(c) /\ Key(c) = Key(f) =>
              At(c, "finish") /\ call[c].outcome = "SUCCEEDED"

FounderKnown == \A n \in Names : founder[n] # None => KnownAs(n, founder[n])

\* The inductive invariant.  EnteredOnce and AnswersAgree rest on BusyRow and
\* RowIsAnswer: without them nothing relates the row of a key to the calls in
\* progress under it.  AnswersAreTrue needs the catalog as well.
Keyed == Received /\ OneBusy /\ BusyRow /\ Entries /\ RowIsAnswer /\ Settled
Founding == CatalogHeld /\ NewName /\ Truth /\ RowTruth /\ FounderKnown

\* The writer read the tail it extends, and only an undamaged one.
TailRead ==
    /\ \A c \in Calls : At(c, "append") <=> locks.audit = c
    /\ \A c \in Calls : At(c, "append") => call[c].prev = Len(log) /\ ~DamagedTail
    /\ cut => log # <<>> /\ ~DamagedTail

Damaged == \E i \in DOMAIN log : log[i] = Garbled

\* An acknowledged record is in the file, or the file shows its damage.
Recorded == \A c \in Calls :
    /\ call[c].audited => Damaged \/ \E i \in DOMAIN log : log[i] = Line(c)
    /\ call[c].audited => call[c].pc \in {"reply", "replied", "dead"}
    /\ call[c].pc \in {"reply", "replied"} /\ call[c].outcome \in Verdicts =>
         call[c].audited

Auditing == TailRead /\ AuditChain /\ Recorded

BInv == STypeOK /\ Keyed /\ Founding /\ Auditing

USE BoundaryAssumption DEF Outcomes, Bodies, Verdicts

-----------------------------------------------------------------------------
(* Types.                                                                  *)

\* What changes when the thread of one call moves.
Others(c) == \A d \in Calls : d # c => call'[d] = call[d]
Same(c) == call'[c].key = call[c].key /\ call'[c].body = call[c].body
SameLine(c) == call'[c].prev = call[c].prev /\ call'[c].audited = call[c].audited

PCs == {"new", "intent", "create", "inside", "save", "finish", "audit", "append",
        "reply", "replied", "dead"}

LEMMA GotoMoves ==
    ASSUME call \in [Calls -> Threads], NEW c \in Calls, NEW pc \in PCs, Goto(c, pc)
    PROVE  /\ call' \in [Calls -> Threads]
           /\ Others(c) /\ Same(c) /\ SameLine(c)
           /\ call'[c].pc = pc /\ call'[c].outcome = call[c].outcome
<1> DEFINE t == [call[c] EXCEPT !.pc = pc]
<1>1. t \in Threads
  BY DEF Threads, PCs
<1>2. call' = [call EXCEPT ![c] = t]
  BY DEF Goto
<1>3. /\ t.pc = pc /\ t.outcome = call[c].outcome /\ t.key = call[c].key
      /\ t.body = call[c].body /\ t.prev = call[c].prev /\ t.audited = call[c].audited
  BY DEF Threads
<1> HIDE DEF t
<1> QED
  BY <1>1, <1>2, <1>3 DEF Others, Same, SameLine

LEMMA SettleMoves ==
    ASSUME call \in [Calls -> Threads], NEW c \in Calls, NEW outcome \in Outcomes,
           NEW pc \in PCs, Settle(c, outcome, pc)
    PROVE  /\ call' \in [Calls -> Threads]
           /\ Others(c) /\ Same(c) /\ SameLine(c)
           /\ call'[c].pc = pc /\ call'[c].outcome = outcome
<1> DEFINE u == [call[c] EXCEPT !.outcome = outcome]
           t == [u EXCEPT !.pc = pc]
<1>1. u \in Threads
  BY DEF Threads
<1>2. t \in Threads
  BY <1>1 DEF Threads, PCs
<1>3. call' = [call EXCEPT ![c] = t]
  BY DEF Settle
<1>4. /\ t.pc = pc /\ t.outcome = outcome /\ t.key = call[c].key
      /\ t.body = call[c].body /\ t.prev = call[c].prev /\ t.audited = call[c].audited
  BY DEF Threads
<1> HIDE DEF t
<1> QED
  BY <1>2, <1>3, <1>4 DEF Others, Same, SameLine

LEMMA WithTyped ==
    ASSUME log \in Seq(Lines \cup {Garbled}), cut => log # <<>>,
           NEW line \in Lines \cup {Garbled}
    PROVE  /\ With(line) \in Seq(Lines \cup {Garbled})
           /\ cut => /\ Len(With(line)) = Len(log)
                     /\ With(line)[Len(log)] = Garbled
                     /\ \A i \in 1..Len(log) : i # Len(log) => With(line)[i] = log[i]
           /\ ~cut => With(line) = Append(log, line)
<1>1. CASE cut
  <2>1. Len(log) \in Nat \ {0}
    BY <1>1
  <2>2. Front(log) = SubSeq(log, 1, Len(log) - 1)
    BY <1>1, <2>1 DEF Front
  <2> DEFINE S == Lines \cup {Garbled}
             n == Len(log) - 1
  <2>3. n \in Int /\ 1 \in Int /\ \A i \in 1..n : log[i] \in S
    BY <2>1
  <2>4. /\ SubSeq(log, 1, n) \in Seq(S)
        /\ Len(SubSeq(log, 1, n)) = IF 1 <= n THEN n - 1 + 1 ELSE 0
        /\ \A i \in 1..(n - 1 + 1) : SubSeq(log, 1, n)[i] = log[1 + i - 1]
    <3> HIDE DEF S, n
    <3> QED BY <2>3, SubSeqProperties
  <2>5. n \in Nat /\ n - 1 + 1 = n /\ n + 1 = Len(log) /\ \A i \in 1..n : 1 + i - 1 = i
    BY <2>1
  <2>6. Len(SubSeq(log, 1, n)) = n
    <3> HIDE DEF S, n
    <3> QED BY <2>4, <2>5
  <2>7. \A i \in 1..n : SubSeq(log, 1, n)[i] = log[i]
    <3> HIDE DEF S, n
    <3> QED BY <2>4, <2>5
  <2> DEFINE f == SubSeq(log, 1, n)
  <2>8. With(line) = Append(f, Garbled)
    BY <1>1, <2>2 DEF With
  <2>9. f \in Seq(S) /\ Garbled \in S
    BY <2>4
  <2> HIDE DEF S, f
  <2>10. /\ Append(f, Garbled) \in Seq(S)
         /\ Len(Append(f, Garbled)) = Len(f) + 1
         /\ Append(f, Garbled)[Len(f) + 1] = Garbled
         /\ \A i \in 1..Len(f) : Append(f, Garbled)[i] = f[i]
    BY <2>9, AppendProperties
  <2>11. Len(f) = n /\ \A i \in 1..n : f[i] = log[i]
    BY <2>6, <2>7 DEF f
  <2>12. \A i \in 1..Len(log) : i # Len(log) => i \in 1..n
    BY <2>1
  <2> QED
    BY <1>1, <2>5, <2>8, <2>10, <2>11, <2>12 DEF S
<1>2. CASE ~cut
  BY <1>2 DEF With
<1> QED
  BY <1>1, <1>2

-----------------------------------------------------------------------------
(* Steps that leave the tables alone.                                      *)

\* The row of a key and its owner, when a call runs on without touching a row.
LEMMA KeyedRuns ==
    ASSUME Keyed, NEW c \in Calls, Others(c), Same(c),
           UNCHANGED <<requests, entered>>,
           ~At(c, "new"), call'[c].pc \notin {"new", "intent", "create"},
           Busy(c)' => Busy(c),
           call'[c].pc \in {"inside", "save"} => call'[c].outcome = None,
           call'[c].pc = "finish" => Key(c) # None /\ call'[c].outcome \in Verdicts,
           Ended(c)' => \/ Key(c) = None
                        \/ call'[c].outcome \notin Verdicts
                        \/ Ended(c) /\ call'[c].outcome = call[c].outcome
                        \/ requests[Key(c)] = [digest |-> call[c].body,
                                               status |-> call'[c].outcome],
           Ended(c)' => call'[c].outcome \in Outcomes
    PROVE  Keyed'
<1> USE DEF Others, Same, At, Key
<1>1. Received'
  BY DEF Keyed, Received
<1>2. OneBusy'
  BY DEF Keyed, OneBusy, Busy
<1>3. BusyRow'
  BY DEF Keyed, BusyRow, Busy
<1>4. Entries'
  BY DEF Keyed, Entries
<1>5. RowIsAnswer'
  BY DEF Keyed, RowIsAnswer, Ended
<1>6. Settled'
  BY DEF Keyed, Settled, Ended
<1> QED
  BY <1>1, <1>2, <1>3, <1>4, <1>5, <1>6 DEF Keyed

\* The catalog, when a call runs on without touching the catalog or a row.
LEMMA FoundingRuns ==
    ASSUME STypeOK, Founding, NEW c \in Calls, Others(c), Same(c),
           UNCHANGED <<requests, projects, founder>>,
           CatalogHeld',
           Busy(c)' => Busy(c), At(c, "finish") => ~Busy(c)',
           call'[c].pc = "save" => projects[Name(c)] = None,
           call'[c].outcome = "SUCCEEDED" =>
             call[c].outcome = "SUCCEEDED" \/ projects[Name(c)] = Pack(c),
           call[c].pc \in {"finish", "audit", "append", "reply", "replied", "dead"} =>
             /\ call'[c].pc \in {"audit", "append", "reply", "replied", "dead"}
             /\ call'[c].outcome = "FAILED" => call[c].outcome = "FAILED"
    PROVE  Founding'
<1> USE DEF Others, Same, At, Key, Name, Pack, KnownAs
<1>1. NewName'
  BY DEF Founding, NewName
<1>2. Truth'
  BY DEF Founding, Truth
<1>3. RowTruth'
  BY DEF Founding, RowTruth
<1>4. FounderKnown'
  <2> SUFFICES ASSUME NEW n \in Names, founder[n] # None
               PROVE  KnownAs(n, founder[n])'
    BY DEF FounderKnown
  <2> DEFINE f == founder[n]
  <2>1. f \in Calls /\ f' = f
    BY DEF STypeOK
  <2>2. f # None /\ KnownAs(n, f)
    BY DEF Founding, FounderKnown
  <2> HIDE DEF f
  <2>3. /\ call'[f].pc \in {"finish", "audit", "append", "reply", "replied", "dead"}
        /\ call'[f].outcome # "FAILED" /\ call'[f].key = call[f].key
    BY <2>1, <2>2
  <2>4. ASSUME NEW d \in Calls, Busy(d)', call'[d].key = call[f].key, Key(f) # None
        PROVE  call'[d].pc = "finish" /\ call'[d].outcome = "SUCCEEDED"
    BY <2>2, <2>4 DEF Busy
  <2>5. /\ projects'[n] # None
        /\ call'[f].key # None => requests'[call'[f].key].status \in
                                     {"RECOVERY_REQUIRED", "SUCCEEDED"}
    BY <2>2, <2>3
  <2> QED
    BY <2>1, <2>3, <2>4, <2>5 DEF f
<1> QED
  BY <1>1, <1>2, <1>3, <1>4 DEF Founding

\* The audit file, when a call runs on that has nothing to do with it.
LEMMA AuditRuns ==
    ASSUME STypeOK, Auditing, NEW c \in Calls, Others(c), SameLine(c),
           UNCHANGED <<log, cut>>, locks'.audit = locks.audit,
           ~At(c, "append"), call'[c].pc # "append",
           call'[c].outcome # call[c].outcome => ~call[c].audited,
           call[c].audited => call'[c].pc \in {"reply", "replied", "dead"},
           call'[c].pc \in {"reply", "replied"} =>
             \/ call'[c].outcome \notin Verdicts
             \/ At(c, "reply") /\ call'[c].outcome = call[c].outcome
    PROVE  Auditing'
<1> USE DEF Others, SameLine, At
<1>1. TailRead'
  BY DEF Auditing, TailRead, DamagedTail
<1>2. AuditChain'
  BY DEF Auditing, AuditChain
<1>3. \A d \in Calls : call[d].audited => Line(d)' = Line(d)
  BY DEF Line
<1>4. Recorded'
  BY <1>3 DEF Auditing, Recorded, Damaged
<1> QED
  BY <1>1, <1>2, <1>4 DEF Auditing


-----------------------------------------------------------------------------
(* Steps that change the catalog, and steps that write the audit file.     *)

\* The catalog, when a new name is put in it.
LEMMA FoundingSaves ==
    ASSUME STypeOK, Keyed, Founding, NEW c \in Calls, Others(c), Same(c),
           At(c, "save"), Founded(c), UNCHANGED requests, CatalogHeld',
           call'[c].pc \in {"finish", "audit", "reply"},
           call'[c].outcome # "FAILED",
           call'[c].pc = "finish" => call'[c].outcome = "SUCCEEDED"
    PROVE  Founding'
<1> USE DEF Others, Same, At, Key, Name, Pack, KnownAs
<1>1. /\ call[c].body \in Bodies /\ call[c].body[1] \in Names /\ call[c].body[2] \in Packs
      /\ projects[call[c].body[1]] = None
      /\ projects' = [projects EXCEPT ![call[c].body[1]] = call[c].body[2]]
      /\ founder' = [founder EXCEPT ![call[c].body[1]] = c]
  BY DEF Keyed, Received, Founding, NewName, Founded
<1>2. \A n \in Names, p \in Packs : projects[n] = p => projects'[n] = p
  BY <1>1 DEF STypeOK
<1>3. NewName'
  <2> SUFFICES ASSUME NEW d \in Calls, call'[d].pc = "save"
               PROVE  FALSE
    BY DEF NewName
  <2> QED
    BY DEF Founding, CatalogHeld
<1>4. Truth'
  <2> SUFFICES ASSUME NEW d \in Calls, call'[d].outcome = "SUCCEEDED"
               PROVE  projects'[call'[d].body[1]] = call'[d].body[2]
    BY DEF Truth
  <2>1. CASE d = c
    BY <1>1, <2>1 DEF STypeOK
  <2>2. CASE d # c
    <3>1. call[d].outcome = "SUCCEEDED" /\ call[d].body \in Bodies
      BY <2>2 DEF Keyed, Received, Settled
    <3> QED
      BY <1>2, <2>2, <3>1 DEF Founding, Truth
  <2> QED
    BY <2>1, <2>2
<1>5. RowTruth'
  <2> SUFFICES ASSUME NEW k \in Keys, requests[k].status = "SUCCEEDED"
               PROVE  /\ requests[k].digest \in Bodies
                      /\ projects'[requests[k].digest[1]] = requests[k].digest[2]
    BY DEF RowTruth
  <2> QED
    BY <1>2 DEF Founding, RowTruth
<1>6. FounderKnown'
  <2> SUFFICES ASSUME NEW n \in Names, founder'[n] # None
               PROVE  KnownAs(n, founder[n])'
    BY DEF FounderKnown
  <2>1. CASE n = call[c].body[1]
    <3>1. founder'[n] = c /\ projects'[n] # None
      BY <1>1, <2>1 DEF STypeOK
    <3>2. ASSUME call[c].key # None
          PROVE  requests[call[c].key].status = "RECOVERY_REQUIRED"
      <4>1. Busy(c)
        BY DEF Busy
      <4>2. requests[call[c].key] =
              [digest |-> call[c].body, status |-> "RECOVERY_REQUIRED"]
        BY <3>2, <4>1 DEF Keyed, BusyRow
      <4> QED
        BY <4>2
    <3>3. ASSUME call[c].key # None, NEW d \in Calls, Busy(d)', call'[d].key = call[c].key
          PROVE  call'[d].pc = "finish" /\ call'[d].outcome = "SUCCEEDED"
      <4>1. Busy(d) /\ Busy(c) /\ call[d].key = call[c].key
        BY <3>3 DEF Busy
      <4>2. d = c
        BY <3>3, <4>1 DEF Keyed, OneBusy
      <4> QED
        BY <3>3, <4>2 DEF Busy
    <3> QED
      BY <3>1, <3>2, <3>3
  <2>2. CASE n # call[c].body[1]
    <3> DEFINE f == founder[n]
    <3>1. f \in Calls /\ founder'[n] = f /\ f # None /\ projects'[n] = projects[n]
      BY <1>1, <2>2 DEF STypeOK
    <3>2. f # None /\ KnownAs(n, f)
      BY <3>1 DEF Founding, FounderKnown
    <3> HIDE DEF f
    <3>3. f # c /\ call'[f] = call[f]
      BY <3>1, <3>2
    <3>4. ASSUME NEW d \in Calls, Busy(d)', call'[d].key = call[f].key, call[f].key # None
          PROVE  call'[d].pc = "finish" /\ call'[d].outcome = "SUCCEEDED"
      <4>1. d # c
        BY <3>2, <3>4 DEF Busy
      <4> QED
        BY <3>2, <3>4, <4>1 DEF Busy
    <3> QED
      BY <3>1, <3>2, <3>3, <3>4
  <2> QED
    BY <2>1, <2>2
<1> QED
  BY <1>3, <1>4, <1>5, <1>6 DEF Founding

\* The audit file, when the holder of its lock writes the record, part of it, or nothing.
LEMMA AppendEnds ==
    ASSUME STypeOK, Settled, Auditing, NEW c \in Calls, At(c, "append"), Others(c),
           call'[c].prev = call[c].prev,
           \/ log' = With(Line(c)) /\ cut' = FALSE
           \/ PartOf(c)
           \/ UNCHANGED <<log, cut>>,
           locks'.audit = None, call'[c].pc \in {"reply", "dead"},
           call'[c].audited => /\ log' = With(Line(c)) /\ ~cut'
                               /\ call'[c].outcome = call[c].outcome,
           call'[c].pc = "reply" /\ call'[c].outcome \in Verdicts => call'[c].audited
    PROVE  /\ Auditing'
           /\ log' \in Seq(Lines \cup {Garbled}) /\ cut' \in BOOLEAN
<1> USE DEF Others, At
<1> DEFINE n == Len(log)
<1>1. /\ log \in Seq(Lines \cup {Garbled}) /\ n \in Nat
      /\ call[c].prev = n /\ locks.audit = c /\ ~DamagedTail
      /\ cut => log # <<>>
  BY DEF STypeOK, Auditing, TailRead
<1>2. \A i \in 1..n : log[i] # Garbled /\ log[i].prev = i - 1
  BY <1>1 DEF Auditing, AuditChain, DamagedTail
<1>3. Line(c) \in Lines /\ Line(c).prev = n /\ Line(c) # Garbled
  <2>1. call[c].outcome \in Outcomes
    BY DEF Settled, Ended
  <2> QED
    BY <1>1, <2>1 DEF Line, Lines
<1>4. \A d \in Calls : d # c => Line(d)' = Line(d)
  BY DEF Line
<1>5. \A d \in Calls : call[d].audited => d # c /\ \E i \in 1..n : log[i] = Line(d)
  BY <1>1, <1>2 DEF Auditing, Recorded, Damaged
<1>6. TailRead' <=> (cut' => log' # <<>> /\ ~DamagedTail')
  <2>1. \A d \in Calls : call'[d].pc # "append"
    BY <1>1 DEF Auditing, TailRead
  <2> QED
    BY <2>1 DEF TailRead
<1> HIDE DEF n
<1>7. CASE ~cut /\ \/ log' = Append(log, Line(c))
                   \/ log' = Append(log, Garbled) /\ ~cut' /\ log' # With(Line(c))
  <2> DEFINE S == Lines \cup {Garbled}
  <2>1. PICK line \in S :
          /\ log' = Append(log, line)
          /\ line \in {Line(c), Garbled}
          /\ line = Garbled => ~cut' /\ log' # With(Line(c))
    BY <1>3, <1>7
  <2>2. /\ log' \in Seq(S) /\ Len(log') = n + 1 /\ DOMAIN log' = 1..(n + 1)
        /\ log'[n + 1] = line /\ \A i \in 1..n : log'[i] = log[i]
    BY <1>1, <2>1 DEF n
  <2>3. cut' \in BOOLEAN
    BY DEF PartOf, STypeOK
  <2>4. AuditChain'
    BY <1>1, <1>2, <1>3, <2>1, <2>2 DEF AuditChain
  <2>5. TailRead'
    BY <1>1, <1>3, <1>6, <2>1, <2>2 DEF DamagedTail
  <2>6. Recorded'
    <3>1. ASSUME NEW d \in Calls, call'[d].audited
          PROVE  \E i \in DOMAIN log' : log'[i] = Line(d)'
      <4>1. CASE d = c
        <5>1. Line(c)' = Line(c)
          BY <3>1, <4>1 DEF Line
        <5>2. line = Line(c)
          BY <3>1, <4>1, <2>1
        <5> QED
          BY <1>1, <2>2, <4>1, <5>1, <5>2
      <4>2. CASE d # c
        BY <1>1, <1>4, <1>5, <2>2, <3>1, <4>2
      <4> QED
        BY <4>1, <4>2
    <3>2. \A d \in Calls : d # c => /\ call[d].audited =>
                                          call[d].pc \in {"reply", "replied", "dead"}
                                    /\ call[d].pc \in {"reply", "replied"}
                                         /\ call[d].outcome \in Verdicts =>
                                            call[d].audited
      BY DEF Auditing, Recorded
    <3> QED
      BY <3>1, <3>2 DEF Recorded
  <2> QED
    BY <2>2, <2>3, <2>4, <2>5, <2>6 DEF Auditing
<1>8. CASE cut /\ cut' = FALSE /\ \E line \in Lines \cup {Garbled} : log' = With(line)
  <2>1. PICK line \in Lines \cup {Garbled} : log' = With(line)
    BY <1>8
  <2>2. /\ log' \in Seq(Lines \cup {Garbled}) /\ Len(log') = n /\ log'[n] = Garbled
        /\ \A i \in 1..n : i # n => log'[i] = log[i]
    BY <1>1, <1>8, <2>1, WithTyped DEF n
  <2>3. n \in 1..n /\ DOMAIN log' = 1..n
    BY <1>1, <1>8, <2>2 DEF n
  <2>4. Damaged'
    BY <2>2, <2>3 DEF Damaged
  <2>5. AuditChain'
    <3> SUFFICES ASSUME NEW i \in 1..n
                 PROVE  IF log'[i] = Garbled THEN i = n ELSE log'[i].prev = i - 1
      BY <2>2, <2>3 DEF AuditChain
    <3> QED
      BY <1>2, <2>2
  <2>6. Recorded'
    BY <2>4 DEF Auditing, Recorded
  <2> QED
    BY <1>6, <1>8, <2>2, <2>5, <2>6 DEF Auditing
<1>9. CASE UNCHANGED <<log, cut>> /\ ~call'[c].audited
  <2>1. TailRead'
    BY <1>1, <1>6, <1>9 DEF DamagedTail, Auditing, TailRead
  <2>2. AuditChain'
    BY <1>9 DEF Auditing, AuditChain
  <2>3. Recorded'
    BY <1>4, <1>9 DEF Auditing, Recorded, Damaged
  <2> QED
    BY <1>1, <1>9, <2>1, <2>2, <2>3 DEF Auditing, STypeOK
<1> QED
  BY <1>3, <1>7, <1>8, <1>9 DEF PartOf, With, STypeOK


-----------------------------------------------------------------------------
(* The idempotency table: each of its steps keeps the invariant.           *)

LEMMA ReceiveKeeps ==
    ASSUME BInv, NEW c \in Calls, NEW k \in Keys \cup {None}, NEW b \in Bodies,
           Receive(c, k, b)
    PROVE  BInv'
<1> DEFINE pc == IF k = None THEN "create" ELSE "intent"
           u == [call[c] EXCEPT !.key = k]
           v == [u EXCEPT !.body = b]
           t == [v EXCEPT !.pc = pc]
<1>1. t \in Threads /\ call' = [call EXCEPT ![c] = t]
  <2>1. u \in Threads
    <3>1. call[c] \in Threads
      BY DEF BInv, STypeOK
    <3> QED BY <3>1 DEF Threads
  <2>2. v \in Threads
    BY <2>1 DEF Threads
  <2>3. t \in Threads
    BY <2>2 DEF Threads
  <2> QED
    BY <2>3 DEF Receive, BInv, STypeOK
<1>2. /\ call' \in [Calls -> Threads] /\ Others(c) /\ SameLine(c)
      /\ call'[c].key = k /\ call'[c].body = b
      /\ call'[c].pc = pc /\ call'[c].outcome = call[c].outcome
  <2>1. /\ t.key = k /\ t.body = b /\ t.pc = pc /\ t.outcome = call[c].outcome
        /\ t.prev = call[c].prev /\ t.audited = call[c].audited
    <3>1. call[c] \in Threads
      BY DEF BInv, STypeOK
    <3> HIDE DEF pc
    <3> QED BY <3>1 DEF Threads
  <2> HIDE DEF t, pc
  <2> QED
    BY <1>1, <2>1 DEF BInv, STypeOK, Others, SameLine
<1>3. /\ UNCHANGED <<requests, entered, dirs, projects, founder, locks, log, cut>>
      /\ call[c].pc = "new" /\ call[c].outcome = None
  BY DEF Receive, At, BInv, Keyed, Settled
<1>4. STypeOK'
  BY <1>2, <1>3 DEF BInv, STypeOK
<1> USE DEF At, Key, Name, Pack
<1>5. Keyed'
  <2>1. Received'
    BY <1>2, <1>3 DEF BInv, Keyed, Received, Others
  <2>2. OneBusy'
    BY <1>2, <1>3 DEF BInv, Keyed, OneBusy, Busy, Others
  <2>3. BusyRow'
    BY <1>2, <1>3 DEF BInv, Keyed, BusyRow, Busy, Others
  <2>4. Entries'
    BY <1>2, <1>3 DEF BInv, Keyed, Entries, Others
  <2>5. RowIsAnswer' /\ Settled'
    BY <1>2, <1>3 DEF BInv, Keyed, RowIsAnswer, Settled, Ended, Others
  <2> QED
    BY <2>1, <2>2, <2>3, <2>4, <2>5 DEF Keyed
<1>6. Founding'
  <2>1. CatalogHeld' /\ NewName'
    BY <1>2, <1>3 DEF BInv, Founding, CatalogHeld, NewName, Others
  <2>2. Truth' /\ RowTruth'
    BY <1>2, <1>3 DEF BInv, Founding, Truth, RowTruth, Others
  <2>3. FounderKnown'
    <3> SUFFICES ASSUME NEW n \in Names, founder[n] # None
                 PROVE  KnownAs(n, founder[n])'
      BY <1>3 DEF FounderKnown
    <3> DEFINE f == founder[n]
    <3>1. f \in Calls /\ f # None /\ f' = f /\ KnownAs(n, f)
      BY <1>3 DEF BInv, STypeOK, Founding, FounderKnown
    <3> HIDE DEF f
    <3>2. f # c /\ call'[f] = call[f]
      BY <1>2, <1>3, <3>1 DEF KnownAs, Others
    <3>3. ASSUME NEW d \in Calls, Busy(d)', call'[d].key = call[f].key, call[f].key # None
          PROVE  call'[d].pc = "finish" /\ call'[d].outcome = "SUCCEEDED"
      <4>1. d # c
        BY <1>2, <3>3 DEF Busy
      <4> QED
        BY <1>2, <3>1, <3>3, <4>1 DEF Busy, KnownAs, Others
    <3> QED
      BY <1>3, <3>1, <3>2, <3>3 DEF f, KnownAs
  <2> QED
    BY <2>1, <2>2, <2>3 DEF Founding
<1>7. Auditing'
  <2>1. ~call[c].audited /\ pc \notin {"append", "reply", "replied"}
    BY <1>3 DEF BInv, Auditing, Recorded
  <2> QED
    BY <1>2, <1>3, <2>1, AuditRuns DEF BInv
<1> QED
  BY <1>4, <1>5, <1>6, <1>7 DEF BInv

LEMMA RecordIntentKeeps ==
    ASSUME BInv, NEW c \in Calls, RecordIntent(c)
    PROVE  BInv'
<1>1. /\ At(c, "intent") /\ ~Answered(requests[Key(c)]) /\ Goto(c, "create")
      /\ UNCHANGED <<entered, dirs, projects, founder, locks, log, cut>>
  BY DEF RecordIntent
<1>2. /\ call' \in [Calls -> Threads] /\ Others(c) /\ Same(c) /\ SameLine(c)
      /\ call'[c].pc = "create" /\ call'[c].outcome = call[c].outcome
  BY <1>1, GotoMoves DEF BInv, STypeOK, PCs
<1> USE DEF At, Key, Name, Pack, KnownAs
<1> DEFINE k == call[c].key
           row == [digest |-> call[c].body, status |-> "RECOVERY_REQUIRED"]
<1>3. /\ call[c].body \in Bodies /\ call[c].outcome = None
      /\ k # None => k \in Keys /\ requests[k].status = "ABSENT" /\ requests'[k] = row
      /\ \A j \in Keys : j # k => requests'[j] = requests[j]
      /\ requests' \in [Keys -> Rows]
      /\ row.status = "RECOVERY_REQUIRED"
  <2>1. /\ call[c].body \in Bodies /\ call[c].outcome = None
        /\ k \in Keys \cup {None}
    BY <1>1 DEF BInv, STypeOK, Threads, Keyed, Received, Settled
  <2>2. row \in Rows /\ requests' = [requests EXCEPT ![k] = row]
        /\ requests[k].status = "ABSENT"
    BY <2>1 DEF Rows, RecordIntent, Answered
  <2> HIDE DEF row
  <2>3. requests' \in [Keys -> Rows] /\ (k \in Keys => requests'[k] = row)
        /\ \A j \in Keys : j # k => requests'[j] = requests[j]
    BY <2>2 DEF BInv, STypeOK
  <2> QED
    BY <2>1, <2>2, <2>3 DEF row
<1> HIDE DEF k, row
<1>4. STypeOK'
  BY <1>1, <1>2, <1>3 DEF BInv, STypeOK
<1>5. \A d \in Calls : /\ Busy(d) /\ Key(d) = k /\ k # None => FALSE
                       /\ Ended(d) /\ Key(d) = k /\ k # None =>
                            call[d].outcome \notin Verdicts
  <2>1. ASSUME NEW d \in Calls, Busy(d), Key(d) = k, k # None
        PROVE  FALSE
    <3>1. requests[k] = [digest |-> call[d].body, status |-> "RECOVERY_REQUIRED"]
      BY <2>1 DEF BInv, Keyed, BusyRow
    <3> QED
      BY <1>3, <2>1, <3>1
  <2>2. ASSUME NEW d \in Calls, Ended(d), Key(d) = k, k # None,
               call[d].outcome \in Verdicts
        PROVE  FALSE
    <3>1. requests[k] = [digest |-> call[d].body, status |-> call[d].outcome]
      BY <2>2 DEF BInv, Keyed, RowIsAnswer
    <3> QED
      BY <1>3, <2>2, <3>1
  <2> QED
    BY <2>1, <2>2
<1>6. Keyed'
  <2> USE DEF Others, Same
  <2>1. Received' /\ Settled'
    BY <1>1, <1>2 DEF BInv, Keyed, Received, Settled, Ended
  <2>2. OneBusy'
    BY <1>1, <1>2, <1>5 DEF BInv, Keyed, OneBusy, Busy, k
  <2>3. BusyRow'
    <3>1. ASSUME NEW d \in Calls, Busy(d)', call'[d].key # None
          PROVE  requests'[call'[d].key] =
                   [digest |-> call'[d].body, status |-> "RECOVERY_REQUIRED"]
      <4>1. CASE d = c
        BY <1>2, <1>3, <3>1, <4>1 DEF k, row
      <4>2. CASE d # c
        <5>1. Busy(d) /\ call'[d].key = call[d].key /\ call[d].key \in Keys
          BY <1>2, <3>1, <4>2 DEF Busy, BInv, STypeOK, Threads
        <5>2. call[d].key # k
          BY <1>5, <3>1, <5>1
        <5> QED
          BY <1>2, <1>3, <3>1, <4>2, <5>1, <5>2 DEF BInv, Keyed, BusyRow
      <4> QED
        BY <4>1, <4>2
    <3> QED
      BY <3>1 DEF BusyRow
  <2>4. Entries'
    <3>1. ASSUME NEW j \in Keys
          PROVE  /\ entered[j] \in {0, 1}
                 /\ requests'[j].status = "ABSENT" => entered[j] = 0
                 /\ j = k /\ k # None => entered[j] = 0
      BY <1>3 DEF BInv, Keyed, Entries
    <3>2. ASSUME NEW d \in Calls, call'[d].pc = "create", call'[d].key # None
          PROVE  entered[call'[d].key] = 0
      <4>1. CASE d = c
        BY <1>2, <1>3, <3>1, <3>2, <4>1 DEF k
      <4>2. CASE d # c
        BY <1>2, <3>2, <4>2 DEF BInv, Keyed, Entries
      <4> QED
        BY <4>1, <4>2
    <3> QED
      BY <1>1, <3>1, <3>2 DEF Entries
  <2>5. RowIsAnswer'
    <3>1. ASSUME NEW d \in Calls, Ended(d)', call'[d].key # None,
                 call'[d].outcome \in Verdicts
          PROVE  requests'[call'[d].key] =
                   [digest |-> call'[d].body, status |-> call'[d].outcome]
      <4>1. d # c /\ Ended(d) /\ call'[d] = call[d] /\ call[d].key \in Keys
        BY <1>2, <3>1 DEF Ended, BInv, STypeOK, Threads
      <4>2. call[d].key # k
        BY <1>5, <3>1, <4>1
      <4> QED
        BY <1>3, <3>1, <4>1, <4>2 DEF BInv, Keyed, RowIsAnswer
    <3> QED
      BY <3>1 DEF RowIsAnswer
  <2> QED
    BY <2>1, <2>2, <2>3, <2>4, <2>5 DEF Keyed
<1>7. Founding'
  <2> USE DEF Others, Same
  <2>1. CatalogHeld' /\ NewName' /\ Truth'
    BY <1>1, <1>2 DEF BInv, Founding, CatalogHeld, NewName, Truth
  <2>2. RowTruth'
    <3>1. ASSUME NEW j \in Keys, requests'[j].status = "SUCCEEDED"
          PROVE  requests'[j] = requests[j]
      BY <1>3, <3>1
    <3> QED
      BY <1>1, <3>1 DEF BInv, Founding, RowTruth
  <2>3. FounderKnown'
    <3> SUFFICES ASSUME NEW n \in Names, founder[n] # None
                 PROVE  KnownAs(n, founder[n])'
      BY <1>1 DEF FounderKnown
    <3> DEFINE f == founder[n]
    <3>1. f \in Calls /\ f' = f /\ projects' = projects
      BY <1>1 DEF BInv, STypeOK
    <3>2. f # None /\ KnownAs(n, f)
      BY DEF BInv, Founding, FounderKnown
    <3> HIDE DEF f
    <3>3. f # c /\ call'[f] = call[f] /\ call[f].key \in Keys \cup {None}
      BY <1>1, <1>2, <3>1, <3>2 DEF BInv, STypeOK, Threads
    <3>4. call[f].key # None => call[f].key # k /\ requests'[call[f].key] = requests[call[f].key]
      BY <1>3, <3>2, <3>3
    <3>5. ASSUME NEW d \in Calls, Busy(d)', call'[d].key = call[f].key, call[f].key # None
          PROVE  call'[d].pc = "finish" /\ call'[d].outcome = "SUCCEEDED"
      <4>1. d # c
        BY <1>2, <3>4, <3>5 DEF k
      <4> QED
        BY <1>2, <3>2, <3>5, <4>1 DEF Busy
    <3> QED
      BY <3>1, <3>2, <3>3, <3>4, <3>5 DEF f
  <2> QED
    BY <2>1, <2>2, <2>3 DEF Founding
<1>8. Auditing'
  <2>1. ~call[c].audited
    BY <1>1 DEF BInv, Auditing, Recorded
  <2> QED
    BY <1>1, <1>2, <2>1, AuditRuns DEF BInv
<1> QED
  BY <1>4, <1>6, <1>7, <1>8 DEF BInv

LEMMA AnswerSavedKeeps ==
    ASSUME BInv, NEW c \in Calls, AnswerSaved(c)
    PROVE  BInv'
<1> DEFINE k == call[c].key
           answer == SavedOutcome(c)
<1>1. /\ At(c, "intent") /\ Answered(requests[Key(c)]) /\ Settle(c, answer, "audit")
      /\ UNCHANGED <<requests, entered, dirs, projects, founder, locks, log, cut>>
  BY DEF AnswerSaved
<1>2. /\ answer \in Outcomes /\ k \in Keys
      /\ answer \in Verdicts => requests[k] = [digest |-> call[c].body, status |-> answer]
  <2>1. k \in Keys /\ requests[k] \in Rows
    BY <1>1 DEF BInv, STypeOK, Threads, Keyed, Settled, At, Key
  <2>2. CASE requests[k].digest # call[c].body
    BY <2>1, <2>2 DEF SavedOutcome, Key
  <2>3. CASE requests[k].digest = call[c].body
    <3>1. answer = requests[k].status /\ answer # "ABSENT"
      BY <1>1, <2>3 DEF SavedOutcome, Key, Answered
    <3>2. requests[k] = [digest |-> requests[k].digest, status |-> requests[k].status]
      BY <2>1 DEF Rows
    <3> HIDE DEF answer
    <3> QED
      BY <2>1, <2>3, <3>1, <3>2 DEF Rows
  <2> QED
    BY <2>2, <2>3
<1> HIDE DEF k, answer
<1>3. /\ call' \in [Calls -> Threads] /\ Others(c) /\ Same(c) /\ SameLine(c)
      /\ call'[c].pc = "audit" /\ call'[c].outcome = answer
  BY <1>1, <1>2, SettleMoves DEF BInv, STypeOK, PCs
<1>4. STypeOK'
  BY <1>1, <1>3 DEF BInv, STypeOK
<1> USE DEF At, Key
<1>5. Keyed'
  <2>1. Ended(c)' => \/ answer \notin Verdicts
                     \/ requests[Key(c)] = [digest |-> call[c].body, status |-> answer]
    BY <1>2 DEF k
  <2> QED
    BY <1>1, <1>2, <1>3, <2>1, KeyedRuns DEF BInv, Busy
<1>6. Founding'
  <2>1. answer = "SUCCEEDED" => projects[Name(c)] = Pack(c)
    BY <1>2 DEF BInv, Founding, RowTruth, Name, Pack
  <2>2. CatalogHeld'
    BY <1>1, <1>3 DEF BInv, Founding, CatalogHeld, Others
  <2> QED
    BY <1>1, <1>3, <2>1, <2>2, FoundingRuns DEF BInv, Busy
<1>7. Auditing'
  <2>1. ~call[c].audited
    BY <1>1 DEF BInv, Auditing, Recorded
  <2> QED
    BY <1>1, <1>3, <2>1, AuditRuns DEF BInv
<1> QED
  BY <1>4, <1>5, <1>6, <1>7 DEF BInv

LEMMA FinishKeeps ==
    ASSUME BInv, NEW c \in Calls, Finish(c)
    PROVE  BInv'
<1> DEFINE k == call[c].key
           row == [digest |-> call[c].body, status |-> call[c].outcome]
<1>1. /\ At(c, "finish") /\ Goto(c, "audit")
      /\ UNCHANGED <<entered, dirs, projects, founder, locks, log, cut>>
  BY DEF Finish
<1>2. /\ call' \in [Calls -> Threads] /\ Others(c) /\ Same(c) /\ SameLine(c)
      /\ call'[c].pc = "audit" /\ call'[c].outcome = call[c].outcome
  BY <1>1, GotoMoves DEF BInv, STypeOK, PCs
<1> USE DEF At, Key, Name, Pack, KnownAs
<1>3. /\ call[c].body \in Bodies /\ call[c].outcome \in Verdicts /\ k \in Keys
      /\ requests[k] = [digest |-> call[c].body, status |-> "RECOVERY_REQUIRED"]
  BY <1>1 DEF BInv, STypeOK, Threads, Keyed, Received, Settled, BusyRow, Busy
<1>4. /\ requests' \in [Keys -> Rows] /\ requests'[k] = row
      /\ \A j \in Keys : j # k => requests'[j] = requests[j]
      /\ row.status = call[c].outcome /\ row.digest = call[c].body
  <2>1. [requests[k] EXCEPT !.status = call[c].outcome] = row
    <3> HIDE DEF k
    <3> QED BY <1>3
  <2>2. requests' = [requests EXCEPT ![k] = row]
    BY <2>1 DEF Finish
  <2>3. row \in Rows
    BY <1>3 DEF Rows
  <2>4. row.status = call[c].outcome /\ row.digest = call[c].body
    OBVIOUS
  <2> HIDE DEF row, k
  <2> QED
    BY <1>3, <2>2, <2>3, <2>4 DEF BInv, STypeOK
<1> HIDE DEF k, row
<1>5. STypeOK'
  BY <1>1, <1>2, <1>4 DEF BInv, STypeOK
<1>6. \A d \in Calls : /\ Busy(d) /\ Key(d) = k => d = c
                       /\ Ended(d) /\ Key(d) = k => call[d].outcome \notin Verdicts
  <2>1. Busy(c) /\ k # None
    BY <1>1, <1>3 DEF Busy
  <2>2. ASSUME NEW d \in Calls, Ended(d), Key(d) = k, call[d].outcome \in Verdicts
        PROVE  FALSE
    <3>1. requests[k] = [digest |-> call[d].body, status |-> call[d].outcome]
      BY <2>1, <2>2 DEF BInv, Keyed, RowIsAnswer
    <3> QED
      BY <1>3, <2>2, <3>1
  <2> QED
    BY <2>1, <2>2 DEF BInv, Keyed, OneBusy, k
<1>7. Keyed'
  <2> USE DEF Others, Same
  <2>1. Received' /\ Settled'
    BY <1>1, <1>2, <1>3 DEF BInv, Keyed, Received, Settled, Ended
  <2>2. OneBusy'
    BY <1>1, <1>2 DEF BInv, Keyed, OneBusy, Busy
  <2>3. BusyRow'
    <3>1. ASSUME NEW d \in Calls, Busy(d)', call'[d].key # None
          PROVE  requests'[call'[d].key] =
                   [digest |-> call'[d].body, status |-> "RECOVERY_REQUIRED"]
      <4>1. d # c /\ Busy(d) /\ call'[d] = call[d] /\ call[d].key \in Keys
        BY <1>2, <3>1 DEF Busy, BInv, STypeOK, Threads
      <4>2. call[d].key # k
        BY <1>6, <4>1
      <4> QED
        BY <1>4, <3>1, <4>1, <4>2 DEF BInv, Keyed, BusyRow
    <3> QED
      BY <3>1 DEF BusyRow
  <2>4. Entries'
    <3>1. ASSUME NEW j \in Keys
          PROVE  /\ entered[j] \in {0, 1}
                 /\ requests'[j].status = "ABSENT" => entered[j] = 0
      BY <1>3, <1>4 DEF BInv, Keyed, Entries
    <3> QED
      BY <1>1, <1>2, <3>1 DEF BInv, Keyed, Entries
  <2>5. RowIsAnswer'
    <3>1. ASSUME NEW d \in Calls, Ended(d)', call'[d].key # None,
                 call'[d].outcome \in Verdicts
          PROVE  requests'[call'[d].key] =
                   [digest |-> call'[d].body, status |-> call'[d].outcome]
      <4>1. CASE d = c
        BY <1>2, <1>4, <4>1 DEF k, row
      <4>2. CASE d # c
        <5>1. Ended(d) /\ call'[d] = call[d] /\ call[d].key \in Keys
          BY <1>2, <3>1, <4>2 DEF Ended, BInv, STypeOK, Threads
        <5>2. call[d].key # k
          BY <1>6, <3>1, <5>1
        <5> QED
          BY <1>4, <3>1, <5>1, <5>2 DEF BInv, Keyed, RowIsAnswer
      <4> QED
        BY <4>1, <4>2
    <3> QED
      BY <3>1 DEF RowIsAnswer
  <2> QED
    BY <2>1, <2>2, <2>3, <2>4, <2>5 DEF Keyed
<1>8. Founding'
  <2> USE DEF Others, Same
  <2>1. CatalogHeld' /\ NewName' /\ Truth'
    BY <1>1, <1>2 DEF BInv, Founding, CatalogHeld, NewName, Truth
  <2>2. RowTruth'
    <3>1. ASSUME NEW j \in Keys, requests'[j].status = "SUCCEEDED"
          PROVE  /\ requests'[j].digest \in Bodies
                 /\ projects[requests'[j].digest[1]] = requests'[j].digest[2]
      <4>1. CASE j = k
        BY <1>3, <1>4, <3>1, <4>1 DEF BInv, Founding, Truth
      <4>2. CASE j # k
        BY <1>4, <3>1, <4>2 DEF BInv, Founding, RowTruth
      <4> QED
        BY <4>1, <4>2
    <3> QED
      BY <1>1, <3>1 DEF RowTruth
  <2>3. FounderKnown'
    <3> SUFFICES ASSUME NEW n \in Names, founder[n] # None
                 PROVE  KnownAs(n, founder[n])'
      BY <1>1 DEF FounderKnown
    <3> DEFINE f == founder[n]
    <3>1. f \in Calls /\ f' = f /\ projects' = projects
      BY <1>1 DEF BInv, STypeOK
    <3>2. f # None /\ KnownAs(n, f)
      BY DEF BInv, Founding, FounderKnown
    <3> HIDE DEF f
    <3>3. /\ call'[f].pc \in {"finish", "audit", "append", "reply", "replied", "dead"}
          /\ call'[f].outcome # "FAILED" /\ call'[f].key = call[f].key
          /\ call[f].key \in Keys \cup {None}
      BY <1>1, <1>2, <3>1, <3>2 DEF BInv, STypeOK, Threads
    <3>4. call[f].key # None => requests'[call[f].key].status \in
                                  {"RECOVERY_REQUIRED", "SUCCEEDED"}
      <4>1. call[f].key = k => call[c].outcome = "SUCCEEDED"
        BY <1>1, <1>3, <3>2 DEF Busy, k
      <4> QED
        BY <1>3, <1>4, <3>2, <3>3, <4>1
    <3>5. ASSUME NEW d \in Calls, Busy(d)', call'[d].key = call[f].key, call[f].key # None
          PROVE  call'[d].pc = "finish" /\ call'[d].outcome = "SUCCEEDED"
      <4>1. d # c
        BY <1>2, <3>5 DEF Busy
      <4> QED
        BY <1>2, <3>2, <3>5, <4>1 DEF Busy
    <3> QED
      BY <3>1, <3>2, <3>3, <3>4, <3>5 DEF f
  <2> QED
    BY <2>1, <2>2, <2>3 DEF Founding
<1>9. Auditing'
  <2>1. ~call[c].audited
    BY <1>1 DEF BInv, Auditing, Recorded
  <2> QED
    BY <1>1, <1>2, <2>1, AuditRuns DEF BInv
<1> QED
  BY <1>5, <1>7, <1>8, <1>9 DEF BInv

-----------------------------------------------------------------------------
(* The catalog: each of its steps keeps the invariant.                     *)

LEMMA EnterCreateKeeps ==
    ASSUME BInv, NEW c \in Calls, EnterCreate(c)
    PROVE  BInv'
<1> DEFINE k == call[c].key
<1>1. /\ At(c, "create") /\ Goto(c, "inside") /\ locks.catalog = None
      /\ UNCHANGED <<requests, dirs, projects, founder, log, cut>>
  BY DEF EnterCreate
<1>2. /\ call' \in [Calls -> Threads] /\ Others(c) /\ Same(c) /\ SameLine(c)
      /\ call'[c].pc = "inside" /\ call'[c].outcome = call[c].outcome
  BY <1>1, GotoMoves DEF BInv, STypeOK, PCs
<1>3. /\ locks' \in [catalog : Calls \cup {None}, audit : Calls \cup {None}]
      /\ locks'.catalog = c /\ locks'.audit = locks.audit
  BY DEF EnterCreate, BInv, STypeOK
<1> USE DEF At, Key, Name, Pack
<1>4. /\ k \in Keys \cup {None} /\ call[c].outcome = None
      /\ k # None => entered[k] = 0 /\ requests[k].status # "ABSENT"
  <2>1. k \in Keys \cup {None} /\ call[c].outcome = None
    BY <1>1 DEF BInv, STypeOK, Threads, Keyed, Settled
  <2>2. ASSUME k # None
        PROVE  entered[k] = 0 /\ requests[k].status # "ABSENT"
    <3>1. requests[k] = [digest |-> call[c].body, status |-> "RECOVERY_REQUIRED"]
      BY <1>1, <2>2 DEF BInv, Keyed, BusyRow, Busy
    <3> QED
      BY <1>1, <2>2, <3>1 DEF BInv, Keyed, Entries
  <2> QED
    BY <2>1, <2>2
<1>5. /\ entered' \in [Keys -> Nat]
      /\ \A j \in Keys : entered'[j] = IF j = k THEN 1 ELSE entered[j]
  BY <1>4 DEF EnterCreate, BInv, STypeOK
<1>6. STypeOK'
  BY <1>1, <1>2, <1>3, <1>5 DEF BInv, STypeOK
<1>7. Keyed'
  <2> USE DEF Others, Same
  <2>1. Received' /\ Settled' /\ RowIsAnswer'
    BY <1>1, <1>2, <1>4 DEF BInv, Keyed, Received, Settled, RowIsAnswer, Ended
  <2>2. OneBusy' /\ BusyRow'
    BY <1>1, <1>2 DEF BInv, Keyed, OneBusy, BusyRow, Busy
  <2>3. Entries'
    <3>1. ASSUME NEW j \in Keys
          PROVE  /\ entered'[j] \in {0, 1}
                 /\ requests'[j].status = "ABSENT" => entered'[j] = 0
      BY <1>1, <1>4, <1>5 DEF BInv, Keyed, Entries
    <3>2. ASSUME NEW d \in Calls, call'[d].pc = "create", call'[d].key # None
          PROVE  entered'[call'[d].key] = 0
      <4>1. d # c /\ call[d].key # None /\ call[d].key \in Keys /\ call'[d] = call[d]
        BY <1>2, <3>2 DEF BInv, STypeOK, Threads
      <4>2. call[d].key # k
        BY <1>1, <3>2, <4>1 DEF BInv, Keyed, OneBusy, Busy
      <4> QED
        BY <1>5, <3>2, <4>1, <4>2 DEF BInv, Keyed, Entries
    <3> QED
      BY <3>1, <3>2 DEF Entries
  <2> QED
    BY <2>1, <2>2, <2>3 DEF Keyed
<1>8. Founding'
  <2>1. CatalogHeld'
    <3>1. \A d \in Calls : call[d].pc \notin {"inside", "save"}
      BY <1>1 DEF BInv, Founding, CatalogHeld
    <3> QED
      BY <1>2, <1>3, <3>1 DEF CatalogHeld, Others
  <2> QED
    BY <1>1, <1>2, <1>4, <2>1, FoundingRuns DEF BInv, Busy
<1>9. Auditing'
  <2>1. ~call[c].audited
    BY <1>1 DEF BInv, Auditing, Recorded
  <2> QED
    BY <1>1, <1>2, <1>3, <2>1, AuditRuns DEF BInv
<1> QED
  BY <1>6, <1>7, <1>8, <1>9 DEF BInv

\* The lock of the catalog changes hands with the call that holds it.
LEMMA CatalogPassed ==
    ASSUME CatalogHeld, None \notin Calls, NEW c \in Calls, Others(c),
           call[c].pc \in {"inside", "save"},
           \/ call'[c].pc \in {"inside", "save"} /\ locks'.catalog = c
           \/ call'[c].pc \notin {"inside", "save"} /\ locks'.catalog = None
    PROVE  CatalogHeld'
<1>1. \A d \in Calls : d # c => call'[d].pc \notin {"inside", "save"}
  BY DEF CatalogHeld, Others
<1> QED
  BY <1>1 DEF CatalogHeld, At

\* A call that leaves create_project, with its verdict, without founding a project.
LEMMA LeaveKeeps ==
    ASSUME BInv, NEW c \in Calls, NEW outcome \in Verdicts, At(c, "inside"),
           Return(c, outcome), locks' = [locks EXCEPT !.catalog = None],
           outcome = "SUCCEEDED" => projects[Name(c)] = Pack(c),
           dirs' \subseteq Names,
           UNCHANGED <<requests, entered, projects, founder, log, cut>>
    PROVE  BInv'
<1> DEFINE pc == IF Key(c) = None THEN "audit" ELSE "finish"
<1>1. Settle(c, outcome, pc) /\ outcome \in Outcomes /\ pc \in PCs
  BY DEF Return, PCs
<1>2. /\ call' \in [Calls -> Threads] /\ Others(c) /\ Same(c) /\ SameLine(c)
      /\ call'[c].pc = pc /\ call'[c].outcome = outcome
  <2> HIDE DEF pc
  <2> QED
    BY <1>1, SettleMoves DEF BInv, STypeOK
<1>3. /\ locks' \in [catalog : Calls \cup {None}, audit : Calls \cup {None}]
      /\ locks'.catalog = None /\ locks'.audit = locks.audit
  BY DEF BInv, STypeOK
<1>4. STypeOK'
  BY <1>2, <1>3 DEF BInv, STypeOK
<1> USE DEF At
<1>5. Keyed'
  BY <1>1, <1>2, KeyedRuns DEF BInv, Busy, Ended
<1>6. Founding'
  <2>1. CatalogHeld'
    BY <1>2, <1>3, CatalogPassed DEF BInv, Founding
  <2> QED
    BY <1>2, <2>1, FoundingRuns DEF BInv, Busy
<1>7. Auditing'
  <2>1. ~call[c].audited
    BY DEF BInv, Auditing, Recorded
  <2> QED
    BY <1>2, <1>3, <2>1, AuditRuns DEF BInv
<1> QED
  BY <1>4, <1>5, <1>6, <1>7 DEF BInv

LEMMA InitialiseKeeps ==
    ASSUME BInv, NEW c \in Calls, Initialise(c)
    PROVE  BInv'
<1>1. /\ At(c, "inside") /\ Goto(c, "save") /\ projects[Name(c)] = None
      /\ dirs' = dirs \cup {Name(c)}
      /\ UNCHANGED <<requests, entered, projects, founder, locks, log, cut>>
  BY DEF Initialise
<1>2. /\ call' \in [Calls -> Threads] /\ Others(c) /\ Same(c) /\ SameLine(c)
      /\ call'[c].pc = "save" /\ call'[c].outcome = call[c].outcome
  BY <1>1, GotoMoves DEF BInv, STypeOK, PCs
<1> USE DEF At
<1>3. call[c].body \in Bodies /\ call[c].outcome = None /\ locks.catalog = c
  BY <1>1 DEF BInv, Keyed, Received, Settled, Founding, CatalogHeld
<1>4. STypeOK'
  BY <1>1, <1>2, <1>3 DEF BInv, STypeOK, Name
<1>5. Keyed'
  BY <1>1, <1>2, <1>3, KeyedRuns DEF BInv, Busy, Ended
<1>6. Founding'
  <2>1. CatalogHeld'
    BY <1>1, <1>2, <1>3, CatalogPassed DEF BInv, Founding
  <2> QED
    BY <1>1, <1>2, <1>3, <2>1, FoundingRuns DEF BInv, Busy
<1>7. Auditing'
  <2>1. ~call[c].audited
    BY <1>1 DEF BInv, Auditing, Recorded
  <2> QED
    BY <1>1, <1>2, <2>1, AuditRuns DEF BInv
<1> QED
  BY <1>4, <1>5, <1>6, <1>7 DEF BInv

LEMMA SaveKeeps ==
    ASSUME BInv, NEW c \in Calls, Save(c)
    PROVE  BInv'
<1> DEFINE pc == IF Key(c) = None THEN "audit" ELSE "finish"
<1>1. /\ At(c, "save") /\ Founded(c) /\ Settle(c, "SUCCEEDED", pc)
      /\ "SUCCEEDED" \in Outcomes /\ pc \in PCs
      /\ UNCHANGED <<requests, entered, dirs, log, cut>>
  BY DEF Save, Return, PCs
<1>2. /\ call' \in [Calls -> Threads] /\ Others(c) /\ Same(c) /\ SameLine(c)
      /\ call'[c].pc = pc /\ call'[c].outcome = "SUCCEEDED"
  <2> HIDE DEF pc
  <2> QED
    BY <1>1, SettleMoves DEF BInv, STypeOK
<1>3. /\ locks' \in [catalog : Calls \cup {None}, audit : Calls \cup {None}]
      /\ locks'.catalog = None /\ locks'.audit = locks.audit
  BY DEF Save, BInv, STypeOK
<1> USE DEF At
<1>4. STypeOK'
  <2>1. call[c].body \in Bodies
    BY <1>1 DEF BInv, Keyed, Received
  <2> QED
    BY <1>1, <1>2, <1>3, <2>1 DEF BInv, STypeOK, Founded, Name, Pack
<1>5. Keyed'
  BY <1>1, <1>2, KeyedRuns DEF BInv, Busy, Ended
<1>6. Founding'
  <2>1. CatalogHeld'
    BY <1>1, <1>2, <1>3, CatalogPassed DEF BInv, Founding
  <2> QED
    BY <1>1, <1>2, <2>1, FoundingSaves DEF BInv
<1>7. Auditing'
  <2>1. ~call[c].audited
    BY <1>1 DEF BInv, Auditing, Recorded
  <2> QED
    BY <1>1, <1>2, <1>3, <2>1, AuditRuns DEF BInv
<1> QED
  BY <1>4, <1>5, <1>6, <1>7 DEF BInv

LEMMA SaveFailsKeeps ==
    ASSUME BInv, NEW c \in Calls, SaveFails(c)
    PROVE  BInv'
<1>1. /\ At(c, "save")
      /\ Founded(c) \/ UNCHANGED <<projects, founder>>
      /\ Settle(c, "INTERNAL_ERROR", "reply")
      /\ UNCHANGED <<requests, entered, dirs, log, cut>>
  BY DEF SaveFails
<1>2. /\ call' \in [Calls -> Threads] /\ Others(c) /\ Same(c) /\ SameLine(c)
      /\ call'[c].pc = "reply" /\ call'[c].outcome = "INTERNAL_ERROR"
  BY <1>1, SettleMoves DEF BInv, STypeOK, PCs
<1>3. /\ locks' \in [catalog : Calls \cup {None}, audit : Calls \cup {None}]
      /\ locks'.catalog = None /\ locks'.audit = locks.audit
  BY DEF SaveFails, BInv, STypeOK
<1> USE DEF At
<1>4. STypeOK'
  <2>1. call[c].body \in Bodies
    BY <1>1 DEF BInv, Keyed, Received
  <2>2. projects' \in [Names -> Packs \cup {None}] /\ founder' \in [Names -> Calls \cup {None}]
    <3>1. CASE Founded(c)
      BY <2>1, <3>1 DEF BInv, STypeOK, Founded, Name, Pack
    <3>2. CASE UNCHANGED <<projects, founder>>
      BY <3>2 DEF BInv, STypeOK
    <3> QED
      BY <1>1, <3>1, <3>2
  <2> QED
    BY <1>1, <1>2, <1>3, <2>2 DEF BInv, STypeOK
<1>5. Keyed'
  BY <1>1, <1>2, KeyedRuns DEF BInv, Busy, Ended
<1>6. Founding'
  <2>1. CatalogHeld'
    BY <1>1, <1>2, <1>3, CatalogPassed DEF BInv, Founding
  <2>2. CASE Founded(c)
    BY <1>1, <1>2, <2>1, <2>2, FoundingSaves DEF BInv
  <2>3. CASE UNCHANGED <<projects, founder>>
    BY <1>1, <1>2, <2>1, <2>3, FoundingRuns DEF BInv, Busy
  <2> QED
    BY <1>1, <2>2, <2>3
<1>7. Auditing'
  <2>1. ~call[c].audited
    BY <1>1 DEF BInv, Auditing, Recorded
  <2> QED
    BY <1>1, <1>2, <1>3, <2>1, AuditRuns DEF BInv
<1> QED
  BY <1>4, <1>5, <1>6, <1>7 DEF BInv

-----------------------------------------------------------------------------
(* The audit file, the answer and the death of a thread.                   *)

\* A step of a thread that moves it on and writes nothing.
LEMMA QuietKeeps ==
    ASSUME BInv, NEW c \in Calls, call' \in [Calls -> Threads],
           Others(c), Same(c), SameLine(c),
           UNCHANGED <<requests, entered, dirs, projects, founder, log, cut>>,
           locks' \in [catalog : Calls \cup {None}, audit : Calls \cup {None}],
           locks'.audit = locks.audit, CatalogHeld',
           ~At(c, "new"), ~At(c, "append"),
           call'[c].pc \in {"reply", "replied", "dead"},
           \/ call'[c].outcome = call[c].outcome /\ (At(c, "reply") \/ call'[c].pc = "dead")
           \/ /\ call'[c].outcome \in Outcomes \ Verdicts
              /\ call[c].pc \in {"intent", "create", "finish", "audit"}
    PROVE  BInv'
<1> USE DEF At
<1>1. STypeOK'
  BY DEF BInv, STypeOK
<1>2. Keyed'
  BY KeyedRuns DEF BInv, Busy, Ended, Keyed, Settled
<1>3. Founding'
  BY FoundingRuns DEF BInv, Busy
<1>4. Auditing'
  <2>1. call[c].audited => call[c].pc \in {"reply", "replied", "dead"}
    BY DEF BInv, Auditing, Recorded
  <2> QED
    BY <2>1, AuditRuns DEF BInv
<1> QED
  BY <1>1, <1>2, <1>3, <1>4 DEF BInv

LEMMA HeldStill ==
    ASSUME CatalogHeld, NEW c \in Calls, Others(c), UNCHANGED locks,
           call[c].pc \notin {"inside", "save"}, call'[c].pc \notin {"inside", "save"}
    PROVE  CatalogHeld'
BY DEF CatalogHeld, Others

LEMMA ReadTailKeeps ==
    ASSUME BInv, NEW c \in Calls, ReadTail(c)
    PROVE  BInv'
<1> DEFINE u == [call[c] EXCEPT !.pc = "append"]
           t == [u EXCEPT !.prev = Len(log)]
<1>1. /\ At(c, "audit") /\ locks.audit = None /\ ~DamagedTail
      /\ UNCHANGED <<requests, entered, dirs, projects, founder, log, cut>>
      /\ log \in Seq(Lines \cup {Garbled}) /\ Len(log) \in Nat
  BY DEF ReadTail, BInv, STypeOK
<1>2. /\ t \in Threads /\ call' = [call EXCEPT ![c] = t]
      /\ t.pc = "append" /\ t.prev = Len(log) /\ t.outcome = call[c].outcome
      /\ t.key = call[c].key /\ t.body = call[c].body /\ t.audited = call[c].audited
  <2>1. call[c] \in Threads
    BY DEF BInv, STypeOK
  <2>2. u \in Threads
    BY <2>1 DEF Threads
  <2>3. t \in Threads
    BY <1>1, <2>2 DEF Threads
  <2>4. call' = [call EXCEPT ![c] = t]
    BY DEF ReadTail
  <2> QED
    BY <2>1, <2>3, <2>4 DEF Threads
<1> HIDE DEF t
<1>3. /\ call' \in [Calls -> Threads] /\ Others(c) /\ Same(c)
      /\ call'[c].pc = "append" /\ call'[c].outcome = call[c].outcome
      /\ call'[c].prev = Len(log) /\ call'[c].audited = call[c].audited
  BY <1>2 DEF BInv, STypeOK, Others, Same
<1>4. /\ locks' \in [catalog : Calls \cup {None}, audit : Calls \cup {None}]
      /\ locks'.catalog = locks.catalog /\ locks'.audit = c
  BY DEF ReadTail, BInv, STypeOK
<1> USE DEF At
<1>5. STypeOK'
  BY <1>1, <1>3, <1>4 DEF BInv, STypeOK
<1>6. Keyed'
  BY <1>1, <1>3, KeyedRuns DEF BInv, Busy, Ended, Keyed, Settled
<1>7. Founding'
  <2>1. CatalogHeld'
    BY <1>1, <1>3, <1>4 DEF BInv, Founding, CatalogHeld, Others
  <2> QED
    BY <1>1, <1>3, <2>1, FoundingRuns DEF BInv, Busy
<1>8. Auditing'
  <2>1. TailRead'
    <3>1. \A d \in Calls : call[d].pc # "append"
      BY <1>1 DEF BInv, Auditing, TailRead
    <3>2. DamagedTail' <=> DamagedTail
      BY <1>1 DEF DamagedTail
    <3> QED
      BY <1>1, <1>3, <1>4, <3>1, <3>2 DEF BInv, Auditing, TailRead, Others
  <2>2. AuditChain'
    BY <1>1 DEF BInv, Auditing, AuditChain
  <2>3. Recorded'
    <3>1. ~call[c].audited
      BY <1>1 DEF BInv, Auditing, Recorded
    <3>2. \A d \in Calls : d # c => Line(d)' = Line(d)
      BY <1>3 DEF Line, Others
    <3> QED
      BY <1>1, <1>3, <3>1, <3>2 DEF BInv, Auditing, Recorded, Damaged, Others
  <2> QED
    BY <2>1, <2>2, <2>3 DEF Auditing
<1> QED
  BY <1>5, <1>6, <1>7, <1>8 DEF BInv

LEMMA RefuseTailKeeps ==
    ASSUME BInv, NEW c \in Calls, RefuseTail(c)
    PROVE  BInv'
<1>1. /\ At(c, "audit") /\ Settle(c, "AUDIT_RECOVERY_REQUIRED", "reply")
      /\ UNCHANGED <<requests, entered, dirs, projects, founder, locks, log, cut>>
  BY DEF RefuseTail
<1>2. /\ call' \in [Calls -> Threads] /\ Others(c) /\ Same(c) /\ SameLine(c)
      /\ call'[c].pc = "reply" /\ call'[c].outcome = "AUDIT_RECOVERY_REQUIRED"
  BY <1>1, SettleMoves DEF BInv, STypeOK, PCs
<1>3. CatalogHeld'
  BY <1>1, <1>2, HeldStill DEF BInv, Founding, At
<1> QED
  BY <1>1, <1>2, <1>3, QuietKeeps DEF BInv, STypeOK, At

\* The thread that holds the lock of the audit file lets go of it.
LEMMA AppendedKeeps ==
    ASSUME BInv, NEW c \in Calls, At(c, "append"), call' \in [Calls -> Threads],
           Others(c), Same(c), call'[c].prev = call[c].prev,
           call'[c].pc \in {"reply", "dead"}, call'[c].outcome \in Outcomes,
           call'[c].outcome = call[c].outcome \/ call'[c].outcome \notin Verdicts,
           UNCHANGED <<requests, entered, dirs, projects, founder>>,
           locks' \in [catalog : Calls \cup {None}, audit : Calls \cup {None}],
           locks'.audit = None, locks'.catalog = locks.catalog,
           \/ log' = With(Line(c)) /\ cut' = FALSE
           \/ PartOf(c)
           \/ UNCHANGED <<log, cut>>,
           call'[c].audited => /\ log' = With(Line(c)) /\ ~cut'
                               /\ call'[c].outcome = call[c].outcome,
           call'[c].pc = "reply" /\ call'[c].outcome \in Verdicts => call'[c].audited
    PROVE  BInv'
<1>1. Settled
  BY DEF BInv, Keyed
<1>2. Auditing' /\ log' \in Seq(Lines \cup {Garbled}) /\ cut' \in BOOLEAN
  BY <1>1, AppendEnds DEF BInv
<1> USE DEF At
<1>3. STypeOK'
  BY <1>2 DEF BInv, STypeOK
<1>4. Keyed'
  BY KeyedRuns DEF BInv, Busy, Ended
<1>5. Founding'
  <2>1. CatalogHeld'
    BY DEF BInv, Founding, CatalogHeld, Others
  <2> QED
    BY <2>1, FoundingRuns DEF BInv, Busy
<1> QED
  BY <1>2, <1>3, <1>4, <1>5 DEF BInv

LEMMA AppendLineKeeps ==
    ASSUME BInv, NEW c \in Calls, AppendLine(c)
    PROVE  BInv'
<1> DEFINE u == [call[c] EXCEPT !.pc = "reply"]
           t == [u EXCEPT !.audited = TRUE]
<1>1. /\ At(c, "append") /\ log' = With(Line(c)) /\ cut' = FALSE
      /\ UNCHANGED <<requests, entered, dirs, projects, founder>>
  BY DEF AppendLine
<1>2. /\ t \in Threads /\ call' = [call EXCEPT ![c] = t]
      /\ t.pc = "reply" /\ t.prev = call[c].prev /\ t.outcome = call[c].outcome
      /\ t.key = call[c].key /\ t.body = call[c].body
  <2>1. call[c] \in Threads
    BY DEF BInv, STypeOK
  <2>2. u \in Threads
    BY <2>1 DEF Threads
  <2>3. t \in Threads
    BY <2>2 DEF Threads
  <2>4. call' = [call EXCEPT ![c] = t]
    BY DEF AppendLine
  <2> QED
    BY <2>1, <2>3, <2>4 DEF Threads
<1>3. t.audited = TRUE
  <2>1. call[c] \in Threads
    BY DEF BInv, STypeOK
  <2> QED
    BY <2>1 DEF Threads
<1> HIDE DEF t
<1>4. /\ call' \in [Calls -> Threads] /\ Others(c) /\ Same(c)
      /\ call'[c].pc = "reply" /\ call'[c].outcome = call[c].outcome
      /\ call'[c].prev = call[c].prev /\ call'[c].audited = TRUE
  BY <1>2, <1>3 DEF BInv, STypeOK, Others, Same
<1>5. /\ locks' \in [catalog : Calls \cup {None}, audit : Calls \cup {None}]
      /\ locks'.catalog = locks.catalog /\ locks'.audit = None
  BY DEF AppendLine, BInv, STypeOK
<1>6. call[c].outcome \in Outcomes
  BY <1>1 DEF BInv, Keyed, Settled, Ended, At
<1> QED
  BY <1>1, <1>4, <1>5, <1>6, AppendedKeeps

LEMMA AppendFailsKeeps ==
    ASSUME BInv, NEW c \in Calls, AppendFails(c)
    PROVE  BInv'
<1>1. /\ At(c, "append") /\ Settle(c, "INTERNAL_ERROR", "reply")
      /\ PartOf(c) \/ UNCHANGED <<log, cut>>
      /\ UNCHANGED <<requests, entered, dirs, projects, founder>>
  BY DEF AppendFails
<1>2. /\ call' \in [Calls -> Threads] /\ Others(c) /\ Same(c) /\ SameLine(c)
      /\ call'[c].pc = "reply" /\ call'[c].outcome = "INTERNAL_ERROR"
  BY <1>1, SettleMoves DEF BInv, STypeOK, PCs
<1>3. /\ locks' \in [catalog : Calls \cup {None}, audit : Calls \cup {None}]
      /\ locks'.catalog = locks.catalog /\ locks'.audit = None
  BY DEF AppendFails, BInv, STypeOK
<1>4. ~call'[c].audited
  BY <1>1, <1>2 DEF BInv, Auditing, Recorded, At, SameLine
<1> QED
  BY <1>1, <1>2, <1>3, <1>4, AppendedKeeps DEF SameLine

LEMMA ReplyKeeps ==
    ASSUME BInv, NEW c \in Calls, Reply(c)
    PROVE  BInv'
<1>1. /\ At(c, "reply") /\ Goto(c, "replied")
      /\ UNCHANGED <<requests, entered, dirs, projects, founder, locks, log, cut>>
  BY DEF Reply
<1>2. /\ call' \in [Calls -> Threads] /\ Others(c) /\ Same(c) /\ SameLine(c)
      /\ call'[c].pc = "replied" /\ call'[c].outcome = call[c].outcome
  BY <1>1, GotoMoves DEF BInv, STypeOK, PCs
<1>3. CatalogHeld'
  BY <1>1, <1>2, HeldStill DEF BInv, Founding, At
<1> QED
  BY <1>1, <1>2, <1>3, QuietKeeps DEF BInv, STypeOK, At

LEMMA LockTimeoutKeeps ==
    ASSUME BInv, NEW c \in Calls, LockTimeout(c)
    PROVE  BInv'
<1>1. /\ At(c, "create") \/ At(c, "audit")
      /\ Settle(c, "INTERNAL_ERROR", "reply")
      /\ UNCHANGED <<requests, entered, dirs, projects, founder, locks, log, cut>>
  BY DEF LockTimeout
<1>2. /\ call' \in [Calls -> Threads] /\ Others(c) /\ Same(c) /\ SameLine(c)
      /\ call'[c].pc = "reply" /\ call'[c].outcome = "INTERNAL_ERROR"
  BY <1>1, SettleMoves DEF BInv, STypeOK, PCs
<1>3. CatalogHeld'
  BY <1>1, <1>2, HeldStill DEF BInv, Founding, At
<1> QED
  BY <1>1, <1>2, <1>3, QuietKeeps DEF BInv, STypeOK, At

LEMMA TableTimeoutKeeps ==
    ASSUME BInv, NEW c \in Calls, TableTimeout(c)
    PROVE  BInv'
<1>1. /\ At(c, "intent") \/ At(c, "finish")
      /\ Settle(c, "INTERNAL_ERROR", "reply")
      /\ UNCHANGED <<requests, entered, dirs, projects, founder, locks, log, cut>>
  BY DEF TableTimeout
<1>2. /\ call' \in [Calls -> Threads] /\ Others(c) /\ Same(c) /\ SameLine(c)
      /\ call'[c].pc = "reply" /\ call'[c].outcome = "INTERNAL_ERROR"
  BY <1>1, SettleMoves DEF BInv, STypeOK, PCs
<1>3. CatalogHeld'
  BY <1>1, <1>2, HeldStill DEF BInv, Founding, At
<1> QED
  BY <1>1, <1>2, <1>3, QuietKeeps DEF BInv, STypeOK, At

LEMMA DieKeeps ==
    ASSUME BInv, NEW c \in Calls, Die(c)
    PROVE  BInv'
<1>1. /\ call[c].pc \notin {"new", "replied", "dead"} /\ Goto(c, "dead")
      /\ UNCHANGED <<requests, entered, dirs, projects, founder>>
  BY DEF Die
<1>2. /\ call' \in [Calls -> Threads] /\ Others(c) /\ Same(c) /\ SameLine(c)
      /\ call'[c].pc = "dead" /\ call'[c].outcome = call[c].outcome
  BY <1>1, GotoMoves DEF BInv, STypeOK, PCs
<1>3. /\ locks' \in [catalog : Calls \cup {None}, audit : Calls \cup {None}]
      /\ locks'.catalog = IF locks.catalog = c THEN None ELSE locks.catalog
      /\ locks'.audit = IF locks.audit = c THEN None ELSE locks.audit
  BY DEF Die, BInv, STypeOK
<1> USE DEF At
<1>4. CatalogHeld'
  BY <1>2, <1>3 DEF BInv, Founding, CatalogHeld, Others
<1>5. CASE At(c, "append")
  <2>1. locks.audit = c /\ locks.catalog # c /\ ~call[c].audited /\ call[c].outcome \in Outcomes
    BY <1>5 DEF BInv, Auditing, TailRead, Founding, CatalogHeld, Recorded, Keyed, Settled, Ended
  <2>2. PartOf(c) \/ UNCHANGED <<log, cut>>
    BY DEF Die
  <2> QED
    BY <1>1, <1>2, <1>3, <1>5, <2>1, <2>2, AppendedKeeps DEF SameLine
<1>6. CASE ~At(c, "append")
  <2>1. locks.audit # c /\ UNCHANGED <<log, cut>>
    BY <1>6 DEF BInv, Auditing, TailRead, Die
  <2> QED
    BY <1>1, <1>2, <1>3, <1>4, <1>6, <2>1, QuietKeeps
<1> QED
  BY <1>5, <1>6

-----------------------------------------------------------------------------
(* The theorems.                                                           *)

LEMMA BInvInit == SInit => BInv
<1> SUFFICES ASSUME SInit PROVE BInv
  OBVIOUS
<1> DEFINE t == [pc |-> "new", key |-> None, body |-> None, outcome |-> None,
                 prev |-> 0, audited |-> FALSE]
<1>1. t \in Threads /\ NoRequest \in Rows
  BY DEF Threads, Rows, NoRequest
<1>2. /\ t.pc = "new" /\ t.outcome = None /\ t.audited = FALSE
      /\ NoRequest.status = "ABSENT"
  BY DEF NoRequest
<1>3. call = [c \in Calls |-> t]
  BY DEF SInit
<1> HIDE DEF t
<1>4. STypeOK
  <2>1. call \in [Calls -> Threads] /\ requests \in [Keys -> Rows]
    BY <1>1, <1>3 DEF SInit
  <2>2. log \in Seq(Lines \cup {Garbled})
    BY DEF SInit
  <2> QED
    BY <2>1, <2>2 DEF SInit, STypeOK
<1>5. \A c \in Calls : call[c].pc = "new" /\ call[c].outcome = None /\ ~call[c].audited
  BY <1>2, <1>3
<1>6. Keyed
  <2>1. \A k \in Keys : entered[k] = 0
    BY DEF SInit
  <2> QED
    BY <1>5, <2>1 DEF Keyed, Received, OneBusy, BusyRow, Entries, RowIsAnswer, Settled,
                      Busy, Ended, At
<1>7. Founding
  <2>1. /\ \A k \in Keys : requests[k].status = "ABSENT"
        /\ \A n \in Names : founder[n] = None
        /\ locks.catalog = None
    BY <1>2 DEF SInit
  <2> QED
    BY <1>5, <2>1 DEF Founding, CatalogHeld, NewName, Truth, RowTruth, FounderKnown, At
<1>8. Auditing
  BY <1>5 DEF SInit, Auditing, TailRead, AuditChain, Recorded, At
<1> QED
  BY <1>4, <1>6, <1>7, <1>8 DEF BInv

LEMMA BInvStep == BInv /\ [SNext]_svars => BInv'
<1> SUFFICES ASSUME BInv, [SNext]_svars PROVE BInv'
  OBVIOUS
<1>1. CASE UNCHANGED svars
  <2> USE <1>1 DEF svars
  <2>1. STypeOK'
    BY DEF BInv, STypeOK
  <2>2. Keyed'
    BY DEF BInv, Keyed, Received, OneBusy, BusyRow, Entries, RowIsAnswer, Settled, Busy,
           Ended, At, Key
  <2>3. Founding'
    BY DEF BInv, Founding, CatalogHeld, NewName, Truth, RowTruth, FounderKnown, KnownAs,
           Busy, At, Key, Name, Pack
  <2>4. Auditing'
    BY DEF BInv, Auditing, TailRead, AuditChain, Recorded, Damaged, DamagedTail, Line, At
  <2> QED
    BY <2>1, <2>2, <2>3, <2>4 DEF BInv
<1>2. CASE SNext
  <2>1. PICK c \in Calls :
          \/ \E k \in Keys \cup {None}, b \in Bodies : Receive(c, k, b)
          \/ RecordIntent(c) \/ AnswerSaved(c) \/ Finish(c)
          \/ EnterCreate(c) \/ FindExisting(c) \/ Initialise(c) \/ InitialiseFails(c)
          \/ Save(c) \/ SaveFails(c)
          \/ ReadTail(c) \/ RefuseTail(c) \/ AppendLine(c) \/ AppendFails(c)
          \/ Reply(c) \/ LockTimeout(c) \/ TableTimeout(c) \/ Die(c)
    BY <1>2 DEF SNext
  <2>2. CASE \E k \in Keys \cup {None}, b \in Bodies : Receive(c, k, b)
    BY <2>2, ReceiveKeeps
  <2>3. CASE RecordIntent(c) \/ AnswerSaved(c) \/ Finish(c)
    BY <2>3, RecordIntentKeeps, AnswerSavedKeeps, FinishKeeps
  <2>4. CASE EnterCreate(c) \/ Initialise(c) \/ Save(c) \/ SaveFails(c)
    BY <2>4, EnterCreateKeeps, InitialiseKeeps, SaveKeeps, SaveFailsKeeps
  <2>5. CASE FindExisting(c)
    <3>1. PICK outcome \in Verdicts :
            /\ At(c, "inside") /\ Return(c, outcome)
            /\ outcome = "SUCCEEDED" => projects[Name(c)] = Pack(c)
            /\ locks' = [locks EXCEPT !.catalog = None]
            /\ UNCHANGED <<requests, entered, dirs, projects, founder, log, cut>>
      BY <2>5 DEF FindExisting
    <3>2. dirs' \subseteq Names
      BY <3>1 DEF BInv, STypeOK
    <3> QED
      BY <3>1, <3>2, LeaveKeeps
  <2>6. CASE InitialiseFails(c)
    <3>1. /\ At(c, "inside") /\ Return(c, "FAILED")
          /\ locks' = [locks EXCEPT !.catalog = None]
          /\ dirs' \in {dirs, dirs \cup {Name(c)}}
          /\ UNCHANGED <<requests, entered, projects, founder, log, cut>>
      BY <2>6 DEF InitialiseFails
    <3>2. dirs' \subseteq Names
      BY <3>1 DEF BInv, STypeOK, Keyed, Received, At, Name
    <3> QED
      BY <3>1, <3>2, LeaveKeeps
  <2>7. CASE ReadTail(c) \/ RefuseTail(c) \/ AppendLine(c) \/ AppendFails(c)
    BY <2>7, ReadTailKeeps, RefuseTailKeeps, AppendLineKeeps, AppendFailsKeeps
  <2>8. CASE Reply(c) \/ LockTimeout(c) \/ TableTimeout(c) \/ Die(c)
    BY <2>8, ReplyKeeps, LockTimeoutKeeps, TableTimeoutKeeps, DieKeeps
  <2> QED
    BY <2>1, <2>2, <2>3, <2>4, <2>5, <2>6, <2>7, <2>8
<1> QED
  BY <1>1, <1>2

\* BInv holds in every reachable state of the synchronous path.
THEOREM BoundaryInvariant == SSpec => []BInv
BY BInvInit, BInvStep, PTL DEF SSpec

\* Every variable keeps its shape.
THEOREM BoundaryTypeOK == SSpec => []STypeOK
<1>1. BInv => STypeOK
  BY DEF BInv
<1> QED
  BY <1>1, BoundaryInvariant, PTL

\* IdempotencyStore.execute enters the action of a key at most once, however many
\* calls repeat it and wherever the first one dies.
THEOREM KeysEnterOnce == SSpec => []EnteredOnce
<1>1. BInv => EnteredOnce
  BY DEF BInv, Keyed, Entries, EnteredOnce
<1> QED
  BY <1>1, BoundaryInvariant, PTL

\* Two calls with one key and one body are never told a success and a failure.
THEOREM RepetitionsAgree == SSpec => []AnswersAgree
<1>1. BInv => AnswersAgree
  <2> SUFFICES ASSUME BInv, NEW c \in Calls, NEW d \in Calls,
                      Key(c) # None, Key(c) = Key(d), Replied(c, "SUCCEEDED"),
                      Replied(d, "FAILED")
               PROVE  FALSE
    BY DEF AnswersAgree
  <2>1. requests[Key(c)] = [digest |-> call[c].body, status |-> "SUCCEEDED"]
    BY DEF BInv, Keyed, RowIsAnswer, Ended, Replied, At
  <2>2. requests[Key(c)] = [digest |-> call[d].body, status |-> "FAILED"]
    BY DEF BInv, Keyed, RowIsAnswer, Ended, Replied, At
  <2> QED
    BY <2>1, <2>2
<1> QED
  BY <1>1, BoundaryInvariant, PTL

\* A success names a project that is in the catalog with the pack asked for, and a
\* failure is never told to a call, or to the key of a call, that founded a project.
THEOREM VerdictsAreTrue == SSpec => []AnswersAreTrue
<1>1. BInv => AnswersAreTrue
  <2> SUFFICES ASSUME BInv, NEW c \in Calls
               PROVE  /\ Replied(c, "SUCCEEDED") => projects[Name(c)] = Pack(c)
                      /\ \A n \in Names : Replied(c, "FAILED") /\ founder[n] # None =>
                           founder[n] # c /\ (Key(c) # None => Key(founder[n]) # Key(c))
    BY DEF AnswersAreTrue
  <2>1. Replied(c, "SUCCEEDED") => projects[Name(c)] = Pack(c)
    BY DEF BInv, Founding, Truth, Replied
  <2>2. ASSUME NEW n \in Names, Replied(c, "FAILED"), founder[n] # None
        PROVE  founder[n] # c /\ (Key(c) # None => Key(founder[n]) # Key(c))
    <3>1. KnownAs(n, founder[n])
      BY <2>2 DEF BInv, Founding, FounderKnown
    <3>2. Key(c) # None =>
            requests[Key(c)] = [digest |-> call[c].body, status |-> "FAILED"]
      BY <2>2 DEF BInv, Keyed, RowIsAnswer, Ended, Replied, At
    <3>3. founder[n] # c
      BY <2>2, <3>1 DEF KnownAs, Replied
    <3>4. ASSUME Key(c) # None, Key(founder[n]) = Key(c)
          PROVE  FALSE
      <4>1. requests[Key(c)].status \in {"RECOVERY_REQUIRED", "SUCCEEDED"}
        BY <3>1, <3>4 DEF KnownAs
      <4>2. requests[Key(c)].status = "FAILED"
        BY <3>2, <3>4
      <4> QED
        BY <4>1, <4>2
    <3> QED
      BY <3>3, <3>4
  <2> QED
    BY <2>1, <2>2
<1> QED
  BY <1>1, BoundaryInvariant, PTL

\* A verdict that left the service has its record in the audit file, unless the
\* file itself shows that it was damaged.
THEOREM VerdictsAreAudited == SSpec => []AuditedBeforeReply
<1>1. BInv => AuditedBeforeReply
  BY DEF BInv, Auditing, Recorded, Damaged, AuditedBeforeReply, Replied, At
<1> QED
  BY <1>1, BoundaryInvariant, PTL

\* The audit file is a chain, and nothing follows its first damaged line.
THEOREM AuditIsAChain == SSpec => []AuditChain
<1>1. BInv => AuditChain
  BY DEF BInv, Auditing
<1> QED
  BY <1>1, BoundaryInvariant, PTL

=============================================================================
