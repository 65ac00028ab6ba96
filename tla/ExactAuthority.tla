--------------------------- MODULE ExactAuthority ---------------------------
(* An authority is never taken from a caller: it is reconstructed from the   *)
(* directories of the artifacts, each of which attests the ones below it,    *)
(* and reconstructed again before it is used.  Directories are read one      *)
(* after the other while somebody may replace them, so the readers hash a    *)
(* tree before and after they read it.                                       *)
(*                                                                           *)
(* The content of tree k is the sequence of the revisions of the trees 1..k  *)
(* it was built from: its Front is what it attests.                          *)
EXTENDS Naturals, Sequences, SequencesExt, Functions

CONSTANTS Levels,      \* 5: amendment/authority_binding, 6: activation/authority_binding
          MaxChanges   \* bound: replacements of a directory

ASSUME AuthorityAssumption == Levels \subseteq {5, 6} /\ MaxChanges \in Nat

VARIABLES level,       \* the authority that is reconstructed, chosen once
          trees,       \* what each directory holds
          replaced,    \* how often one was replaced
          mark,        \* the digests taken before the reads of Phase03's loader
          outer,       \* the digests taken before those of Phase06's loader
          trust,       \* the content verified so far, a lineage
          saved,       \* contents kept to be compared, by slot
          bound,       \* the hashes the authority is going to carry
          point,       \* the next step of the reconstruction, 0 between two
          authority,   \* the loaded authority, or Nothing
          confirmed,   \* the authority was required and rebuilt
          seen         \* history: the contents of the trees since the reconstruction began

Trees == 1..level      \* Stage08, Phase01, Phase02, Phase03, Phase04, Phase05
Nothing == <<>>

xvars == <<level, trees, replaced, mark, outer, trust, saved, bound, point, authority, confirmed, seen>>
reader == <<level, mark, outer, trust, saved, bound, point, authority, confirmed>>

\* The steps of one reconstruction, in the order of the code.
Each(op, which) == [i \in 1..Len(which) |-> [op |-> op, tree |-> which[i]]]
One(op, slot) == <<[op |-> op, tree |-> slot]>>

Phase03 == Each("mark", <<1, 2, 3>>) \o Each("read", <<1, 2, 3>>) \o Each("check", <<1, 2, 3>>)
           \o Each("mark", <<4>>) \o Each("read", <<4>>) \o Each("check", <<4>>)

\* The slots of saved: the caller's Phase03 authority, the verifier's, the workspace, Phase05.
Callers == 1
Verifiers == 2
Governed == 3
Amendments == 4

\* The workspace is validated against an authority, which is rebuilt and compared first.
Validated(slot) == Phase03 \o One("same", slot)

Phase04 == Phase03 \o One("keep", Verifiers) \o Each("read", <<5>>) \o One("keep", Governed)
           \o Validated(Verifiers)

Phase05 == Phase03 \o One("keep", Callers) \o Phase04
           \o Each("again", <<5>>) \o Validated(Callers)
           \o Each("hash", <<1, 2, 3, 4, 5>>) \o One("use", Governed)

\* Fault: the trees are not hashed again after the reads.
Phase06Unchecked == Each("freeze", <<1, 2, 3, 4, 5, 6>>) \o Phase05 \o One("keep", Amendments)
                    \o Phase05 \o Each("read", <<6>>) \o Each("publication", <<1>>)

Phase06 == Each("freeze", <<1, 2, 3, 4, 5, 6>>) \o Phase05 \o One("keep", Amendments)
           \o Phase05 \o Each("read", <<6>>) \o Each("publication", <<1>>)
           \o Each("thaw", <<1, 2, 3, 4, 5, 6>>)

Program == IF level = 5 THEN Phase05 ELSE Phase06

XInit == /\ level \in Levels
         /\ trees = [k \in Trees |-> [i \in 1..k |-> 0]]
         /\ replaced = 0
         /\ mark = [k \in Trees |-> Nothing] /\ outer = mark /\ bound = mark
         /\ trust = Nothing /\ saved = [k \in 1..4 |-> Nothing] /\ authority = Nothing
         /\ point = 0 /\ confirmed = FALSE
         /\ seen = {trees}

\* external: a directory is replaced by an artifact built from what is below it now.
Replace(k) ==
  /\ replaced < MaxChanges
  /\ replaced' = replaced + 1
  /\ trees' = [trees EXCEPT ![k] = Append(IF k = 1 THEN Nothing ELSE trees[k - 1], replaced + 1)]
  /\ seen' = seen \cup {trees'}
  /\ UNCHANGED reader

Begin == /\ point = 0 /\ ~confirmed
         /\ point' = 1
         /\ seen' = {trees}
         /\ UNCHANGED <<level, trees, replaced, mark, outer, trust, saved, bound, authority, confirmed>>

At(op) == point > 0 /\ point <= Len(Program) /\ Program[point].op = op
Tree == Program[point].tree
Step == point' = point + 1 /\ UNCHANGED <<level, trees, replaced, authority, confirmed, seen>>

Mark == /\ At("mark")
        /\ mark' = [mark EXCEPT ![Tree] = trees[Tree]]
        /\ Step /\ UNCHANGED <<outer, trust, saved, bound>>

Freeze == /\ At("freeze")
          /\ outer' = [outer EXCEPT ![Tree] = trees[Tree]]
          /\ Step /\ UNCHANGED <<mark, trust, saved, bound>>

\* A tree is verified: it attests the trees verified before it, Phase05 also the hashes.
Attests(k) == /\ k > 1 => Front(trees[k]) = trust
              /\ k = 6 => \A i \in 1..5: bound[i] = SubSeq(trees[6], 1, i)

Read == /\ At("read") /\ Attests(Tree)
        /\ trust' = trees[Tree]
        /\ Step /\ UNCHANGED <<mark, outer, saved, bound>>

Keep == /\ At("keep")
        /\ saved' = [saved EXCEPT ![Tree] = trust]
        /\ Step /\ UNCHANGED <<mark, outer, trust, bound>>

\* The verified content is taken up again after a validation read other trees.
Use == /\ At("use")
       /\ trust' = saved[Tree]
       /\ Step /\ UNCHANGED <<mark, outer, saved, bound>>

\* The tests whose failure ends the reconstruction, and that change nothing.
Holds(op, k) ==
  CASE op = "check" -> trees[k] = mark[k]
    [] op = "thaw" -> trees[k] = outer[k]
    [] op = "same" -> trust = saved[k]
    [] op = "again" -> trees[k] = saved[Governed] /\ Front(trees[k]) = saved[Callers]
    [] op = "publication" -> trees[k] = SubSeq(saved[Amendments], 1, k)
    [] op = "read" -> Attests(k)
    [] OTHER -> TRUE

Test == /\ \E op \in {"check", "thaw", "same", "again", "publication"}: At(op) /\ Holds(op, Tree)
        /\ Step /\ UNCHANGED <<mark, outer, trust, saved, bound>>

Hash == /\ At("hash")
        /\ bound' = [bound EXCEPT ![Tree] = trees[Tree]]
        /\ Step /\ UNCHANGED <<mark, outer, trust, saved>>

\* What a reconstruction returns: the verified content and the hashes beside it.
Rebuilt == [trust |-> trust, hashes |-> IF level = 5 THEN bound ELSE outer]

Same(a) == a = Rebuilt

Clean == /\ point' = 0
         /\ mark' = [k \in Trees |-> Nothing] /\ outer' = mark' /\ bound' = mark'
         /\ trust' = Nothing /\ saved' = [k \in 1..4 |-> Nothing]
         /\ UNCHANGED <<level, trees, replaced, seen>>

Loaded == /\ point = Len(Program) + 1 /\ authority = Nothing
          /\ authority' = Rebuilt
          /\ Clean /\ UNCHANGED confirmed

Required == /\ point = Len(Program) + 1 /\ authority # Nothing /\ Same(authority)
            /\ authority' = Rebuilt /\ confirmed' = TRUE
            /\ Clean

Refused == /\ point > 0
           /\ IF point <= Len(Program) THEN ~Holds(Program[point].op, Tree)
              ELSE authority # Nothing /\ ~Same(authority)
           /\ authority' = Nothing
           /\ Clean /\ UNCHANGED confirmed

XNext == \/ \E k \in Trees: Replace(k)
         \/ Begin \/ Mark \/ Freeze \/ Read \/ Keep \/ Use \/ Test \/ Hash
         \/ Loaded \/ Required \/ Refused

XSpec == XInit /\ [][XNext]_xvars

Content == UNION {[1..k -> 0..MaxChanges]: k \in 0..level}

\* Types of the variables.
XTypeOK == /\ level \in Levels /\ trees \in [Trees -> Content] /\ \A k \in Trees: Len(trees[k]) = k
           /\ replaced \in 0..MaxChanges
           /\ {mark, outer, bound} \subseteq [Trees -> Content]
           /\ trust \in Content /\ saved \in [1..4 -> Content]
           /\ point \in 0..Len(Program) + 1 /\ confirmed \in BOOLEAN
           /\ authority # Nothing => /\ Len(authority.trust) = level
                                  /\ authority.hashes \in [Trees -> Content]

OfOneLineage(a) == \A k \in Trees: a.hashes[k] = SubSeq(a.trust, 1, k)

AtOneMoment(a) == \E d \in seen: \A k \in Trees: a.hashes[k] = d[k] /\ SubSeq(a.trust, 1, k) = d[k]

\* The hashes an authority carries are those of the trees it was verified from.
LoadedIsExact == authority # Nothing => OfOneLineage(authority)

\* What a loaded authority says of all its trees was on trees at one moment of its loading,
\* although they were read one after the other.
LoadedAtOneMoment == authority # Nothing /\ point = 0 => AtOneMoment(authority)

\* An authority that was rebuilt before its use is exact, and all of it was on trees at one
\* moment of the rebuilding, whatever was replaced during the first reconstruction.
RequiredIsExact == confirmed => OfOneLineage(authority) /\ AtOneMoment(authority)

\* An authority says what was on disk at one moment although its trees are read one after
\* the other while they are replaced: once it was rebuilt, and that of an activation, whose
\* trees are hashed before and after, from the first (activation/authority_binding.py).
AuthorityIsExact == XTypeOK /\ RequiredIsExact /\ (level = 6 => LoadedIsExact /\ LoadedAtOneMoment)
=============================================================================
