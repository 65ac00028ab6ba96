------------------------------ MODULE AppendLog ------------------------------
(***************************************************************************)
(* What a registry promises: a log to which one item at a time is          *)
(* appended, of which a prefix was acknowledged.  Nothing is ever taken    *)
(* out of it, replaced in it or put before what is there.                  *)
(***************************************************************************)
EXTENDS Naturals, Sequences

CONSTANT Items

VARIABLES log, acked

Init == log = << >> /\ acked = 0

Commit == \E i \in Items : log' = Append(log, i) /\ UNCHANGED acked

\* The acknowledgement follows the commit, and may never come.
Acknowledge == acked < Len(log) /\ acked' = Len(log) /\ UNCHANGED log

Next == Commit \/ Acknowledge

Spec == Init /\ [][Next]_<<log, acked>>
==============================================================================
