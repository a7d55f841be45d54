---------------------------- MODULE AppendOnlyLog ---------------------------
(***************************************************************************)
(* What the integrity ledger promises: one log that everyone sees, to      *)
(* which a transaction adds its entries together and at the end, and from  *)
(* which nothing that was once there is ever taken away or reordered.      *)
(***************************************************************************)
EXTENDS Naturals, Sequences

CONSTANT Item

VARIABLE log

Init == log = <<>>

Add ==
    /\ log' \in Seq(Item)
    /\ Len(log') >= Len(log)
    /\ SubSeq(log', 1, Len(log)) = log

Spec == Init /\ [][Add]_log
=============================================================================
