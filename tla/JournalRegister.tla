------------------------------ MODULE JournalRegister ------------------------------
(***************************************************************************)
(* What the journal store promises for one operation: a single document    *)
(* whose versions follow one another, and of which a version that a write  *)
(* has acknowledged is never lost, whatever dies.                          *)
(***************************************************************************)
EXTENDS Naturals

VARIABLES value,   \* version of the document a reader finds, 0 when there is none
          acked    \* newest version whose create or write returned

Init == value = 0 /\ acked = 0

Write == value' = value + 1 /\ UNCHANGED acked

Acknowledge == acked' = value /\ UNCHANGED value

\* A machine failure may take back versions nobody was promised.
Lose == value' \in acked .. value /\ UNCHANGED acked

Next == Write \/ Acknowledge \/ Lose

Spec == Init /\ [][Next]_<<value, acked>>
=============================================================================
