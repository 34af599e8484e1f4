---------------------------- MODULE DurableLoop ----------------------------
(***************************************************************************)
(* What the multi-file store of one loop promises: a single durable cell.  *)
(* It is empty until the loop's first transaction, and from then on it is  *)
(* replaced, in one indivisible step, by a transaction that extends the    *)
(* one it holds.  Crashes and I/O errors are not visible here at all.      *)
(***************************************************************************)
EXTENDS LoopTransaction

VARIABLE cell

Init == cell = NoFile

Create == cell = NoFile /\ cell' \in FirstTransactions

Extend == cell # NoFile /\ cell' \in Successors(cell)

Next == Create \/ Extend

Spec == Init /\ [][Next]_cell
=============================================================================
