-------------------------- MODULE AttemptSchedule --------------------------
(***************************************************************************)
(* What a study promises about its scored attempts: the cells of a frozen  *)
(* schedule are taken up in its order, a few at a time; a cell that was    *)
(* taken up may be put back until its attempt is consumed, and never       *)
(* after; and the set is sealed when every attempt has ended.              *)
(***************************************************************************)
EXTENDS Naturals, FiniteSets

CONSTANTS NumCells, MaxParallel

VARIABLES state, sealed

Cells == 1 .. NumCells

Under == {c \in Cells : state[c] \in {"reserved", "consumed"}}

Init ==
    /\ state = [c \in Cells |-> "pending"]
    /\ sealed = FALSE

Reserve(c) ==
    /\ state[c] = "pending" /\ \A d \in 1 .. c - 1 : state[d] # "pending"
    /\ Cardinality(Under) < MaxParallel
    /\ state' = [state EXCEPT ![c] = "reserved"]
    /\ UNCHANGED sealed

Move(c, from, to) ==
    /\ state[c] = from
    /\ state' = [state EXCEPT ![c] = to]
    /\ UNCHANGED sealed

Seal ==
    /\ ~sealed /\ \A c \in Cells : state[c] = "terminal"
    /\ sealed' = TRUE
    /\ UNCHANGED state

Next ==
    \/ Seal
    \/ \E c \in Cells :
         \/ Reserve(c)
         \/ Move(c, "reserved", "pending")
         \/ Move(c, "reserved", "consumed")
         \/ Move(c, "consumed", "terminal")

Spec == Init /\ [][Next]_<<state, sealed>>
=============================================================================
