--------------------------- MODULE CheckoutMutex ---------------------------
(***************************************************************************)
(* What the lease of a Git checkout is for: at any time at most one loop   *)
(* may write to the checkout, and the right to write passes from one loop  *)
(* to another only through a state in which nobody has it.                 *)
(***************************************************************************)
CONSTANTS Loops, None

VARIABLE writer

Init == writer = None

Acquire(l) == writer = None /\ writer' = l

Release(l) == writer = l /\ writer' = None

Next == \E l \in Loops : Acquire(l) \/ Release(l)

Spec == Init /\ [][Next]_writer
=============================================================================
