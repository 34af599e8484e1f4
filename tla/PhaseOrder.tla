----------------------------- MODULE PhaseOrder -----------------------------
(***************************************************************************)
(* What a program of phases promises about its work: a phase is begun only *)
(* on dependencies that are proved, proved only once begun, and withdrawn  *)
(* only together with all that was built on it, also when the plan itself  *)
(* is replaced.                                                            *)
(***************************************************************************)
CONSTANTS Phases, Plans, Needs

VARIABLES plan, begun, proved

vars == <<plan, begun, proved>>

Init == plan \in Plans /\ begun = {} /\ proved = {}

Begin(p) ==
    /\ p \in DOMAIN plan \ begun
    /\ Needs[plan[p]] \subseteq proved
    /\ begun' = begun \union {p}
    /\ UNCHANGED <<plan, proved>>

Prove(p) ==
    /\ p \in begun
    /\ proved' = proved \union {p}
    /\ UNCHANGED <<plan, begun>>

\* The phases that keep their work keep their terms and all they rest on.
Withdraw ==
    /\ plan' \in Plans
    /\ begun' \subseteq begun
    /\ proved' = proved \intersect begun'
    /\ \A p \in begun' :
          p \in DOMAIN plan' /\ plan'[p] = plan[p] /\ Needs[plan[p]] \subseteq begun'

Next == Withdraw \/ \E p \in Phases : Begin(p) \/ Prove(p)

Spec == Init /\ [][Next]_vars
=============================================================================
