-------------------------- MODULE MCLoopLifecycle --------------------------
(***************************************************************************)
(* A loop over a few project states.  The terms t1 ask for a QA receipt    *)
(* and an artifact and forbid the states wide and stray; t2 allow every    *)
(* state but demand a handoff receipt and an owner's approval.  So narrow  *)
(* is complete under t1, narrow and wide are under t2, and stray would be  *)
(* complete under t1 if it were in scope.  The terms t3 ask for the        *)
(* owner's approval only.                                                  *)
(***************************************************************************)
EXTENDS LoopLifecycle, TLC

CONSTANTS base, stray, narrow, wide, qa, artifact, handoff, t1, t2, t3, owner

MCChecks == {qa, artifact, handoff}
MCPassing ==
    [p \in Prints |->
        CASE p = base -> {}
          [] p = stray -> {qa, artifact}
          [] p = narrow -> {qa, artifact, handoff}
          [] p = wide -> {handoff}]
MCCriteria ==
    [t \in Terms |-> IF t = t1 THEN {qa, artifact} ELSE IF t = t2 THEN {handoff} ELSE {}]
MCKeys     == [t \in Terms |-> IF t = t1 THEN {} ELSE {owner}]
MCGates    == [t \in Terms |-> IF t = t2 THEN {handoff} ELSE {}]
MCEscaping == [t \in Terms |-> IF t = t1 THEN {wide, stray} \intersect Prints ELSE {}]

ClientSymmetry == Permutations(Clients)
=============================================================================
