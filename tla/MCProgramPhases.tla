------------------------- MODULE MCProgramPhases -------------------------
(***************************************************************************)
(* A chain of three phases with a human gate after the first, and two      *)
(* other plans to revise it to: one that changes the second phase, one     *)
(* that turns its dependency on the first around, sets an external gate    *)
(* before it and the human gate after it, and drops the third.  Or, for    *)
(* the scheduler, two phases whose scopes meet.                            *)
(***************************************************************************)
EXTENDS ProgramPhases, TLC

CONSTANTS a, b, c, a1, a2, b1, b2, b3, c1, d1, e1, desk, bench

InOrder == a :> 1 @@ b :> 2 @@ c :> 3
MCNeeds == [x \in Bodies |->
    CASE x \in {b1, b2} -> {a} [] x \in {a2, c1} -> {b} [] OTHER -> {}]
MCCore == [x \in Bodies |-> CASE x = a2 -> a1 [] x \in {b2, b3} -> b1 [] OTHER -> x]
MCEnough == [g \in HumanGates |-> {Voices}]

ChainBefore == [x \in Bodies |-> IF x = b3 THEN {bench} ELSE {}]
ChainAfter == [x \in Bodies |-> IF x \in {a1, b3} THEN {desk} ELSE {}]
ChainDraft == a :> a1 @@ b :> b1 @@ c :> c1
Turned == a :> a2 @@ b :> b3
Chain == {ChainDraft, [ChainDraft EXCEPT ![b] = b2], Turned}
ChainRank == [p \in Chain |-> IF p = Turned THEN b :> 1 @@ a :> 2 @@ c :> 3 ELSE InOrder]

ApartBefore == [x \in Bodies |-> IF x = d1 THEN {bench} ELSE {}]
ApartAfter == [x \in Bodies |-> {}]
ApartOverlaps == {<<d1, e1>>, <<e1, d1>>}
ApartDraft == a :> d1 @@ b :> e1
Apart == {ApartDraft}
ApartRank == [p \in Apart |-> InOrder]

LoopSymmetry == Permutations(Loops)
=============================================================================
