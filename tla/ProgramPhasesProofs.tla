------------------------ MODULE ProgramPhasesProofs ------------------------
(***************************************************************************)
(* What ProgramPhases promises for any phase graph, any gates and any      *)
(* number of child loops and calls in flight: work is built in order, a    *)
(* proof is of the bound child, the clock is honest, what is over is       *)
(* frozen.                                                                 *)
(***************************************************************************)
EXTENDS ProgramPhases, TLAPS

(***************************************************************************)
(* The conjuncts need each other: a completed program keeps its proofs     *)
(* because nothing is withdrawn from it, and a withdrawal keeps the order  *)
(* because the order held before it.                                       *)
(***************************************************************************)
Work == BuiltInOrder /\ ProofsMatch /\ OneLoopOnePhase
IInv == TypeOK /\ Work /\ ClockHonest /\ CompletionStands

-----------------------------------------------------------------------------
(* The phase graph.                                                        *)

\* What is grounded in S is in S.
LEMMA GroundedMembers ==
    ASSUME NEW thePlan, NEW S PROVE Grounded(thePlan, S) \subseteq S
BY DEF Grounded

\* With a phase, all it needs is grounded.
LEMMA GroundedNeeds ==
    ASSUME NEW thePlan, NEW S, NEW p \in Grounded(thePlan, S)
    PROVE  Needs[thePlan[p]] \subseteq Grounded(thePlan, S)
BY DEF Grounded

\* What needs nothing outside itself is grounded in anything around it.
LEMMA GroundedLargest ==
    ASSUME NEW thePlan, NEW S, NEW T \in SUBSET S,
           \A p \in T : Needs[thePlan[p]] \subseteq T
    PROVE  T \subseteq Grounded(thePlan, S)
BY DEF Grounded

\* There are no cycles: what a phase needs does not rest on the phase.
LEMMA NeedsStandApart ==
    ASSUME NEW thePlan \in Plans, NEW p \in DOMAIN thePlan, NEW d \in Needs[thePlan[p]]
    PROVE  d \in Grounded(thePlan, DOMAIN thePlan \ {p})
<1> DEFINE T == {q \in DOMAIN thePlan : Rank[thePlan][q] < Rank[thePlan][p]}
<1>1. T \in SUBSET (DOMAIN thePlan \ {p})
    BY PlanAssumption, ProgramAssumption
<1>2. \A q \in T : Needs[thePlan[q]] \subseteq T
    BY PlanAssumption, ProgramAssumption
<1>3. T \subseteq Grounded(thePlan, DOMAIN thePlan \ {p})
    BY <1>1, <1>2, GroundedLargest
<1>4. d \in T
    BY PlanAssumption
<1> QED BY <1>3, <1>4

\* A gate is of one phase at most.
LEMMA OneOwner ==
    ASSUME TypeOK, NEW g, NEW p \in ProvedAt(g) PROVE ProvedAt(g) = {p}
BY PlanAssumption DEF TypeOK, ProvedAt, Ids, GatesOf

\* A completed phase has a proof.
LEMMA CompletedHaveProof ==
    ASSUME NEW p \in Completed PROVE p \in Ids /\ proof[p] # None
BY GroundedMembers DEF Completed

\* A phase the scheduler chose is ready, and the program is not over.
LEMMA ScheduledIsReady ==
    ASSUME NEW p, Scheduled(p)
    PROVE  /\ p \in Ids /\ child[p] = None /\ proof[p] = None
           /\ \A d \in Needs[plan[p]] : proof[d] # None
           /\ status \notin Terminal /\ ~manualPause
<1>1. p \in Ready /\ Public = "running"
    BY DEF Scheduled
<1>2. status \notin Terminal /\ ~manualPause
    BY <1>1 DEF Public, Effective, Terminal
<1>3. p \in Ids /\ child[p] = None /\ proof[p] = None /\ Needs[plan[p]] \subseteq Completed
    BY <1>1 DEF Ready, Clear
<1> QED BY <1>2, <1>3, CompletedHaveProof

-----------------------------------------------------------------------------
(* Types.                                                                  *)

LEMMA InitType == Init => TypeOK
<1> SUFFICES ASSUME Init PROVE TypeOK
    OBVIOUS
<1>1. clockState \in {"running", "paused"}
    BY DEF Init
<1>2. loop \in [Loops -> LoopRecord]
    BY ProgramAssumption DEF Init, LoopRecord
<1>3. plan \in Plans /\ revision \in 1..MaxRevisions
    BY PlanAssumption, ProgramAssumption DEF Init
<1> QED BY <1>1, <1>2, <1>3 DEF Init, TypeOK

\* A call in flight is one of the records its operation reads.
LEMMA CallFields ==
    ASSUME TypeOK, NEW c \in calls
    PROVE  /\ c.op \in {"bind", "complete"} =>
                 c.phase \in Phases /\ c.loop \in Loops /\ c.edition \in 1..MaxEditions
           /\ c.op = "complete" => c.body \in Bodies /\ c.head \in 0..MaxHeads
<1>1. c \in CallRecord
    BY DEF TypeOK
<1> QED BY <1>1 DEF CallRecord

\* One more call with what it has read.
LEMMA ToolReadsType == TypeOK /\ ToolReads => TypeOK'
<1> SUFFICES ASSUME TypeOK, ToolReads PROVE TypeOK'
    OBVIOUS
<1>1. \A p \in Ids : p \in Phases /\ plan[p] \in Bodies
    BY PlanAssumption DEF TypeOK, Ids
<1>2. ASSUME NEW c \in CallRecord, Ask(c) PROVE TypeOK'
    BY <1>2 DEF Ask, TypeOK, contract, phases, gates, time
<1>3. CASE AskBind
    <2>1. PICK thePlan \in Plans, l \in Loops : \E p \in DOMAIN thePlan :
              Ask([op |-> "bind", phase |-> p, loop |-> l,
                   edition |-> loop[l].edition, core |-> Core[thePlan[p]]])
        BY <1>3 DEF AskBind
    <2>2. PICK p \in DOMAIN thePlan :
              Ask([op |-> "bind", phase |-> p, loop |-> l,
                   edition |-> loop[l].edition, core |-> Core[thePlan[p]]])
        BY <2>1
    <2>3. loop[l].edition \in 1..MaxEditions
        BY DEF TypeOK, LoopRecord
    <2>4. p \in Phases /\ Core[thePlan[p]] \in Cores
        BY PlanAssumption DEF Cores
    <2> QED BY <1>2, <2>2, <2>3, <2>4 DEF CallRecord
<1>4. ASSUME NEW p \in Ids, AskComplete(p) PROVE TypeOK'
    <2>1. child[p] \in ChildRecord
        BY <1>1, <1>4 DEF AskComplete, TypeOK
    <2>2. child[p].loop \in Loops
        BY <2>1 DEF ChildRecord
    <2>3. loop[child[p].loop] \in LoopRecord
        BY <2>2 DEF TypeOK
    <2> DEFINE l == loop[child[p].loop]
    <2>4. l.edition \in 1..MaxEditions /\ l.head \in 0..MaxHeads
        BY <2>3 DEF LoopRecord
    <2> QED BY <1>1, <1>2, <1>4, <2>2, <2>4 DEF AskComplete, CallRecord
<1>5. CASE AskFinalize
    BY <1>2, <1>5 DEF AskFinalize, CallRecord, TypeOK
<1>6. CASE AskPause \/ AskCancel \/ AskResume
    BY <1>2, <1>6 DEF AskPause, AskCancel, AskResume, CallRecord
<1> QED BY <1>3, <1>4, <1>5, <1>6 DEF ToolReads

\* The clock is in one of its states after every commit.
LEMMA SyncType == SyncClock => clockState' \in {"running", "paused"} /\ aged' = FALSE
BY DEF SyncClock

LEMMA CommitType == ASSUME TypeOK, NEW c \in calls, Commit(c) PROVE TypeOK'
<1> USE CallFields, SyncType
<1>1. CASE Bind(c)
    <2>1. c.phase \in Phases /\ plan[c.phase] \in Bodies
        BY <1>1, ScheduledIsReady, PlanAssumption DEF Bind, TypeOK, Ids
    <2>2. [loop |-> c.loop, edition |-> c.edition, body |-> plan[c.phase]] \in ChildRecord
        BY <1>1, <2>1 DEF Bind, ChildRecord
    <2> QED BY <1>1, <2>1, <2>2 DEF Bind, TypeOK, contract, gates
<1>2. CASE Complete(c)
    <2>1. [loop |-> c.loop, edition |-> c.edition, body |-> c.body, head |-> c.head]
              \in ProofRecord
        BY <1>2 DEF Complete, ProofRecord
    <2> QED BY <1>2, <2>1 DEF Complete, TypeOK, contract, gates
<1>3. CASE Pause(c) \/ Resume(c)
    BY <1>3 DEF Pause, Resume, TypeOK, contract, phases, gates
<1>4. CASE Cancel(c) \/ Finalize(c)
    BY <1>4 DEF Cancel, Finalize, TypeOK, contract, phases, gates
<1> QED BY <1>1, <1>2, <1>3, <1>4 DEF Commit

\* Withdrawing leaves records or nothing.
LEMMA WithdrawType ==
    ASSUME TypeOK, NEW S, WithdrawAbove(S)
    PROVE  /\ child' \in [Phases -> ChildRecord \union {None}]
           /\ proof' \in [Phases -> ProofRecord \union {None}]
BY DEF WithdrawAbove, TypeOK

LEMMA GateType == TypeOK /\ GateStep => TypeOK'
<1> SUFFICES ASSUME TypeOK, GateStep PROVE TypeOK'
    OBVIOUS
<1> USE SyncType, WithdrawType
<1>1. ASSUME NEW g \in HumanGates, NEW v \in Voices, NEW decision \in {"approved", "rejected"},
             ResolveGate(g, v, decision)
      PROVE  TypeOK'
    <2>1. approvals' \in [HumanGates -> [Voices -> {"none", "approved", "rejected"}]]
        BY <1>1 DEF ResolveGate, TypeOK
    <2> QED BY <1>1, <2>1 DEF ResolveGate, TypeOK, contract
<1>2. ASSUME NEW g \in HumanGates, NEW v \in Voices, ExpireDecision(g, v) PROVE TypeOK'
    <2>1. approvals' \in [HumanGates -> [Voices -> {"none", "approved", "rejected"}]]
        BY <1>2 DEF ExpireDecision, TypeOK
    <2> QED BY <1>2, <2>1 DEF ExpireDecision, TypeOK, contract, phases
<1>3. ASSUME NEW g \in ExternalGates, RegisterEvidence(g) PROVE TypeOK'
    <2>1. evidence' \in [ExternalGates -> {"none", "fresh", "expired"}]
        BY <1>3 DEF RegisterEvidence, TypeOK
    <2> QED BY <1>3, <2>1 DEF RegisterEvidence, TypeOK, contract
<1>4. ASSUME NEW g \in ExternalGates, ExpireEvidence(g) PROVE TypeOK'
    BY <1>4 DEF ExpireEvidence, TypeOK, contract, phases
<1> QED BY <1>1, <1>2, <1>3, <1>4 DEF GateStep

LEMMA ReviseType == ASSUME TypeOK, NEW new \in Plans, Revise(new) PROVE TypeOK'
<1>1. /\ child' \in [Phases -> ChildRecord \union {None}]
      /\ proof' \in [Phases -> ProofRecord \union {None}]
    BY DEF Revise, TypeOK
<1>2. revision' \in 1..MaxRevisions
    BY ProgramAssumption DEF Revise, Revisable, TypeOK
<1> QED BY <1>1, <1>2, SyncType DEF Revise, TypeOK

LEMMA LoopType == TypeOK /\ LoopAction => TypeOK'
<1> SUFFICES ASSUME TypeOK, NEW l \in Loops,
                    LoopWait(l) \/ LoopRevise(l) \/ LoopFinalize(l) \/ LoopRevalidate(l)
             PROVE  TypeOK'
    BY DEF LoopAction
<1>1. loop[l] \in LoopRecord
    BY DEF TypeOK
<1>2. PICK state \in LoopRecord : LoopStep(l, state)
    <2>1. CASE LoopWait(l)
        <3>1. [loop[l] EXCEPT !.status = "waiting"] \in LoopRecord
            BY <1>1 DEF LoopRecord
        <3> QED BY <2>1, <3>1 DEF LoopWait
    <2>2. CASE LoopRevise(l)
        <3>1. loop[l].edition + 1 \in 1..MaxEditions
            BY <1>1, <2>2, ProgramAssumption DEF LoopRevise, LoopRecord
        <3>2. [loop[l] EXCEPT !.status = "active", !.edition = loop[l].edition + 1]
                  \in LoopRecord
            BY <1>1, <3>1 DEF LoopRecord
        <3> QED BY <2>2, <3>2 DEF LoopRevise
    <2>3. CASE LoopFinalize(l)
        <3>1. [loop[l] EXCEPT !.status = "completed"] \in LoopRecord
            BY <1>1 DEF LoopRecord
        <3> QED BY <2>3, <3>1 DEF LoopFinalize
    <2>4. CASE LoopRevalidate(l)
        <3>1. [loop[l] EXCEPT !.head = @ + 1] \in LoopRecord
            BY <2>4, ProgramAssumption, <1>1 DEF LoopRevalidate, LoopRecord
        <3> QED BY <2>4, <3>1 DEF LoopRevalidate
    <2> QED BY <2>1, <2>2, <2>3, <2>4
<1>3. loop' \in [Loops -> LoopRecord]
    BY <1>2 DEF LoopStep, TypeOK
<1> QED BY <1>2, <1>3 DEF LoopStep, TypeOK, contract, phases, gates, time

\* No step leaves the types.
LEMMA TypeStep == TypeOK /\ [Next]_vars => TypeOK'
<1> SUFFICES ASSUME TypeOK, [Next]_vars PROVE TypeOK'
    OBVIOUS
<1>1. ASSUME NEW c \in calls, Refused(c) PROVE TypeOK'
    BY <1>1 DEF Refused, TypeOK, contract, phases, gates, time
<1>2. CASE Exhaust
    BY <1>2 DEF Exhaust, TypeOK, contract, phases, gates
<1>3. CASE UNCHANGED vars
    BY <1>3 DEF vars, TypeOK, contract, phases, gates, time
<1> QED BY <1>1, <1>2, <1>3, ToolReadsType, CommitType, GateType, ReviseType, LoopType DEF Next

-----------------------------------------------------------------------------
(* The order of the work.                                                  *)

\* A step that leaves the plan and the phases alone leaves Work alone.
LEMMA WorkStays == Work /\ UNCHANGED <<plan, child, proof>> => Work'
BY DEF Work, BuiltInOrder, ProofsMatch, OneLoopOnePhase, Ids

LEMMA BindWork == ASSUME TypeOK, Work, NEW c \in calls, Bind(c) PROVE Work'
<1> DEFINE p == c.phase
<1>1. /\ p \in Ids /\ p \in Phases /\ child[p] = None /\ proof[p] = None
      /\ \A d \in Needs[plan[p]] : proof[d] # None
    BY ScheduledIsReady, CallFields DEF Bind
<1>2. /\ plan' = plan /\ proof' = proof
      /\ \A q \in Phases : q # p => child'[q] = child[q]
      /\ child'[p] = [loop |-> c.loop, edition |-> c.edition, body |-> plan[p]]
    BY <1>1 DEF Bind, contract, TypeOK
<1>3. BuiltInOrder'
    BY <1>1, <1>2 DEF Work, BuiltInOrder, Ids
<1>4. Ids \subseteq Phases
    BY PlanAssumption DEF TypeOK, Ids
<1>5. ProofsMatch'
    BY <1>1, <1>2, <1>4 DEF Work, ProofsMatch, Ids
<1>6. OneLoopOnePhase'
    <2>1. \A q \in Ids : child[q] # None => child[q].loop # c.loop
        BY DEF Bind, Unbound
    <2> QED BY <1>1, <1>2, <1>4, <2>1 DEF Work, OneLoopOnePhase, Ids
<1> QED BY <1>3, <1>5, <1>6 DEF Work

LEMMA CompleteWork == ASSUME TypeOK, Work, NEW c \in calls, Complete(c) PROVE Work'
<1> DEFINE p == c.phase
<1>1. p \in Ids /\ p \in Phases /\ child[p] # None /\ Matches(c)
    BY CallFields DEF Complete
<1>2. /\ plan' = plan /\ child' = child
      /\ \A q \in Phases : q # p => proof'[q] = proof[q]
      /\ proof'[p] = [loop |-> c.loop, edition |-> c.edition, body |-> c.body, head |-> c.head]
    BY <1>1 DEF Complete, contract, TypeOK
<1>3. proof'[p] # None
    <2>1. c.loop \in Loops /\ c.edition \in Nat /\ c.body \in Bodies /\ c.head \in Nat
        BY CallFields, ProgramAssumption DEF Complete
    <2> QED BY <1>2, <2>1, ProgramAssumption
<1>4. Ids \subseteq Phases
    BY PlanAssumption DEF TypeOK, Ids
<1>5. BuiltInOrder'
    <2>1. \A q \in Ids : Needs[plan[q]] \subseteq Phases
        BY PlanAssumption DEF TypeOK, Ids
    <2> QED BY <1>1, <1>2, <1>3, <2>1 DEF Work, BuiltInOrder, Ids
<1>6. ProofsMatch'
    BY <1>1, <1>2, <1>4 DEF Work, ProofsMatch, Ids, Matches
<1>7. OneLoopOnePhase'
    BY <1>2 DEF Work, OneLoopOnePhase, Ids
<1> QED BY <1>5, <1>6, <1>7 DEF Work

\* Taking work from phases, and from all that rests on them, keeps the order.
LEMMA KeepWork ==
    ASSUME TypeOK, Work, NEW K \in SUBSET Ids, plan' = plan,
           child' = [p \in Phases |-> IF p \in K THEN child[p] ELSE None],
           proof' = [p \in Phases |-> IF p \in K THEN proof[p] ELSE None],
           \A p \in K : child[p] # None => Needs[plan[p]] \subseteq K
    PROVE  Work'
<1>1. Ids \subseteq Phases /\ \A p \in Ids : Needs[plan[p]] \subseteq Ids
    BY PlanAssumption DEF TypeOK, Ids
<1>2. BuiltInOrder'
    BY <1>1 DEF Work, BuiltInOrder, Ids
<1>3. ProofsMatch'
    BY <1>1 DEF Work, ProofsMatch, BuiltInOrder, Ids
<1>4. OneLoopOnePhase'
    BY <1>1 DEF Work, OneLoopOnePhase, Ids
<1> QED BY <1>2, <1>3, <1>4 DEF Work

\* A gate's change takes the work of what rests on its phase, not of the phase.
LEMMA WithdrawWork ==
    ASSUME TypeOK, Work, plan' = plan, NEW S, WithdrawAbove(S),
           S = {} \/ \E p \in Ids : S = {p}
    PROVE  Work'
<1> DEFINE K == Grounded(plan, Ids \ S) \union S
<1>1. K \in SUBSET Ids
    BY GroundedMembers
<1>2. \A p \in K : Needs[plan[p]] \subseteq K
    <2>1. ASSUME NEW p \in Grounded(plan, Ids \ S) PROVE Needs[plan[p]] \subseteq K
        BY GroundedNeeds
    <2>2. ASSUME NEW p \in S PROVE Needs[plan[p]] \subseteq K
        <3>1. S = {p} /\ p \in DOMAIN plan /\ plan \in Plans
            BY <1>1, <2>2 DEF Ids, TypeOK
        <3> QED BY <3>1, NeedsStandApart DEF Ids
    <2> QED BY <2>1, <2>2
<1>3. \A p \in Phases : p \notin Ids => child[p] = None /\ proof[p] = None
    BY DEF Work, BuiltInOrder
<1>4. /\ child' = [p \in Phases |-> IF p \in K THEN child[p] ELSE None]
      /\ proof' = [p \in Phases |-> IF p \in K THEN proof[p] ELSE None]
    BY <1>3 DEF WithdrawAbove
<1> HIDE DEF K
<1> QED BY <1>1, <1>2, <1>4, KeepWork

LEMMA GateWork == TypeOK /\ Work /\ GateStep => Work'
<1> SUFFICES ASSUME TypeOK, Work, GateStep PROVE Work'
    OBVIOUS
<1>1. ASSUME NEW g, NEW S, S = {} \/ S = ProvedAt(g) PROVE S = {} \/ \E p \in Ids : S = {p}
    BY <1>1, OneOwner DEF ProvedAt
<1>2. ASSUME NEW g \in HumanGates, NEW v, NEW decision, ResolveGate(g, v, decision) PROVE Work'
    BY <1>1, <1>2, WithdrawWork DEF ResolveGate, contract
<1>3. ASSUME NEW g \in ExternalGates, RegisterEvidence(g) PROVE Work'
    BY <1>1, <1>3, WithdrawWork DEF RegisterEvidence, contract
<1>4. ASSUME NEW g \in HumanGates, NEW v, ExpireDecision(g, v) PROVE Work'
    BY <1>4, WorkStays DEF ExpireDecision, contract, phases
<1>5. ASSUME NEW g \in ExternalGates, ExpireEvidence(g) PROVE Work'
    BY <1>5, WorkStays DEF ExpireEvidence, contract, phases
<1> QED BY <1>2, <1>3, <1>4, <1>5 DEF GateStep

\* A revision keeps a phase only with the same terms and all it rests on.
LEMMA ReviseWork == ASSUME TypeOK, Work, NEW new \in Plans, Revise(new) PROVE Work'
<1>1. /\ Kept(new) \subseteq Ids \intersect DOMAIN new
      /\ \A p \in Kept(new) : new[p] = plan[p] /\ Needs[new[p]] \subseteq Kept(new)
    BY GroundedMembers, GroundedNeeds DEF Kept
<1>2. /\ plan' = new
      /\ child' = [p \in Phases |-> IF p \in Kept(new) THEN child[p] ELSE None]
      /\ proof' = [p \in Phases |-> IF p \in Kept(new) THEN proof[p] ELSE None]
    BY DEF Revise
<1>3. Ids \subseteq Phases /\ DOMAIN new \subseteq Phases
    BY PlanAssumption DEF TypeOK, Ids
<1> HIDE DEF Kept
<1>4. BuiltInOrder'
    BY <1>1, <1>2, <1>3 DEF Work, BuiltInOrder, Ids
<1>5. ProofsMatch'
    BY <1>1, <1>2, <1>3 DEF Work, BuiltInOrder, ProofsMatch, Ids
<1>6. OneLoopOnePhase'
    BY <1>1, <1>2, <1>3 DEF Work, OneLoopOnePhase, Ids
<1> QED BY <1>4, <1>5, <1>6 DEF Work

\* No step leaves the order of the work.
LEMMA WorkStep == TypeOK /\ Work /\ [Next]_vars => Work'
<1> SUFFICES ASSUME TypeOK, Work, [Next]_vars PROVE Work'
    OBVIOUS
<1>1. CASE ToolReads
    BY <1>1, WorkStays DEF ToolReads, AskBind, AskComplete, AskFinalize, AskPause, AskCancel,
       AskResume, Ask, contract, phases
<1>2. ASSUME NEW c \in calls, Pause(c) \/ Resume(c) \/ Cancel(c) \/ Finalize(c) \/ Refused(c)
      PROVE  Work'
    BY <1>2, WorkStays DEF Pause, Resume, Cancel, Finalize, Refused, contract, phases
<1>3. CASE Exhaust
    BY <1>3, WorkStays DEF Exhaust, contract, phases
<1>4. CASE LoopAction
    BY <1>4, WorkStays DEF LoopAction, LoopWait, LoopRevise, LoopFinalize, LoopRevalidate,
       LoopStep, contract, phases
<1>5. CASE UNCHANGED vars
    BY <1>5, WorkStays DEF vars, contract, phases
<1> QED BY <1>1, <1>2, <1>3, <1>4, <1>5, BindWork, CompleteWork, GateWork, ReviseWork
        DEF Next, Commit

-----------------------------------------------------------------------------
(* The clock, and what is over.                                            *)

\* What a program has to do depends on nothing but what the snapshot holds.
LEMMA EffectiveStays ==
    UNCHANGED <<plan, status, manualPause, child, proof, approvals, evidence>>
        => Effective' = Effective
BY DEF Effective, AllComplete, FinalSatisfied, Clear, Completed, Ids, BeforeReady, AfterReady,
   PhaseRejected, GatesOf, Satisfied, Rejected

\* No step leaves the clock running for nothing, or idle.
LEMMA ClockStep == ClockHonest /\ [Next]_vars => ClockHonest'
<1> SUFFICES ASSUME ClockHonest, [Next]_vars PROVE ClockHonest'
    OBVIOUS
<1>1. CASE SyncClock
    BY <1>1 DEF SyncClock, ClockHonest
<1>2. CASE aged' = TRUE \/ spent' = TRUE
    BY <1>2 DEF ClockHonest
<1>3. CASE UNCHANGED <<plan, status, manualPause, child, proof, approvals, evidence,
                       clockState, spent, aged>>
    BY <1>3, EffectiveStays DEF ClockHonest
<1>4. ASSUME NEW c \in calls, Commit(c) PROVE SyncClock
    BY <1>4 DEF Commit, Bind, Complete, Pause, Resume, Cancel, Finalize
<1>5. CASE GateStep
    BY <1>1, <1>2, <1>5
       DEF GateStep, ResolveGate, RegisterEvidence, ExpireDecision, ExpireEvidence
<1>6. ASSUME NEW new \in Plans, Revise(new) PROVE SyncClock
    BY <1>6 DEF Revise
<1>7. CASE Exhaust
    BY <1>2, <1>7 DEF Exhaust
<1>8. CASE ToolReads
    BY <1>3, <1>8 DEF ToolReads, AskBind, AskComplete, AskFinalize, AskPause, AskCancel,
       AskResume, Ask, contract, phases, gates, time
<1>9. CASE LoopAction
    BY <1>3, <1>9 DEF LoopAction, LoopWait, LoopRevise, LoopFinalize, LoopRevalidate,
       LoopStep, contract, phases, gates, time
<1>10. ASSUME NEW c \in calls, Refused(c) PROVE ClockHonest'
    BY <1>3, <1>10 DEF Refused, contract, phases, gates, time
<1>11. CASE UNCHANGED vars
    BY <1>3, <1>11 DEF vars, contract, phases, gates, time
<1> QED BY <1>1, <1>4, <1>5, <1>6, <1>7, <1>8, <1>9, <1>10, <1>11 DEF Next

\* Of a program that is over, no step touches the contract or the phases.
LEMMA TerminalStep ==
    TypeOK /\ status \in Terminal /\ [Next]_vars => UNCHANGED <<contract, status, phases>>
<1> SUFFICES ASSUME TypeOK, status \in Terminal, [Next]_vars
             PROVE  UNCHANGED <<contract, status, phases>>
    OBVIOUS
<1>1. ASSUME NEW c \in calls, Commit(c) PROVE UNCHANGED <<contract, status, phases>>
    <2>1. ~Bind(c)
        BY ScheduledIsReady DEF Bind
    <2>2. ~Complete(c) /\ ~Pause(c) /\ ~Resume(c) /\ ~Cancel(c)
        BY DEF Complete, Workable, Pause, Resume, Cancel
    <2>3. CASE Finalize(c)
        BY <2>3 DEF Finalize, Terminal
    <2> QED BY <1>1, <2>1, <2>2, <2>3 DEF Commit
<1>2. CASE GateStep
    BY <1>2 DEF GateStep, ResolveGate, RegisterEvidence, ExpireDecision, ExpireEvidence
<1>3. ASSUME NEW new \in Plans, Revise(new) PROVE FALSE
    BY <1>3 DEF Revise, Revisable
<1>4. CASE ToolReads
    BY <1>4 DEF ToolReads, AskBind, AskComplete, AskFinalize, AskPause, AskCancel,
       AskResume, Ask
<1>5. ASSUME NEW c \in calls, Refused(c) PROVE UNCHANGED <<contract, status, phases>>
    BY <1>5 DEF Refused
<1>6. CASE Exhaust \/ UNCHANGED vars
    BY <1>6 DEF Exhaust, vars
<1>7. CASE LoopAction
    BY <1>7 DEF LoopAction, LoopWait, LoopRevise, LoopFinalize, LoopRevalidate, LoopStep
<1> QED BY <1>1, <1>2, <1>3, <1>4, <1>5, <1>6, <1>7 DEF Next

\* Only finalize completes a program, and it has just derived every phase.
LEMMA CompletionStep == TypeOK /\ CompletionStands /\ [Next]_vars => CompletionStands'
<1> SUFFICES ASSUME TypeOK, CompletionStands, [Next]_vars, status' = "completed"
             PROVE  \A p \in Ids' : proof'[p] # None
    BY DEF CompletionStands
<1>1. CASE status = "completed"
    BY <1>1, TerminalStep DEF Terminal, CompletionStands, contract, phases, Ids
<1>2. CASE status # "completed"
    <2>1. PICK c \in calls : Finalize(c)
        BY <1>2 DEF Next, Commit, Bind, Complete, Pause, Resume, Cancel, Refused, ToolReads,
           AskBind, AskComplete, AskFinalize, AskPause, AskCancel, AskResume, Ask, GateStep,
           ResolveGate, RegisterEvidence, ExpireDecision, ExpireEvidence, Revise, Exhaust,
           LoopAction, LoopWait, LoopRevise, LoopFinalize, LoopRevalidate, LoopStep, vars
    <2> QED BY <2>1, CompletedHaveProof DEF Finalize, Finished, AllComplete, contract, phases, Ids
<1> QED BY <1>1, <1>2

LEMMA InitInvariant == Init => IInv
<1> SUFFICES ASSUME Init PROVE IInv
    OBVIOUS
<1>1. Ids \subseteq Phases
    BY PlanAssumption DEF Init, Ids
<1>2. Work
    BY <1>1 DEF Init, Work, BuiltInOrder, ProofsMatch, OneLoopOnePhase
<1>3. ClockHonest
    BY DEF Init, ClockHonest
<1>4. CompletionStands
    BY DEF Init, CompletionStands
<1> QED BY <1>2, <1>3, <1>4, InitType DEF IInv

\* The invariant is inductive.
THEOREM Invariance == Spec => []IInv
<1>1. IInv /\ [Next]_vars => IInv'
    BY TypeStep, WorkStep, ClockStep, CompletionStep DEF IInv
<1> QED BY InitInvariant, <1>1, PTL DEF Spec

-----------------------------------------------------------------------------
(* The properties.                                                         *)

\* The snapshot, the child loops and the calls keep their types.
THEOREM TypeCorrect == Spec => []TypeOK
<1>1. IInv => TypeOK
    BY DEF IInv
<1> QED BY Invariance, <1>1, PTL

\* No phase holds work while something it depends on is unproved.
THEOREM Ordered == Spec => []BuiltInOrder
<1>1. IInv => BuiltInOrder
    BY DEF IInv, Work
<1> QED BY Invariance, <1>1, PTL

\* A proof is of the child the phase is bound to, under its present contract.
THEOREM Matched == Spec => []ProofsMatch
<1>1. IInv => ProofsMatch
    BY DEF IInv, Work
<1> QED BY Invariance, <1>1, PTL

\* No child loop serves two phases.
THEOREM Unshared == Spec => []OneLoopOnePhase
<1>1. IInv => OneLoopOnePhase
    BY DEF IInv, Work
<1> QED BY Invariance, <1>1, PTL

\* The clock runs just when there is something to do.
THEOREM Honest == Spec => []ClockHonest
<1>1. IInv => ClockHonest
    BY DEF IInv
<1> QED BY Invariance, <1>1, PTL

\* A completed program has all its proofs.
THEOREM Stands == Spec => []CompletionStands
<1>1. IInv => CompletionStands
    BY DEF IInv
<1> QED BY Invariance, <1>1, PTL

\* A program that is over stays as it was.
THEOREM Frozen == Spec => TerminalIsFrozen
<1>1. IInv /\ [Next]_vars => [(status \in Terminal) => UNCHANGED <<contract, status, phases>>]_vars
    BY TerminalStep DEF IInv
<1> QED BY Invariance, <1>1, PTL DEF Spec, TerminalIsFrozen

\* While a program stays paused no phase is begun or completed.
THEOREM Rested == Spec => PausedWorkStands
<1>1. ASSUME IInv, [Next]_vars, manualPause, manualPause', NEW p \in Phases
      PROVE  child'[p] \in {child[p], None} /\ proof'[p] \in {proof[p], None}
    <2>1. ASSUME NEW c \in calls, Commit(c) PROVE UNCHANGED phases
        <3>1. ~Bind(c)
            BY <1>1, ScheduledIsReady DEF Bind
        <3>2. ~Complete(c)
            BY <1>1 DEF Complete, Workable
        <3> QED BY <2>1, <3>1, <3>2 DEF Commit, Pause, Resume, Cancel, Finalize
    <2>2. CASE GateStep
        BY <2>2 DEF GateStep, ResolveGate, RegisterEvidence, ExpireDecision, ExpireEvidence,
           WithdrawAbove, phases
    <2>3. ASSUME NEW new \in Plans, Revise(new) PROVE FALSE
        BY <1>1, <2>3 DEF Revise
    <2>4. CASE ToolReads
        BY <2>4 DEF ToolReads, AskBind, AskComplete, AskFinalize, AskPause, AskCancel,
           AskResume, Ask, phases
    <2>5. ASSUME NEW c \in calls, Refused(c) PROVE UNCHANGED phases
        BY <2>5 DEF Refused
    <2>6. CASE Exhaust \/ UNCHANGED vars
        BY <2>6 DEF Exhaust, vars, phases
    <2>7. CASE LoopAction
        BY <2>7 DEF LoopAction, LoopWait, LoopRevise, LoopFinalize, LoopRevalidate, LoopStep,
           phases
    <2> QED BY <1>1, <2>1, <2>2, <2>3, <2>4, <2>5, <2>6, <2>7 DEF Next, phases
<1>2. IInv /\ [Next]_vars =>
        [manualPause /\ manualPause' =>
          (\A p \in Phases : /\ child'[p] \in {child[p], None}
                             /\ proof'[p] \in {proof[p], None})]_vars
    BY <1>1
<1> QED BY Invariance, <1>2, PTL DEF Spec, PausedWorkStands

-----------------------------------------------------------------------------
(* The refinement of PhaseOrder.                                           *)

begun == {p \in Phases : child[p] # None}
proved == {p \in Phases : proof[p] # None}

\* What is unchanged below is unchanged above.
LEMMA OrderStutters == UNCHANGED <<plan, child, proof>> => UNCHANGED Order!vars
BY DEF Order!vars

\* A step that only takes work away, and leaves an ordered rest, is a withdrawal.
LEMMA OrderWithdraws ==
    ASSUME TypeOK', Work, Work',
           \A p \in Phases : child'[p] # None =>
               p \in Ids /\ child'[p] = child[p] /\ proof'[p] = proof[p] /\ plan'[p] = plan[p],
           \A p \in Phases : child'[p] = None => proof'[p] = None
    PROVE  Order!Withdraw
<1>1. plan' \in Plans
    BY DEF TypeOK
<1>2. begun' \subseteq begun
    BY DEF begun
<1>3. proved' = proved \intersect begun'
    BY DEF begun, proved
<1>4. ASSUME NEW p \in begun'
      PROVE  p \in DOMAIN plan' /\ plan'[p] = plan[p] /\ Needs[plan[p]] \subseteq begun'
    <2>1. p \in Phases /\ child'[p] # None /\ p \in DOMAIN plan'
        BY <1>4 DEF begun, Work, BuiltInOrder, Ids
    <2>2. plan'[p] = plan[p] /\ \A d \in Needs[plan'[p]] : proof'[d] # None
        BY <2>1 DEF Work, BuiltInOrder, Ids
    <2>3. Needs[plan'[p]] \subseteq Phases
        BY <1>1, <2>1, PlanAssumption
    <2>4. \A d \in Phases : proof'[d] # None => child'[d] # None
        BY DEF Work, BuiltInOrder
    <2> QED BY <2>1, <2>2, <2>3, <2>4 DEF begun
<1> QED BY <1>1, <1>2, <1>3, <1>4 DEF Order!Withdraw, begun, proved

\* Every step is a step of PhaseOrder or leaves it alone.
LEMMA OrderStep ==
    ASSUME IInv, IInv', [Next]_vars PROVE [Order!Next]_(Order!vars)
<1> USE DEF IInv
<1>1. ASSUME NEW c \in calls, Bind(c) PROVE Order!Begin(c.phase) /\ c.phase \in Phases
    <2>1. /\ c.phase \in Ids /\ c.phase \in Phases /\ child[c.phase] = None
          /\ \A d \in Needs[plan[c.phase]] : proof[d] # None
        BY <1>1, ScheduledIsReady, CallFields DEF Bind
    <2>2. Needs[plan[c.phase]] \subseteq Phases
        BY <2>1, PlanAssumption DEF TypeOK, Ids
    <2>3. child'[c.phase] # None
        <3>1. c.loop \in Loops /\ c.edition \in Nat /\ plan[c.phase] \in Bodies
            BY <1>1, <2>1, CallFields, PlanAssumption, ProgramAssumption DEF Bind, TypeOK, Ids
        <3> QED BY <1>1, <2>1, <3>1, ProgramAssumption DEF Bind, TypeOK
    <2>4. /\ plan' = plan /\ proof' = proof
          /\ \A q \in Phases : q # c.phase => child'[q] = child[q]
        BY <1>1 DEF Bind, contract, TypeOK
    <2>5. begun' = begun \union {c.phase} /\ proved' = proved
        BY <2>1, <2>3, <2>4 DEF begun, proved
    <2>6. c.phase \in DOMAIN plan \ begun /\ Needs[plan[c.phase]] \subseteq proved
        BY <2>1, <2>2 DEF begun, proved, Ids
    <2> QED BY <2>1, <2>4, <2>5, <2>6 DEF Order!Begin, begun, proved
<1>2. ASSUME NEW c \in calls, Complete(c) PROVE Order!Prove(c.phase) /\ c.phase \in Phases
    <2>1. c.phase \in Phases /\ child[c.phase] # None
        BY <1>2, CallFields DEF Complete
    <2>2. proof'[c.phase] # None
        <3>1. /\ c.loop \in Loops /\ c.edition \in Nat /\ c.body \in Bodies
              /\ c.head \in Nat
            BY <1>2, CallFields, ProgramAssumption DEF Complete
        <3> QED BY <1>2, <2>1, <3>1, ProgramAssumption DEF Complete, TypeOK
    <2>3. /\ plan' = plan /\ child' = child
          /\ \A q \in Phases : q # c.phase => proof'[q] = proof[q]
        BY <1>2 DEF Complete, contract, TypeOK
    <2>4. proved' = proved \union {c.phase} /\ begun' = begun /\ c.phase \in begun
        BY <2>1, <2>2, <2>3 DEF begun, proved
    <2> QED BY <2>1, <2>3, <2>4 DEF Order!Prove, begun, proved
<1>3. ASSUME NEW S, WithdrawAbove(S), plan' = plan PROVE Order!Withdraw
    BY <1>3, OrderWithdraws DEF WithdrawAbove, Work, BuiltInOrder
<1>4. CASE GateStep
    <2>1. ASSUME NEW g, NEW v, ExpireDecision(g, v) \/ ExpireEvidence(g)
          PROVE  UNCHANGED Order!vars
        BY <2>1, OrderStutters DEF ExpireDecision, ExpireEvidence, contract, phases
    <2> QED BY <1>3, <1>4, <2>1
            DEF GateStep, ResolveGate, RegisterEvidence, contract, Order!Next
<1>5. ASSUME NEW new \in Plans, Revise(new) PROVE Order!Withdraw
    <2>1. Kept(new) \subseteq Ids \intersect DOMAIN new /\ \A p \in Kept(new) : new[p] = plan[p]
        BY GroundedMembers DEF Kept
    <2>2. /\ plan' = new
          /\ child' = [p \in Phases |-> IF p \in Kept(new) THEN child[p] ELSE None]
          /\ proof' = [p \in Phases |-> IF p \in Kept(new) THEN proof[p] ELSE None]
        BY <1>5 DEF Revise
    <2>3. \A p \in Phases : child'[p] # None =>
             p \in Ids /\ child'[p] = child[p] /\ proof'[p] = proof[p] /\ plan'[p] = plan[p]
        BY <2>1, <2>2
    <2>4. \A p \in Phases : child'[p] = None => proof'[p] = None
        BY <2>2 DEF Work, BuiltInOrder
    <2> QED BY <2>3, <2>4, OrderWithdraws
<1>6. ASSUME NEW c \in calls, Pause(c) \/ Resume(c) \/ Cancel(c) \/ Finalize(c) \/ Refused(c)
      PROVE  UNCHANGED Order!vars
    BY <1>6, OrderStutters DEF Pause, Resume, Cancel, Finalize, Refused, contract, phases
<1>7. CASE ToolReads
    BY <1>7, OrderStutters DEF ToolReads, AskBind, AskComplete, AskFinalize, AskPause,
       AskCancel, AskResume, Ask, contract, phases
<1>8. CASE Exhaust \/ UNCHANGED vars
    BY <1>8, OrderStutters DEF Exhaust, vars, contract, phases
<1>9. CASE LoopAction
    BY <1>9, OrderStutters DEF LoopAction, LoopWait, LoopRevise, LoopFinalize,
       LoopRevalidate, LoopStep, contract, phases
<1> QED BY <1>1, <1>2, <1>4, <1>5, <1>6, <1>7, <1>8, <1>9 DEF Next, Commit, Order!Next

\* The program's phases implement the order of its dependencies.
THEOREM ImplementsOrder == Spec => ImplementsPhaseOrder
<1>1. Init => Order!Init
    BY PlanAssumption DEF Init, Order!Init
<1>2. IInv /\ IInv' /\ [Next]_vars => [Order!Next]_(Order!vars)
    BY OrderStep
<1> QED BY Invariance, <1>1, <1>2, PTL DEF Spec, ImplementsPhaseOrder, Order!Spec

-----------------------------------------------------------------------------
(* The child loops.  LoopLifecycle implements AttestedLoop; what this       *)
(* module takes a child loop to be is that and, bounds apart, no less.     *)

Child(l) == INSTANCE AttestedLoop WITH
    status <- loop[l].status, edition <- loop[l].edition,
    head <- IF loop[l].status = "completed" THEN loop[l].head + 1 ELSE 0

\* A loop that is not completed has never been attested.
Unattested == \A l \in Loops : loop[l].status # "completed" => loop[l].head = 0

\* A step of one child loop, as its own module has it.
LEMMA ChildMoves ==
    ASSUME TypeOK, NEW l \in Loops, NEW k \in Loops,
           LoopWait(k) \/ LoopRevise(k) \/ LoopFinalize(k) \/ LoopRevalidate(k)
    PROVE  Child(l)!Next \/ UNCHANGED Child(l)!vars
<1>1. CASE l # k
    <2>1. loop'[l] = loop[l]
        BY <1>1 DEF LoopWait, LoopRevise, LoopFinalize, LoopRevalidate, LoopStep, TypeOK
    <2> QED BY <2>1 DEF Child!vars
<1>2. CASE l = k
    <2>1. loop[l] \in LoopRecord
        BY DEF TypeOK
    <2>2. CASE LoopWait(l)
        <3>1. loop[l].status = "active" /\ loop'[l] = [loop[l] EXCEPT !.status = "waiting"]
            BY <2>2 DEF LoopWait, LoopStep, TypeOK
        <3>2. Child(l)!Wait
            BY <2>1, <3>1 DEF Child!Wait, LoopRecord
        <3> QED BY <3>2 DEF Child!Next
    <2>3. CASE LoopRevise(l)
        <3>1. /\ loop[l].status # "completed"
              /\ loop'[l] = [loop[l] EXCEPT !.status = "active",
                                            !.edition = loop[l].edition + 1]
            BY <2>3 DEF LoopRevise, LoopStep, TypeOK
        <3>2. Child(l)!Revise
            BY <2>1, <3>1 DEF Child!Revise, LoopRecord
        <3> QED BY <3>2 DEF Child!Next
    <2>4. CASE LoopFinalize(l)
        <3>1. /\ loop[l].status = "active"
              /\ loop'[l] = [loop[l] EXCEPT !.status = "completed"]
            BY <2>4 DEF LoopFinalize, LoopStep, TypeOK
        <3>2. Child(l)!Attest
            BY <2>1, <3>1, ProgramAssumption DEF Child!Attest, LoopRecord
        <3> QED BY <3>2 DEF Child!Next
    <2>5. CASE LoopRevalidate(l)
        <3>1. /\ loop[l].status = "completed"
              /\ loop'[l] = [loop[l] EXCEPT !.head = loop[l].head + 1]
            BY <2>5 DEF LoopRevalidate, LoopStep, TypeOK
        <3>2. Child(l)!Attest
            BY <2>1, <3>1, ProgramAssumption DEF Child!Attest, LoopRecord
        <3> QED BY <3>2 DEF Child!Next
    <2> QED BY <1>2, <2>2, <2>3, <2>4, <2>5
<1> QED BY <1>1, <1>2

\* Only a step of a child loop touches the child loops.
LEMMA OthersLeaveLoops ==
    ASSUME [Next]_vars, ~(status \notin Terminal /\ LoopAction) PROVE loop' = loop
<1>1. ASSUME NEW c \in calls, Commit(c) \/ Refused(c) PROVE loop' = loop
    BY <1>1 DEF Commit, Bind, Complete, Pause, Resume, Cancel, Finalize, Refused
<1>2. CASE ToolReads
    BY <1>2 DEF ToolReads, AskBind, AskComplete, AskFinalize, AskPause, AskCancel,
                AskResume, Ask
<1>3. CASE GateStep
    BY <1>3 DEF GateStep, ResolveGate, ExpireDecision, RegisterEvidence, ExpireEvidence
<1>4. ASSUME NEW new \in Plans, Revise(new) PROVE loop' = loop
    BY <1>4 DEF Revise
<1>5. CASE Exhaust \/ UNCHANGED vars
    BY <1>5 DEF Exhaust, vars
<1> QED BY <1>1, <1>2, <1>3, <1>4, <1>5 DEF Next

\* Each child loop of a program is an attested loop: what was completed under
\* an edition stays so, and a later attestation is at a later event.
THEOREM ChildrenAreAttested == ASSUME NEW l \in Loops PROVE Spec => Child(l)!Spec
<1>1. Init => Child(l)!Init
    BY DEF Init, Child!Init
<1>2. TypeOK /\ [Next]_vars => [Child(l)!Next]_(Child(l)!vars)
    <2> SUFFICES ASSUME TypeOK, [Next]_vars
                 PROVE  Child(l)!Next \/ UNCHANGED Child(l)!vars
        OBVIOUS
    <2>1. CASE status \notin Terminal /\ LoopAction
        BY <2>1, ChildMoves DEF LoopAction
    <2>2. CASE ~(status \notin Terminal /\ LoopAction)
        BY <2>2, OthersLeaveLoops DEF Child!vars
    <2> QED BY <2>1, <2>2
<1> QED BY <1>1, <1>2, TypeCorrect, PTL DEF Spec, Child!Spec

\* No loop was attested before it was completed.
LEMMA NoneAttestedEarly == Spec => []Unattested
<1>1. Init => Unattested
    BY DEF Init, Unattested
<1>2. TypeOK /\ Unattested /\ [Next]_vars => Unattested'
    <2> SUFFICES ASSUME TypeOK, Unattested, [Next]_vars PROVE Unattested'
        OBVIOUS
    <2>1. CASE status \notin Terminal /\ LoopAction
        <3>1. PICK k \in Loops :
                LoopWait(k) \/ LoopRevise(k) \/ LoopFinalize(k) \/ LoopRevalidate(k)
            BY <2>1 DEF LoopAction
        <3>2. loop[k] \in LoopRecord /\ \A l \in Loops \ {k} : loop'[l] = loop[l]
            BY <3>1 DEF LoopWait, LoopRevise, LoopFinalize, LoopRevalidate, LoopStep, TypeOK
        <3>3. loop'[k].status # "completed" =>
                 loop[k].status # "completed" /\ loop'[k].head = loop[k].head
            <4>1. CASE LoopWait(k)
                BY <3>2, <4>1 DEF LoopWait, LoopStep, TypeOK, LoopRecord
            <4>2. CASE LoopRevise(k)
                BY <3>2, <4>2 DEF LoopRevise, LoopStep, TypeOK, LoopRecord
            <4>3. CASE LoopFinalize(k)
                BY <3>2, <4>3 DEF LoopFinalize, LoopStep, TypeOK, LoopRecord
            <4>4. CASE LoopRevalidate(k)
                BY <3>2, <4>4 DEF LoopRevalidate, LoopStep, TypeOK, LoopRecord
            <4> QED BY <3>1, <4>1, <4>2, <4>3, <4>4
        <3> QED BY <3>2, <3>3 DEF Unattested
    <2>2. CASE ~(status \notin Terminal /\ LoopAction)
        BY <2>2, OthersLeaveLoops DEF Unattested
    <2> QED BY <2>1, <2>2
<1> QED BY <1>1, <1>2, TypeCorrect, PTL DEF Spec

\* Conversely a program expects of its child loops no less than AttestedLoop
\* allows them: a step of that module, within the bounds on editions and
\* attestations and one attestation at a time, is a step of this one.
THEOREM NoStepLeftOut ==
    ASSUME TypeOK, Unattested, Room,
           NEW l \in Loops, NEW state \in LoopRecord, LoopStep(l, state), Child(l)!Next,
           state.head <= loop[l].head + 1,
           loop[l].status # "completed" => state.head = 0
    PROVE  LoopAction
<1>1. loop[l] \in LoopRecord /\ loop'[l] = state
    BY DEF TypeOK, LoopStep
<1>2. CASE Child(l)!Wait
    <2>1. /\ loop[l].status = "active" /\ state.status = "waiting"
          /\ state.edition = loop[l].edition
        BY <1>1, <1>2 DEF Child!Wait
    <2>2. state.head = 0 /\ loop[l].head = 0
        BY <1>1, <2>1 DEF Unattested
    <2>3. state = [loop[l] EXCEPT !.status = "waiting"]
        BY <1>1, <2>1, <2>2 DEF LoopRecord
    <2> QED BY <2>1, <2>3 DEF LoopWait, LoopAction
<1>3. CASE Child(l)!Revise
    <2>1. /\ loop[l].status # "completed" /\ state.status = "active"
          /\ state.edition = loop[l].edition + 1
        BY <1>1, <1>3 DEF Child!Revise
    <2>2. state.head = 0 /\ loop[l].head = 0
        BY <1>1, <2>1 DEF Unattested
    <2>3. state = [loop[l] EXCEPT !.status = "active", !.edition = loop[l].edition + 1]
        BY <1>1, <2>1, <2>2 DEF LoopRecord
    <2>4. loop[l].edition < MaxEditions
        BY <1>1, <2>1, ProgramAssumption DEF LoopRecord
    <2> QED BY <2>1, <2>3, <2>4 DEF LoopRevise, LoopAction
<1>4. CASE Child(l)!Attest
    <2>1. /\ loop[l].status \in {"active", "completed"} /\ state.status = "completed"
          /\ state.edition = loop[l].edition
        BY <1>1, <1>4 DEF Child!Attest
    <2>2. CASE loop[l].status = "active"
        <3>1. state.head = 0 /\ loop[l].head = 0
            BY <2>2 DEF Unattested
        <3>2. state = [loop[l] EXCEPT !.status = "completed"]
            BY <1>1, <2>1, <3>1 DEF LoopRecord
        <3> QED BY <2>2, <3>2 DEF LoopFinalize, LoopAction
    <2>3. CASE loop[l].status = "completed"
        <3>1. state.head + 1 > loop[l].head + 1
            BY <1>1, <1>4, <2>1, <2>3 DEF Child!Attest
        <3>2. state.head = loop[l].head + 1 /\ loop[l].head < MaxHeads
            <4>1. /\ state.head \in Nat /\ state.head <= MaxHeads
                  /\ loop[l].head \in Nat /\ MaxHeads \in Nat
                BY <1>1, ProgramAssumption DEF LoopRecord
            <4> QED BY <3>1, <4>1
        <3>3. state = [loop[l] EXCEPT !.head = loop[l].head + 1]
            BY <1>1, <2>1, <2>3, <3>2 DEF LoopRecord
        <3> QED BY <2>3, <3>2, <3>3 DEF LoopRevalidate, LoopAction
    <2> QED BY <2>1, <2>2, <2>3
<1> QED BY <1>2, <1>3, <1>4 DEF Child!Next
=============================================================================
