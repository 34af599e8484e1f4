--------------------------- MODULE ProgramPhases ---------------------------
(***************************************************************************)
(* ProgramService and the jstack_program_* tools: one program, its phase   *)
(* graph, its human and external gates, its active-time clock, and the     *)
(* child loops its phases are bound to.  An operation that holds the lock  *)
(* and commits is one step.  What a tool reads before it calls the service *)
(* is a step of its own: the calls in flight, with what they have read,    *)
(* are the records in "calls".                                             *)
(*                                                                         *)
(* A body stands for a phase contract (what _phase_digest digests) and, if *)
(* the phase has a UI criterion, the program's uiContract with it; its     *)
(* core for the part a child loop's own contract repeats.  A plan stands   *)
(* for the phases of a program contract; a revision number for its digest. *)
(* Whether the decisions on a gate meet its quorum and roles is the        *)
(* constant Enough.                                                        *)
(***************************************************************************)
EXTENDS Naturals, FiniteSets

CONSTANTS
    Phases, Bodies, Plans,   \* phase ids, phase contracts, sets of phases with theirs
    Draft,                   \* the plan the program is started with
    Rank,                    \* per plan the place of each phase in topologicalOrder
    Core,                    \* per body: goal, mode, autonomy, risk, paths and criteria
    Needs, Before, After,    \* per body: dependsOn, before_phase and after_phase gates
    Roams,                   \* bodies that are parallelSafe and worktreeRequired
    Overlaps,                \* pairs of bodies whose top-level scopes meet
    MaxParallel,             \* limits.maxParallelPhases
    HumanGates, ExternalGates, FinalGates,
    Voices, Enough,          \* approvers; per human gate the sets of them that satisfy it
    Loops,                   \* child loops
    None,
    MaxRevisions,            \* MAX_REVISIONS
    MaxEditions, MaxHeads,   \* bounds: contracts and revalidations of one child loop
    MaxUnsettled             \* bound: tool calls in flight and child loops changed

Gates == HumanGates \union ExternalGates
Cores == {Core[b] : b \in Bodies}

ASSUME ProgramAssumption ==
    /\ Needs \in [Bodies -> SUBSET Phases]
    /\ Before \in [Bodies -> SUBSET Gates] /\ After \in [Bodies -> SUBSET Gates]
    /\ Roams \subseteq Bodies /\ Overlaps \subseteq Bodies \X Bodies
    /\ HumanGates \intersect ExternalGates = {} /\ FinalGates \subseteq Gates
    /\ Enough \in [HumanGates -> SUBSET SUBSET Voices]
    /\ Rank \in [Plans -> [Phases -> Nat]]
    /\ MaxParallel \in Nat /\ MaxRevisions \in Nat \ {0} /\ MaxUnsettled \in Nat
    /\ MaxEditions \in Nat \ {0} /\ MaxHeads \in Nat
    /\ None \notin Loops
    /\ None \notin [loop : Loops, edition : Nat, body : Bodies]
    /\ None \notin [loop : Loops, edition : Nat, body : Bodies, head : Nat]

\* normalize_program_input: dependencies are phases of the same contract, each
\* comes before what needs it in the order of that contract, so that there is no
\* cycle, and no two phases share a gate.
ASSUME PlanAssumption ==
    Draft \in Plans /\ \A thePlan \in Plans :
        /\ DOMAIN thePlan \subseteq Phases
        /\ \A p \in DOMAIN thePlan :
              /\ thePlan[p] \in Bodies
              /\ Needs[thePlan[p]] \subseteq DOMAIN thePlan
              /\ \A d \in Needs[thePlan[p]] : Rank[thePlan][d] < Rank[thePlan][p]
              /\ \A q \in DOMAIN thePlan \ {p} :
                    (Before[thePlan[p]] \union After[thePlan[p]])
                       \intersect (Before[thePlan[q]] \union After[thePlan[q]]) = {}

VARIABLES
    plan, revision,       \* contract.phases, contractRevision
    status, manualPause,  \* snapshot.status, snapshot.manualPause
    child, proof,         \* phaseStates[p].child and .completionProof
    approvals,            \* per human gate, the fresh decision of each voice
    evidence,             \* per external gate: none, fresh or expired
    clockState,           \* snapshot.clockState
    spent,                \* the active seconds have reached the limit
    aged,                 \* history: a record expired since the last commit
    loop,                 \* the child loops, as their LoopService has them
    calls                 \* tool calls in flight, with what they have read

gates == <<approvals, evidence>>
phases == <<child, proof>>
contract == <<plan, revision>>
time == <<clockState, spent, aged>>
vars == <<contract, status, manualPause, phases, gates, time, loop, calls>>

Terminal == {"completed", "cancelled"}
Ids == DOMAIN plan

-----------------------------------------------------------------------------
(* _gate_view and _derive.                                                 *)

\* The members of S that rest, however deep, on members of S only.
Grounded(thePlan, S) ==
    UNION {T \in SUBSET S : \A p \in T : Needs[thePlan[p]] \subseteq T}

Rejected(g) == g \in HumanGates /\ \E v \in Voices : approvals[g][v] = "rejected"

Satisfied(g) ==
    IF g \in HumanGates
    THEN ~Rejected(g) /\ {v \in Voices : approvals[g][v] = "approved"} \in Enough[g]
    ELSE evidence[g] = "fresh"

GatesOf(p) == Before[plan[p]] \union After[plan[p]]
PhaseRejected(p) == \E g \in GatesOf(p) : Rejected(g)
BeforeReady(p) == \A g \in Before[plan[p]] : Satisfied(g)
AfterReady(p) == \A g \in After[plan[p]] : Satisfied(g)

Completed ==
    Grounded(plan, {p \in Ids : /\ proof[p] # None /\ ~PhaseRejected(p)
                                /\ BeforeReady(p) /\ AfterReady(p)})

\* Nothing keeps these from running, whether they have begun or are done.
Clear ==
    LET done == Completed
    IN  {p \in Ids : ~PhaseRejected(p) /\ BeforeReady(p) /\ Needs[plan[p]] \subseteq done}

Running == {p \in Clear : child[p] # None /\ proof[p] = None}
Ready == {p \in Clear : child[p] = None /\ proof[p] = None}

AllComplete == Completed = Ids
FinalSatisfied == \A g \in FinalGates : Satisfied(g)

\* The waiting_* and blocked-by-dependency statuses are not told apart.
Effective ==
    CASE status \in Terminal -> status
      [] status \notin Terminal /\ manualPause -> "paused"
      [] /\ status \notin Terminal /\ ~manualPause
         /\ \E g \in FinalGates \union UNION {GatesOf(p) : p \in Ids} : Rejected(g)
            -> "blocked"
      [] OTHER -> IF AllComplete /\ FinalSatisfied THEN "validating"
                  ELSE IF \E p \in Clear : proof[p] = None THEN "running" ELSE "waiting"

\* _public: a spent budget blocks what would run.
Public == IF spent /\ Effective \in {"running", "validating"} THEN "blocked" ELSE Effective

-----------------------------------------------------------------------------
(* _scheduled_phase_ids.                                                   *)

\* A phase joins those that run or have been chosen before it.
Fits(p, others) ==
    /\ Cardinality(others) < MaxParallel
    /\ others # {} =>
          /\ \A q \in others \union {p} : plan[q] \in Roams
          /\ \A q \in others : <<plan[p], plan[q]>> \notin Overlaps

\* The choice runs through the ready phases in topological order.
Scheduled(p) ==
    /\ Public = "running"
    /\ \E chosen \in SUBSET Ready :
          /\ \A q \in Ready :
                q \in chosen <=> Fits(q, Running \union {r \in chosen : Rank[plan][r] < Rank[plan][q]})
          /\ p \in chosen

-----------------------------------------------------------------------------
Init ==
    /\ plan = Draft /\ revision = 1
    /\ status = "running" /\ manualPause = FALSE
    /\ child = [p \in Phases |-> None] /\ proof = [p \in Phases |-> None]
    /\ approvals = [g \in HumanGates |-> [v \in Voices |-> "none"]]
    /\ evidence = [g \in ExternalGates |-> "none"]
    /\ spent = FALSE /\ aged = FALSE
    /\ clockState = IF Effective \in {"running", "validating"} THEN "running" ELSE "paused"
    /\ loop = [l \in Loops |-> [status |-> "active", edition |-> 1, head |-> 0]]
    /\ calls = {}

\* Mutant of SyncClock: _derive is not consulted again.
SyncClockBefore ==
    /\ aged' = FALSE
    /\ clockState' = IF ~spent' /\ Effective \in {"running", "validating"}
                     THEN "running" ELSE "paused"

\* _sync_clock, on the state about to be committed.
SyncClock ==
    /\ aged' = FALSE
    /\ clockState' = IF ~spent' /\ Effective' \in {"running", "validating"}
                     THEN "running" ELSE "paused"

\* Mutant of WithdrawAbove: only the direct dependents lose their work.
WithdrawDirectlyAbove(S) ==
    LET lost == {p \in Ids \ S : Needs[plan[p]] \intersect S # {}}
    IN  /\ child' = [p \in Phases |-> IF p \in lost THEN None ELSE child[p]]
        /\ proof' = [p \in Phases |-> IF p \in lost THEN None ELSE proof[p]]

\* _invalidate_downstream: what rests on S, without S itself.
WithdrawAbove(S) ==
    LET lost == (Ids \ Grounded(plan, Ids \ S)) \ S
    IN  /\ child' = [p \in Phases |-> IF p \in lost THEN None ELSE child[p]]
        /\ proof' = [p \in Phases |-> IF p \in lost THEN None ELSE proof[p]]

\* Bound: there is room for one more call in flight or child loop changed.
Room == Cardinality(calls) + Cardinality({l \in Loops : loop[l].edition + loop[l].head > 1})
            < MaxUnsettled

-----------------------------------------------------------------------------
(* What the tools read before they call the service.                       *)

Ask(c) ==
    /\ calls' = calls \union {c}
    /\ UNCHANGED <<contract, status, manualPause, phases, gates, time, loop>>

\* _program_child_integrity: every proof is still what its child attests.
Intact ==
    \A p \in Ids : proof[p] # None =>
        LET l == loop[proof[p].loop] IN
        l.status = "completed" /\ l.edition = proof[p].edition /\ l.head = proof[p].head

\* _program_running_child_ids is empty.
ChildrenAtRest ==
    \A p \in Ids : child[p] # None /\ proof[p] = None => loop[child[p].loop].status # "active"

\* The child loop was made for a phase of this or of another plan; one that was
\* made for none is always refused.
AskBind ==
    /\ Public = "running" /\ Intact
    /\ \E thePlan \in Plans, l \in Loops : \E p \in DOMAIN thePlan :
          /\ loop[l].status = "active"
          /\ Ask([op |-> "bind", phase |-> p, loop |-> l,
                  edition |-> loop[l].edition, core |-> Core[thePlan[p]]])

\* The receipt handed in is for what the child loop attests.
AskComplete(p) ==
    /\ child[p] # None
    /\ LET l == loop[child[p].loop] IN
       /\ l.status = "completed" /\ l.edition = child[p].edition
       /\ Ask([op |-> "complete", phase |-> p, loop |-> child[p].loop,
               edition |-> l.edition, body |-> plan[p], head |-> l.head])

AskFinalize ==
    /\ Intact /\ Public \in {"validating", "completed"}
    /\ Ask([op |-> "finalize", revision |-> revision])

AskPause == ChildrenAtRest /\ Ask([op |-> "pause"])
AskCancel == ChildrenAtRest /\ Ask([op |-> "cancel"])
AskResume == Intact /\ Ask([op |-> "resume"])

\* The call raises: it found a reason to refuse, or not the lock.
Refused(c) ==
    /\ calls' = calls \ {c}
    /\ UNCHANGED <<contract, status, manualPause, phases, gates, time, loop>>

-----------------------------------------------------------------------------
(* What the service does under the lock.                                   *)

\* Mutant of Unbound: the child loops of other phases are not looked at.
UnboundAnyLoop(l) == TRUE

Unbound(l) == \A p \in Ids : child[p] # None => child[p].loop # l

\* bind_phase: "Child loop contract does not exactly match the phase contract."
Bind(c) ==
    /\ c.op = "bind" /\ Scheduled(c.phase) /\ c.core = Core[plan[c.phase]]
    /\ Unbound(c.loop)
    /\ child' = [child EXCEPT ![c.phase] =
                    [loop |-> c.loop, edition |-> c.edition, body |-> plan[c.phase]]]
    /\ calls' = calls \ {c}
    /\ UNCHANGED <<contract, status, manualPause, proof, gates, spent, loop>>
    /\ SyncClock

\* Mutant of Workable: only the end is looked for.
WorkableUnlessOver == status \notin Terminal

\* "Paused or terminal programs cannot complete a phase."
Workable == status \notin Terminal /\ ~manualPause

\* Mutant of Matches: the child is taken to be the one that was read.
MatchesPhase(c) == c.body = plan[c.phase]

\* The proof is of the child bound now, under the phase contract as it is now.
Matches(c) ==
    /\ child[c.phase].loop = c.loop /\ child[c.phase].edition = c.edition
    /\ c.body = plan[c.phase]

\* complete_phase, also of a phase that has a proof.
Complete(c) ==
    /\ c.op = "complete" /\ Workable
    /\ c.phase \in Ids /\ child[c.phase] # None
    /\ Matches(c)
    /\ proof' = [proof EXCEPT ![c.phase] =
                    [loop |-> c.loop, edition |-> c.edition, body |-> c.body, head |-> c.head]]
    /\ calls' = calls \ {c}
    /\ UNCHANGED <<contract, status, manualPause, child, gates, spent, loop>>
    /\ SyncClock

\* The proved phases a gate belongs to: at most one, since gate ids are unique.
ProvedAt(g) == {p \in Ids : g \in GatesOf(p) /\ proof[p] # None}

GatesInUse == FinalGates \union UNION {GatesOf(p) : p \in Ids}

\* resolve_gate.  The decision was made for the current contract and gate.
ResolveGate(g, v, decision) ==
    /\ status \notin Terminal /\ g \in HumanGates \intersect GatesInUse
    /\ approvals' = [approvals EXCEPT ![g][v] = decision]
    /\ WithdrawAbove(ProvedAt(g))
    /\ UNCHANGED <<contract, status, manualPause, evidence, spent, loop, calls>>
    /\ SyncClock

\* register_evidence.  Every record differs from the previous one.
RegisterEvidence(g) ==
    /\ status \notin Terminal /\ g \in ExternalGates \intersect GatesInUse
    /\ \A p \in ProvedAt(g) : g \notin Before[plan[p]]
    /\ evidence' = [evidence EXCEPT ![g] = "fresh"]
    /\ WithdrawAbove(IF evidence[g] = "none" THEN {} ELSE ProvedAt(g))
    /\ UNCHANGED <<contract, status, manualPause, approvals, spent, loop, calls>>
    /\ SyncClock

\* Mutant of Kept: what rests on a changed phase is not looked for.
KeptUnchanged(new) == {p \in DOMAIN new \intersect Ids : new[p] = plan[p]}

\* _phase_digest and a UI phase's uiContract unchanged, and so for everything the
\* phase rests on.
Kept(new) == Grounded(new, {p \in DOMAIN new \intersect Ids : new[p] = plan[p]})

Revisable == status \notin Terminal /\ revision < MaxRevisions

\* revise: CAS on the contract digest by way of the readiness receipt.  The
\* new limit on active time may be above or below what has been used.
Revise(new) ==
    /\ Revisable
    /\ plan' = new /\ revision' = revision + 1
    /\ child' = [p \in Phases |-> IF p \in Kept(new) THEN child[p] ELSE None]
    /\ proof' = [p \in Phases |-> IF p \in Kept(new) THEN proof[p] ELSE None]
    /\ approvals' = [g \in HumanGates |-> [v \in Voices |-> "none"]]
    /\ evidence' = [g \in ExternalGates |-> "none"]
    /\ manualPause' = FALSE
    /\ spent' \in BOOLEAN
    /\ UNCHANGED <<status, loop, calls>>
    /\ SyncClock

Pause(c) ==
    /\ c.op = "pause" /\ status \notin Terminal /\ ~manualPause
    /\ manualPause' = TRUE
    /\ calls' = calls \ {c}
    /\ UNCHANGED <<contract, status, phases, gates, spent, loop>>
    /\ SyncClock

Resume(c) ==
    /\ c.op = "resume" /\ status \notin Terminal /\ manualPause
    /\ manualPause' = FALSE
    /\ calls' = calls \ {c}
    /\ UNCHANGED <<contract, status, phases, gates, spent, loop>>
    /\ SyncClock

Cancel(c) ==
    /\ c.op = "cancel" /\ status \notin Terminal
    /\ status' = "cancelled" /\ manualPause' = FALSE
    /\ calls' = calls \ {c}
    /\ UNCHANGED <<contract, phases, gates, spent, loop>>
    /\ SyncClock

\* Mutant of Finished: the phases are not derived again under the lock.
FinishedAsRead == FinalSatisfied

Finished == AllComplete /\ FinalSatisfied

\* finalize.  Neither manualPause nor the budget is looked at again; of a
\* completed program it replaces the final evidence only.
Finalize(c) ==
    /\ c.op = "finalize" /\ c.revision = revision
    /\ status # "cancelled" /\ Finished
    /\ status' = "completed"
    /\ calls' = calls \ {c}
    /\ UNCHANGED <<contract, manualPause, phases, gates, spent, loop>>
    /\ SyncClock

-----------------------------------------------------------------------------
(* Time, and the child loops as LoopService moves them.                    *)

\* An approval or a rejection reaches its expiresAt, evidence its validUntil.
ExpireDecision(g, v) ==
    /\ approvals[g][v] # "none"
    /\ approvals' = [approvals EXCEPT ![g][v] = "none"]
    /\ aged' = TRUE
    /\ UNCHANGED <<contract, status, manualPause, phases, evidence, clockState, spent, loop, calls>>

ExpireEvidence(g) ==
    /\ evidence[g] = "fresh"
    /\ evidence' = [evidence EXCEPT ![g] = "expired"]
    /\ aged' = TRUE
    /\ UNCHANGED <<contract, status, manualPause, phases, approvals, clockState, spent, loop, calls>>

\* _active_seconds reaches the limit.
Exhaust ==
    /\ clockState = "running" /\ ~spent
    /\ spent' = TRUE
    /\ UNCHANGED <<contract, status, manualPause, phases, gates, clockState, aged, loop, calls>>

LoopStep(l, state) ==
    /\ loop' = [loop EXCEPT ![l] = state]
    /\ UNCHANGED <<contract, status, manualPause, phases, gates, time, calls>>

\* A checkpoint that waits or stops.
LoopWait(l) ==
    /\ loop[l].status = "active"
    /\ LoopStep(l, [loop[l] EXCEPT !.status = "waiting"])

LoopRevise(l) ==
    /\ loop[l].status # "completed" /\ loop[l].edition < MaxEditions
    /\ Room
    /\ LoopStep(l, [loop[l] EXCEPT !.status = "active", !.edition = @ + 1])

LoopFinalize(l) ==
    /\ loop[l].status = "active"
    /\ LoopStep(l, [loop[l] EXCEPT !.status = "completed"])

LoopRevalidate(l) ==
    /\ loop[l].status = "completed" /\ loop[l].head < MaxHeads /\ Room
    /\ LoopStep(l, [loop[l] EXCEPT !.head = @ + 1])

ToolReads ==
    /\ Room
    /\ \/ AskBind \/ \E p \in Ids : AskComplete(p)
       \/ AskFinalize \/ AskPause \/ AskCancel \/ AskResume

Commit(c) ==
    \/ Bind(c) \/ Complete(c) \/ Pause(c) \/ Resume(c) \/ Cancel(c) \/ Finalize(c)

GateStep ==
    \/ \E g \in HumanGates, v \in Voices :
          \/ \E decision \in {"approved", "rejected"} : ResolveGate(g, v, decision)
          \/ ExpireDecision(g, v)
    \/ \E g \in ExternalGates : RegisterEvidence(g) \/ ExpireEvidence(g)

LoopAction ==
    \E l \in Loops :
       \/ LoopWait(l) \/ LoopRevise(l) \/ LoopFinalize(l) \/ LoopRevalidate(l)

Next ==
    \/ ToolReads
    \/ \E c \in calls : Commit(c) \/ Refused(c)
    \/ GateStep
    \/ \E new \in Plans : Revise(new)
    \/ Exhaust
    \/ status \notin Terminal /\ LoopAction

Spec == Init /\ [][Next]_vars

-----------------------------------------------------------------------------
(* Properties.                                                             *)

ChildRecord == [loop : Loops, edition : 1..MaxEditions, body : Bodies]
ProofRecord == [loop : Loops, edition : 1..MaxEditions, body : Bodies, head : 0..MaxHeads]
LoopRecord == [status : {"active", "waiting", "completed"}, edition : 1..MaxEditions,
               head : 0..MaxHeads]
CallRecord ==
    [op : {"bind"}, phase : Phases, loop : Loops, edition : 1..MaxEditions, core : Cores]
    \union [op : {"complete"}, phase : Phases, loop : Loops, edition : 1..MaxEditions,
            body : Bodies, head : 0..MaxHeads]
    \union [op : {"finalize"}, revision : 1..MaxRevisions]
    \union [op : {"pause", "cancel", "resume"}]

\* The shape of the program's snapshot, of its child loops and of the calls.
TypeOK ==
    /\ plan \in Plans /\ revision \in 1..MaxRevisions
    /\ status \in {"running", "completed", "cancelled"} /\ manualPause \in BOOLEAN
    /\ child \in [Phases -> ChildRecord \union {None}]
    /\ proof \in [Phases -> ProofRecord \union {None}]
    /\ approvals \in [HumanGates -> [Voices -> {"none", "approved", "rejected"}]]
    /\ evidence \in [ExternalGates -> {"none", "fresh", "expired"}]
    /\ clockState \in {"running", "paused"} /\ spent \in BOOLEAN /\ aged \in BOOLEAN
    /\ loop \in [Loops -> LoopRecord]
    /\ calls \subseteq CallRecord

\* ADR 0004: revisions and changed gates invalidate all transitive dependants.
\* No phase holds a child loop, let alone a proof, while something it depends
\* on is unproved, whatever was revised, rejected or replaced meanwhile.
BuiltInOrder ==
    \A p \in Phases :
        /\ proof[p] # None => child[p] # None
        /\ child[p] # None =>
              p \in Ids /\ \A d \in Needs[plan[p]] : proof[d] # None

\* A proof is of the child the phase is bound to now, and of the phase as the
\* contract has it now, though it was put together before the lock was taken.
ProofsMatch ==
    \A p \in Ids :
        /\ child[p] # None => child[p].body = plan[p]
        /\ proof[p] # None =>
              /\ proof[p].body = plan[p]
              /\ proof[p].loop = child[p].loop /\ proof[p].edition = child[p].edition

\* ADR 0004: one bounded child loop may bind to only one phase.
OneLoopOnePhase ==
    \A p, q \in Ids :
        child[p] # None /\ child[q] # None /\ child[p].loop = child[q].loop => p = q

\* docs/program-system.md: waiting pauses active time.  Unless a record has
\* expired or the budget ran out since the last commit, the clock runs just
\* when there is something to do.
ClockHonest ==
    ~aged /\ ~spent =>
        (clockState = "running" <=> Effective \in {"running", "validating"})

\* A completed program has a proof for every phase of its contract.
CompletionStands == status = "completed" => \A p \in Ids : proof[p] # None

\* Nothing but the expiry of a record changes a program that is over.
TerminalIsFrozen ==
    [][(status \in Terminal) => UNCHANGED <<contract, status, phases>>]_vars

\* While the program stays paused no phase is begun or completed.
PausedWorkStands ==
    [][manualPause /\ manualPause' =>
          (\A p \in Phases : /\ child'[p] \in {child[p], None}
                             /\ proof'[p] \in {proof[p], None})]_vars

\* The phases begun and proved keep the order of their dependencies.
Order == INSTANCE PhaseOrder WITH
            begun <- {p \in Phases : child[p] # None},
            proved <- {p \in Phases : proof[p] # None}
ImplementsPhaseOrder == Order!Spec

\* ADR 0004: parallel phases require explicit safety, linked worktrees and
\* disjoint top-level scopes.  Two phases run at once only if so.
ParallelIsSafe ==
    \A p, q \in Running :
        p # q => plan[p] \in Roams /\ <<plan[p], plan[q]>> \notin Overlaps

=============================================================================
