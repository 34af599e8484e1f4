--------------------------- MODULE LoopLifecycle ---------------------------
(***************************************************************************)
(* The life of one loop, driven by several tool clients while the project *)
(* it is about keeps changing under them (loop/protocol.py, LoopService,   *)
(* and the tool_loop_* functions of jstack_mcp_server.py).                 *)
(*                                                                         *)
(* A tool call is not atomic.  It reads the loop, then inspects the        *)
(* project, and only then takes the repository lock and commits; the       *)
(* project, the enterprise policy and the other clients move in between.  *)
(* What happens under the lock is one step here: LoopStore shows that a    *)
(* commit is atomic, LoopLease and DirectoryLock deal with the lock.       *)
(***************************************************************************)
EXTENDS Integers, FiniteSets, Sequences

CONSTANTS
    Clients,             \* tool calls that may be in flight together
    Prints,              \* project fingerprints: the states of the checkout
    Baseline,            \* the state at the loop's baseline commit: no changed file
    Checks,              \* what a criterion's machine verifier can establish
    Passing,             \* Passing[p]: the checks that hold of project state p
    Live,                \* checks run on the checkout itself (review, artifacts)
    Terms,               \* contents a contract may have: goal, criteria, scope...
    Criteria,            \* Criteria[t]: the machine-verified criteria of t
    Keys,                \* Keys[t]: the human approval keys of t
    Gates,               \* Gates[t]: receipts the tool layer demands for t
    Escaping,            \* Escaping[t]: states whose changed files t forbids
    RequireChange,       \* the contract's requireChange flag
    Contexts,            \* enterprise policy digest and tool version
    Failures,            \* failure signatures a caller may report
    None,                \* no failure signature; nothing read yet
    MaxIterations, MaxNoProgress, MaxRepeatedFailure,   \* contract["limits"]
    MaxEvents,           \* MAX_EVENTS
    MaxRevisions,        \* MAX_CONTRACT_REVISIONS
    HistoryKept,         \* fingerprintHistory[-12:]
    OscillationWindow    \* history[-6:]

AllKeys == UNION {Keys[t] : t \in Terms}

ASSUME ProjectAssumption ==
    /\ Baseline \in Prints
    /\ Live \subseteq Checks
    /\ Passing \in [Prints -> SUBSET Checks]

ASSUME TermsAssumption ==
    /\ Criteria \in [Terms -> SUBSET Checks]
    /\ Gates \in [Terms -> SUBSET Checks]
    /\ Escaping \in [Terms -> SUBSET Prints]
    /\ RequireChange \in BOOLEAN
    /\ None \notin Failures

\* A criterion has one verifier: a machine check or a human approval key.
ASSUME VerifierAssumption == \A t \in Terms : Keys[t] \intersect Checks = {}

\* _normalize_limits bounds every limit below by 1; the two capacities are
\* module constants of the code (1000 events, 100 revisions).
ASSUME LimitsAssumption ==
    /\ MaxIterations \in Nat \ {0}
    /\ MaxNoProgress \in Nat \ {0}
    /\ MaxRepeatedFailure \in Nat \ {0}
    /\ MaxEvents \in Nat /\ MaxEvents > 1
    /\ MaxRevisions \in Nat \ {0}
    /\ HistoryKept \in Nat \ {0}
    /\ OscillationWindow \in Nat

VARIABLES
    contract,   \* contract.json: its revision, terms and recorded context
    snapshot,   \* snapshot.json, and the length of events.jsonl
    world,      \* the project and policy as they are now
    pc,         \* where each client's tool call stands
    seen,       \* the contract each client read with service.status
    basis,      \* what each client collected: the subject, the state whose
                \* changed files it listed ("files"), and its evidence
    receipts,   \* completion receipts issued so far
    turns,      \* history variable: checkpoints that ever decided "continue"
    consent     \* history variable: what each human approval was given for

vars == <<contract, snapshot, world, pc, seen, basis, receipts, turns, consent>>

Terminal == {"succeeded", "stopped"}

Subjects == [print : Prints, context : Contexts]
Findings == [print : Prints, files : Prints, context : Contexts, passed : SUBSET Checks]
Contracts == [revision : 1..MaxRevisions, terms : Terms, context : Contexts]

\* The last n elements of s: Python's s[-n:] for n > 0.
LastOf(s, n) == SubSeq(s, IF Len(s) > n THEN Len(s) - n + 1 ELSE 1, Len(s))

Elements(s) == {s[i] : i \in DOMAIN s}

-----------------------------------------------------------------------------
(* What one collection of evidence amounts to under the present contract.  *)

Required == Criteria[contract.terms] \union Keys[contract.terms]

\* _evaluate_criteria: machine criteria from the evidence, human ones from
\* the approvals the snapshot holds.
Satisfied(evidence) ==
    (Criteria[contract.terms] \intersect evidence.passed)
        \union (Keys[contract.terms] \intersect snapshot.approved)

\* _scope_violations of a loop that may write, the changed-file limit and
\* protected paths, of the changed files of one project state: one reason to
\* stop is as good as another.
Forbidden(files) == files \in Escaping[contract.terms]

Drifted(evidence) == evidence.context # contract.context

\* Mutant of Room: any event may take the last slot.
RoomWithoutReserve(reserved) == snapshot.events < MaxEvents

\* _append_event: every event but a terminal one leaves the last slot free.
Room(reserved) == snapshot.events < MaxEvents - reserved

Progressed(evidence) ==
    \/ Cardinality(Satisfied(evidence)) > Cardinality(snapshot.satisfied)
    \/ evidence.print # snapshot.current

Stagnation(evidence) ==
    IF Progressed(evidence) THEN 0 ELSE snapshot.noProgress + 1

Repetition(failure) ==
    IF failure = None THEN 0
    ELSE IF failure = snapshot.lastFailure THEN snapshot.repeats + 1 ELSE 1

Oscillating(print) ==
    /\ print # snapshot.current
    /\ print \in Elements(LastOf(snapshot.history, OscillationWindow))

\* Mutant of Tripped: the iteration limit trips once, and never after a resume.
TrippedOnce(evidence, failure, late) ==
    \/ snapshot.iteration + 1 = MaxIterations
    \/ late
    \/ Repetition(failure) >= MaxRepeatedFailure
    \/ Stagnation(evidence) >= MaxNoProgress
    \/ Oscillating(evidence.print)

\* The circuit breakers that ask for judgment; "late" stands for the
\* elapsed-time limit, which LoopClock accounts for.
Tripped(evidence, failure, late) ==
    \/ snapshot.iteration + 1 >= MaxIterations
    \/ late
    \/ Repetition(failure) >= MaxRepeatedFailure
    \/ Stagnation(evidence) >= MaxNoProgress
    \/ Oscillating(evidence.print)

\* checkpoint's decision, in the code's order of precedence.
Decision(evidence, failure, blocker, late) ==
    CASE Forbidden(evidence.files) -> "policy_stop"
      [] ~Forbidden(evidence.files) /\ (Drifted(evidence) \/ blocker) -> "needs_approval"
      [] ~Forbidden(evidence.files) /\ ~Drifted(evidence) /\ ~blocker ->
            IF Satisfied(evidence) = Required THEN "ready_to_finalize"
            ELSE IF Tripped(evidence, failure, late) THEN "needs_approval"
            ELSE "continue"

StatusAfter(decision) ==
    CASE decision = "policy_stop" -> "stopped"
      [] decision = "needs_approval" -> "needs_approval"
      [] decision \in {"ready_to_finalize", "continue"} -> "active"

-----------------------------------------------------------------------------
\* LoopService.start on a project whose tree is clean.
Init ==
    /\ \E t \in Terms, x \in Contexts :
          /\ contract = [revision |-> 1, terms |-> t, context |-> x]
          /\ world = [print |-> Baseline, context |-> x]
    /\ snapshot = [status |-> "active", decision |-> "continue",
                   iteration |-> 0, noProgress |-> 0,
                   repeats |-> 0, lastFailure |-> None,
                   current |-> Baseline, history |-> <<Baseline>>,
                   satisfied |-> {}, approved |-> {}, events |-> 1]
    /\ pc = [c \in Clients |-> "idle"]
    /\ seen = [c \in Clients |-> None]
    /\ basis = [c \in Clients |-> None]
    /\ receipts = {}
    /\ turns = 0
    /\ consent = [k \in AllKeys |-> contract]

-----------------------------------------------------------------------------
(* The world outside the loop: the agent edits the project, an             *)
(* administrator changes the policy or JStack is upgraded.                 *)

Edit ==
    /\ \E p \in Prints : world' = [world EXCEPT !.print = p]
    /\ UNCHANGED <<contract, snapshot, pc, seen, basis, receipts, turns, consent>>

ChangeContext ==
    /\ \E x \in Contexts : world' = [world EXCEPT !.context = x]
    /\ UNCHANGED <<contract, snapshot, pc, seen, basis, receipts, turns, consent>>

-----------------------------------------------------------------------------
(* Reading.  tool_loop_checkpoint and tool_loop_finalize read the loop      *)
(* first and the project after it; tool_loop_revise does the reverse.      *)

\* service.status(loop_id), as the first thing a tool does.
Look(c) ==
    /\ pc[c] = "idle"
    /\ seen' = [seen EXCEPT ![c] = contract]
    /\ pc' = [pc EXCEPT ![c] = "looked"]
    /\ UNCHANGED <<contract, snapshot, world, basis, receipts, turns, consent>>

\* evidence_subject; the rest of what a call finds is yet to be collected.
Subject == [print |-> world.print, files |-> Baseline, context |-> world.context,
            passed |-> {}]

\* The first evidence_subject call of _loop_iteration_evidence.
ReadSubject(c) ==
    /\ pc[c] = "looked"
    /\ basis' = [basis EXCEPT ![c] = Subject]
    /\ pc' = [pc EXCEPT ![c] = "reading"]
    /\ UNCHANGED <<contract, snapshot, world, seen, receipts, turns, consent>>

\* git_change_evidence lists the changed files in a reading of its own: scope,
\* limits, protected paths and requireChange are judged by this list, and
\* nothing compares it with the subject.
ReadChanges(c) ==
    /\ pc[c] = "reading"
    /\ basis' = [basis EXCEPT ![c].files = world.print]
    /\ pc' = [pc EXCEPT ![c] = "listed"]
    /\ UNCHANGED <<contract, snapshot, world, seen, receipts, turns, consent>>

\* The evidence itself.  A receipt counts only if it was issued for the
\* subject just read, and the caller supplies whichever it has; a live check
\* sees the checkout as it is now.  The gates of the contract that was read
\* must be among the receipts or the call fails.
Collect(c) ==
    /\ pc[c] = "listed"
    /\ \E supplied \in SUBSET (Passing[basis[c].print] \ Live) :
          /\ Gates[seen[c].terms] \subseteq supplied
          /\ basis' = [basis EXCEPT ![c].passed =
                          supplied \union (Passing[world.print] \intersect Live)]
    /\ pc' = [pc EXCEPT ![c] = "collected"]
    /\ UNCHANGED <<contract, snapshot, world, seen, receipts, turns, consent>>

\* Mutant of Confirm: the two readings are not compared.
ConfirmUnchecked(c) ==
    /\ pc[c] = "collected"
    /\ basis' = [basis EXCEPT ![c].print = world.print, ![c].context = world.context]
    /\ pc' = [pc EXCEPT ![c] = "gathered"]
    /\ UNCHANGED <<contract, snapshot, world, seen, receipts, turns, consent>>

\* The second evidence_subject call: the project must be as it was.  It is
\* this second reading that the call goes on with.
Confirm(c) ==
    /\ pc[c] = "collected"
    /\ world.print = basis[c].print /\ world.context = basis[c].context
    /\ basis' = [basis EXCEPT ![c].print = world.print, ![c].context = world.context]
    /\ pc' = [pc EXCEPT ![c] = "gathered"]
    /\ UNCHANGED <<contract, snapshot, world, seen, receipts, turns, consent>>

\* stable_loop_contract_context, the first thing tool_loop_revise does.
ReadContext(c) ==
    /\ pc[c] = "idle"
    /\ basis' = [basis EXCEPT ![c] = Subject]
    /\ pc' = [pc EXCEPT ![c] = "placed"]
    /\ UNCHANGED <<contract, snapshot, world, seen, receipts, turns, consent>>

\* ... and the status it reads next (prior_status).
LookBack(c) ==
    /\ pc[c] = "placed"
    /\ seen' = [seen EXCEPT ![c] = contract]
    /\ pc' = [pc EXCEPT ![c] = "proposing"]
    /\ UNCHANGED <<contract, snapshot, world, basis, receipts, turns, consent>>

\* A call returns or raises, and forgets what it read.
Return(c) ==
    /\ pc' = [pc EXCEPT ![c] = "idle"]
    /\ seen' = [seen EXCEPT ![c] = None]
    /\ basis' = [basis EXCEPT ![c] = None]

\* Any call may come to nothing: a check of the code raises, or the server
\* process goes away.  Nothing but the call itself is lost.
GiveUp(c) ==
    /\ pc[c] # "idle"
    /\ Return(c)
    /\ UNCHANGED <<contract, snapshot, world, receipts, turns, consent>>

-----------------------------------------------------------------------------
(* Committing, under the repository lock.                                  *)

\* snapshot["contractDigest"] is the digest the call read.
AsRead(c) == seen[c].revision = contract.revision

\* LoopService.checkpoint.
Checkpoint(c) ==
    /\ pc[c] = "gathered"
    /\ snapshot.status = "active"
    /\ AsRead(c)
    /\ Room(1)
    /\ \E failure \in Failures \union {None}, blocker \in BOOLEAN, late \in BOOLEAN :
          LET decision == Decision(basis[c], failure, blocker, late) IN
             /\ snapshot' = [status |-> StatusAfter(decision),
                             decision |-> decision,
                             iteration |-> snapshot.iteration + 1,
                             noProgress |-> Stagnation(basis[c]),
                             repeats |-> Repetition(failure),
                             lastFailure |-> failure,
                             current |-> basis[c].print,
                             history |-> LastOf(Append(snapshot.history, basis[c].print),
                                                HistoryKept),
                             satisfied |-> Satisfied(basis[c]),
                             approved |-> snapshot.approved,
                             events |-> snapshot.events + 1]
             /\ turns' = turns + (IF decision = "continue" THEN 1 ELSE 0)
    /\ Return(c)
    /\ UNCHANGED <<contract, world, receipts, consent>>

\* Mutant of Changed: policy digest and tool version are not compared.
ChangedTermsOnly(terms, context) == terms # contract.terms

\* revise compares the normalized contracts field by field; the policy digest
\* and the tool version are among the fields.
Changed(terms, context) == terms # contract.terms \/ context # contract.context

\* Mutant of Revisable: a loop that has succeeded may be revised.
RevisableUnlessStopped == snapshot.status # "stopped" /\ contract.revision < MaxRevisions

\* A terminal loop is not revised, nor one whose contract is at its last revision.
Revisable == snapshot.status \notin Terminal /\ contract.revision < MaxRevisions

\* LoopService.revise.  A change of terms carries a readiness attestation
\* bound to the contract it was assessed against; a call that changes nothing
\* is no less a revision, since it must carry an approval reference or a
\* human approval.
Revise(c) ==
    /\ pc[c] = "proposing"
    /\ Revisable
    /\ Room(1)
    /\ \E terms \in Terms : \E granted \in SUBSET Keys[terms] :
          LET context == basis[c].context
              kept == IF Changed(terms, context) THEN {} ELSE snapshot.approved
              revised == [revision |-> contract.revision + 1, terms |-> terms,
                          context |-> context] IN
             /\ terms # contract.terms => AsRead(c)
             /\ contract' = revised
             /\ snapshot' = [snapshot EXCEPT
                                !.status = "active", !.decision = "continue",
                                !.noProgress = 0, !.repeats = 0, !.lastFailure = None,
                                !.current = basis[c].print,
                                !.history = <<basis[c].print>>,
                                !.satisfied = {},
                                !.approved = kept \union granted,
                                !.events = @ + 1]
             /\ consent' = [k \in AllKeys |->
                               IF k \notin granted THEN consent[k]
                               ELSE revised]
    /\ Return(c)
    /\ UNCHANGED <<world, receipts, turns>>

\* LoopService.stop; stopping a stopped loop changes nothing.
Stop(c) ==
    /\ pc[c] = "idle"
    /\ snapshot.status \notin Terminal
    /\ Room(0)
    /\ snapshot' = [snapshot EXCEPT !.status = "stopped", !.decision = "user_stop",
                                    !.events = @ + 1]
    /\ UNCHANGED <<contract, world, pc, seen, basis, receipts, turns, consent>>

\* What finalize demands of the evidence, first time or not.
Complete(evidence) ==
    /\ ~Drifted(evidence)
    /\ ~Forbidden(evidence.files)
    /\ RequireChange => evidence.files # Baseline
    /\ Satisfied(evidence) = Required

\* finalize's commit, starting from snapshot s.
Conclude(c, s) ==
    /\ Complete(basis[c])
    /\ Room(0)
    /\ snapshot' = [s EXCEPT !.satisfied = Satisfied(basis[c]),
                             !.current = basis[c].print,
                             !.events = @ + 1]
    /\ pc' = [pc EXCEPT ![c] = "finalized"]
    /\ UNCHANGED <<contract, world, seen, basis, receipts, turns, consent>>

\* Mutant of Succeed: a paused loop may be finalized.
SucceedPaused(c) ==
    /\ pc[c] = "gathered"
    /\ snapshot.status \notin Terminal
    /\ AsRead(c)
    /\ Conclude(c, [snapshot EXCEPT !.status = "succeeded", !.decision = "complete"])

\* LoopService.finalize: the completion of an active loop...
Succeed(c) ==
    /\ pc[c] = "gathered"
    /\ snapshot.status = "active"
    /\ AsRead(c)
    /\ Conclude(c, [snapshot EXCEPT !.status = "succeeded", !.decision = "complete"])

\* Mutant of Revalidate: whatever complete state the project is in will do.
RevalidateElsewhere(c) ==
    /\ pc[c] = "gathered"
    /\ snapshot.status = "succeeded"
    /\ AsRead(c)
    /\ Conclude(c, snapshot)

\* ... and its revalidation, for a loop that has already succeeded.
Revalidate(c) ==
    /\ pc[c] = "gathered"
    /\ snapshot.status = "succeeded"
    /\ AsRead(c)
    /\ snapshot.current = basis[c].print
    /\ Conclude(c, snapshot)

\* tool_loop_finalize after the commit: the project is read once more, and
\* the receipt names what that read found.
Issue(c) ==
    /\ pc[c] = "finalized"
    /\ world.print = basis[c].print /\ world.context = basis[c].context
    /\ receipts' = receipts \union
          {[revision |-> seen[c].revision, print |-> world.print, context |-> world.context]}
    /\ Return(c)
    /\ UNCHANGED <<contract, snapshot, world, turns, consent>>

-----------------------------------------------------------------------------
Next ==
    \/ Edit
    \/ ChangeContext
    \/ \E c \in Clients :
          \/ Look(c) \/ ReadSubject(c) \/ ReadChanges(c) \/ Collect(c) \/ Confirm(c)
          \/ ReadContext(c) \/ LookBack(c) \/ GiveUp(c)
          \/ Checkpoint(c) \/ Revise(c) \/ Stop(c)
          \/ Succeed(c) \/ Revalidate(c) \/ Issue(c)

Spec == Init /\ [][Next]_vars

-----------------------------------------------------------------------------
(* Properties.                                                             *)

\* Every variable has the type the code gives it.
TypeOK ==
    /\ contract \in Contracts
    /\ snapshot \in [status : {"active", "needs_approval"} \union Terminal,
                     decision : {"continue", "ready_to_finalize", "needs_approval",
                                 "policy_stop", "user_stop", "complete"},
                     iteration : Nat, noProgress : Nat, repeats : Nat,
                     lastFailure : Failures \union {None},
                     current : Prints, history : Seq(Prints),
                     satisfied : SUBSET (Checks \union AllKeys),
                     approved : SUBSET AllKeys, events : 1..MaxEvents]
    /\ world \in Subjects
    /\ pc \in [Clients -> {"idle", "looked", "reading", "listed", "collected", "gathered",
                           "placed", "proposing", "finalized"}]
    /\ seen \in [Clients -> Contracts \union {None}]
    /\ basis \in [Clients -> Findings \union {None}]
    /\ receipts \subseteq [revision : 1..MaxRevisions, print : Prints, context : Contexts]
    /\ turns \in Nat
    /\ consent \in [AllKeys -> Contracts]

\* docs/loop-system.md, Terminal Outcomes: a succeeded loop met every
\* criterion of its contract, and every gate of the tool layer, in the very
\* project state it recorded, as far as receipts establish them.  Evidence is
\* collected for a contract that may be revised and a project that may be
\* edited before finalize commits.
SuccessIsEarned ==
    snapshot.status = "succeeded" =>
        /\ (Criteria[contract.terms] \union Gates[contract.terms]) \intersect (Checks \ Live)
               \subseteq Passing[snapshot.current]
        /\ Keys[contract.terms] \subseteq snapshot.approved

\* docs/loop-system.md, Autonomy: "out-of-scope changes fail
\* closed".  The state a loop succeeded in is one its scope allows.
SuccessIsInScope == snapshot.status = "succeeded" => ~Forbidden(snapshot.current)

\* Every completion receipt ever issued names the revision, context and
\* project state the loop's snapshot still records: finalize may be repeated
\* by any client, at any later time, without two receipts ever disagreeing.
ReceiptsAgree ==
    \A r \in receipts :
        /\ snapshot.status = "succeeded"
        /\ r = [revision |-> contract.revision, print |-> snapshot.current,
                context |-> contract.context]

\* A loop that is not over has room for the event that ends it, however many
\* checkpoints and revisions came before (the reserve in _append_event).
EveryLoopCanEnd == snapshot.status \notin Terminal => Room(0)

\* ADR 0002, invariant 7: work cannot go on unattended.  Over its whole life,
\* revisions included, a loop is told to continue fewer than maxIterations
\* times, and never while a stagnation or failure breaker is at its limit.
UnattendedIsBounded ==
    /\ turns < MaxIterations
    /\ snapshot.decision = "continue" =>
          /\ snapshot.noProgress < MaxNoProgress
          /\ snapshot.repeats < MaxRepeatedFailure

\* ADR 0002, invariant 4: evidence is invalidated when the target changes.
\* An approval on record was recorded for the present terms and context.
ApprovalsMatchTarget ==
    \A k \in snapshot.approved :
        /\ k \in Keys[contract.terms]
        /\ consent[k].terms = contract.terms
        /\ consent[k].context = contract.context

\* docs/loop-system.md: a paused loop rejects checkpoints and finalization
\* until a revision is recorded, evidence already in flight included.
PauseHolds ==
    [][snapshot.status = "needs_approval" /\ snapshot'.status # "needs_approval" =>
          \/ snapshot'.status = "stopped" /\ contract' = contract
          \/ /\ snapshot'.status = "active"
             /\ contract'.revision = contract.revision + 1
             /\ snapshot'.satisfied = {}]_vars

\* What the program that bound the loop to a phase sees of it.
Standing ==
    CASE snapshot.status = "active" -> "active"
      [] snapshot.status \in {"needs_approval", "stopped"} -> "waiting"
      [] snapshot.status = "succeeded" -> "completed"

AttestedAt == IF snapshot.status = "succeeded" THEN snapshot.events ELSE 0

Attested == INSTANCE AttestedLoop WITH
    status <- Standing, edition <- contract.revision, head <- AttestedAt

\* To that program a loop is an attested one: it is completed for good, under
\* one edition of its contract, and only the event that attests it moves on.
ImplementsAttestedLoop == Attested!Spec

=============================================================================
