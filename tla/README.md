# JStack in TLA+

JStack is a local MCP server and a set of skills that let a coding agent work
under a recorded contract. Its own logic, the part that keeps state and makes
promises, is

- the **loop protocol** (`src/mcp/jstack/loop/protocol.py`): one bounded piece of
  work, from its contract to the receipt that it was done;
- the **program protocol** above it (`src/mcp/jstack/program/protocol.py`): a graph
  of phases, each carried out by a loop, with approvals between them;
- the **tool layer** that feeds both their evidence
  (`src/mcp/jstack/jstack_mcp_server.py`);
- the **study controller** of the proof plane (`src/tools/proof_plane/controller.py`
  and the runners that drive it): scored model attempts, each made once.

This directory models these four, model-checks them with TLC, and proves their
central properties with TLAPS for every value of the constants.

## 1. Inventory

The server is a process per client (stdio); several of them may work on the same
checkout. All durable state is in files below `~/.jstack`, and the study's below its
private root; nothing but directory and file locks serialises the processes.
`plugin/mcp` repeats the sources under `mcp/jstack`.

| Component | State | Operations | Interacts through |
|---|---|---|---|
| Loop lifecycle, `LoopService` | contract, snapshot, events of a loop | start, status, checkpoint, revise, stop, finalize, revalidation | tool layer above, store below |
| Loop tool layer, `tool_loop_*` | none between calls | reads the loop, collects evidence about the checkout, commits, issues receipts | the checkout, the policy file, receipts |
| Loop store | `pending.json`, `contracts/NNNN.json`, `contract.json`, `events.jsonl`, `snapshot.json` | `_commit_state`, `_recover_pending`, `_load` | the file system |
| Write lease | `active.json`, `latest.json` | `_active_loop`, `_set_active`, `_release_active`, `_set_latest` | every operation of every loop of the checkout |
| State lock | `.state-lock/owner.json` | `__enter__`, `__exit__` of `_DirectoryLock` | every operation |
| Loop clock | `activeElapsedSeconds`, `activeSince` | pause, resume | checkpoint's time limit |
| Program phases, `ProgramService` and `tool_program_*` | contract, phase states, approvals, evidence, clock | bind, complete, gates, evidence, pause, resume, revise, cancel, finalize | the child loops and their attestations |
| Program slot, `ProgramService.start` | `active.json`, `latest.json`, operation records, a lock of its own | start, status, idempotent replay, reference recovery | every call of every program of the repository |
| Study controller, `StudyRunController` | `journal.jsonl`, its anchor and checkpoints, start and terminal receipts, a quarantine | initialize, reserve, begin, release, record, seal | the runners, the file system |
| Session receipts | a key per server process | `issue_receipt`, `verify_receipt` | evidence of every tool |
| Investigation | carried in receipts | open, advance, conclude | receipts |
| Installer | staged files, backups | install, update, roll back | the file system |
| Everything else | none (catalogs, validators, detectors, renderers) | pure functions | tool arguments |

What is hard here, by component, and what makes each correct:

- **Tool calls are not atomic.** A call reads the loop, then the project, then the
  project again, then takes the lock and commits. The project, the policy and the
  other clients move in between. Correct: a succeeded loop met its criteria in the
  state it records; receipts never disagree; approvals stay with their target.
- **A commit is five file writes**, each atomic, with a crash or an error possible
  between any two, also during recovery. Correct: the files behave as one cell.
- **The lease and the loop are different files.** Correct: at most one write loop
  is active, and it holds the lease, wherever an operation was cut short.
- **The lock is a directory** that may be left by a dead process. Correct: mutual
  exclusion, and an abandoned lock does not stay.
- **A loop must not run away** and must always be able to end: breakers, counters,
  capacities, clocks.
- **A program's phases rest on one another**, on gates that expire by themselves and
  on loops that go on without it. Correct: nothing is begun on unproved work, a
  withdrawn phase takes all that was built on it along, and a proof is of the child
  and the terms that are now in force.
- **A caller retries** when its answer was lost. Correct: one operation id starts one
  program and is answered as it was the first time; one program runs at a time.
- **A scored attempt cannot be repeated.** Runners die between a receipt and its
  journal record, and others take over. Correct: no cell is invoked twice, the
  journal always loads, the schedule's order is kept, and a finished study is sealed.

`PROJECT.json` lists under *hazards* each place where this bites, with the property
that watches it.

## 2. Modules

```
DirectoryLock          LoopStore ----implements----> DurableLoop
  the lock: one          the files of one loop          one durable cell
  operation at a time        |                             ^
        |                    | LoopTransaction: the values both commit
        v                    v
      LoopLease ----implements----> CheckoutMutex
        all loops of a checkout, a commit is one step
      LoopLifecycle ----implements----> AttestedLoop
        one loop, several clients,        what a program may rely on
        what happens under the lock          |
        is one step                          |
      LoopClock
        the time fields of one loop          | ProgramPhases takes each child
                                             v loop to be an AttestedLoop
      ProgramPhases ----implements----> PhaseOrder
        one program, its phases, gates, clock and child loops
      ProgramSlot ----implements----> OneSlot
        all programs of a repository, every file write of a call a step

      StudyController ----implements----> AttemptSchedule
        the journal and receipts of a study, and the runners at work on it
```

Each layer takes from the one below it exactly what that one is shown to provide.
`DirectoryLock` shows that operations do not interleave, so `LoopStore` and
`LoopLease` have one operation under way. `LoopStore` shows that a transaction is
one step, which happens when its journal is in place, so `LoopLease`,
`LoopLifecycle`, `ProgramPhases` and `ProgramSlot` (whose `_commit` is the same
code) commit in one step. (Where `DirectoryLock` itself can fail, see *Known limits*,
the layers above inherit it.)

| Module | Models | State and actions |
|---|---|---|
| `LoopTransaction` | what one transaction consists of | contracts, logs and snapshots; a digest is the value it is the digest of |
| `LoopStore` | `_commit_state`, `_recover_pending`, `_load` | one variable per file; `pc`, `tx`, `replaying` for the operation under way; one action per file write; `Interrupt` anywhere |
| `DurableLoop` | what the store promises | `cell`; `Create`, `Extend` |
| `LoopLease` | lease handling of every operation | `status`, `writes` per loop, `lease`, `latest`; begin, lease, commit, settle as separate steps; `Crash`, `CommitFails`, `CommitFailsLate`; `struck` remembers which of these happened |
| `CheckoutMutex` | what the lease is for | `writer`; `Acquire`, `Release` |
| `DirectoryLock` | `_DirectoryLock` | `dir` (owner and age), `pc` and measured age per process; one action per file operation; `WriteOwnerRaises`, `Crash`, `Age` |
| `LoopLifecycle` | `LoopService` operations and `tool_loop_*` | `contract`, `snapshot`, the `world`; `pc`, `seen`, `basis` per client; one action per read (subject, changed files, evidence, subject again) and per commit |
| `AttestedLoop` | what a loop promises to the program above it | `status`, `edition`, `head`; `Wait`, `Revise`, `Attest` |
| `LoopClock` | the two time fields | `status`, `elapsed`, `since`; history variable `worked` |
| `PhaseOrder` | what a program promises about its phases | `plan`, `begun`, `proved`; `Begin`, `Prove`, `Withdraw` |
| `ProgramPhases` | `ProgramService` operations on one program, and `tool_program_*` | contract, `child` and `proof` per phase, `approvals`, `evidence`, clock; the child loops; `calls`, the tool calls in flight with what they have read; `Ask*` is the read, the bare name the commit |
| `OneSlot` | what a repository promises about its programs | `holder`, `begun` per operation id; `Begin`, `End` |
| `ProgramSlot` | `start`, `status` and the calls that name their program; the lock | `dir` and `ops` per program, the two references, `lock`, the call at `work`; one action per file write; `Crash`, `WriteRaises` |
| `AttemptSchedule` | what a study promises about its attempts | `state` per cell, `sealed`; `Reserve`, `Move`, `Seal` |
| `StudyController` | `StudyRunController`, `_run_study_cell`, `run_model_attempt` | the journal as derived, anchors, checkpoints, receipts, quarantine; the method at `work` and what each runner has in `hand`; one action per file write; `Die`, `Raise`, either of which may leave `debris` or a `torn` record |
| `MC*` | instances for TLC | constants, symmetry |
| `*Proofs` | theorems | inductive invariants and proofs |

Choices that deserve a word. Of the loop:

- *Data.* A project state is a model value with the set of checks that hold of it;
  the contract's content (`Terms`) is a model value with its criteria, approval
  keys, required receipts and forbidden states. Which glob matched which file does
  not matter to the control.
- *Receipts and live checks.* QA, security, audit, launch, UI and handoff receipts
  name a subject and count only for it; the caller supplies any subset of those that
  exist. Review and artifact checks (`Live`) look at the checkout at the moment.
- *Changed files* are listed in a reading of their own, which may see another state than
  the two subject readings around it; `Findings` keeps that state apart (`files`), and
  scope, limits, protected paths and `requireChange` are judged by it, as in the code.
- *Policy and tool version* together are one `context`; a contract records one.
- *A revision* in `LoopLifecycle` changes terms only with the contract it was
  assessed against unchanged, since `bind_goal_readiness` ties the readiness
  attestation to the prior contract digest. Approval-only revisions have no such tie.
- *`GiveUp`* stands for every error path of a tool call and for the death of its
  process: the call is forgotten, no state changes.
- *Limits* (`maxIterations` and the others) are constants: a revision that raises a
  limit is not modelled, so `UnattendedIsBounded` speaks of loops that keep theirs.

Of the program:

- *Contracts.* A phase contract is a body, a program contract the plan of the bodies
  of its phases, and a revision number its digest. A body is the whole of a phase, its
  dependencies and gates included, and of a UI phase the program's `uiContract` as well,
  since a change of either withdraws the phase; its `Core` is the part of it that
  `bind_phase` compares with the child loop. Every plan has an order of its own
  (`Rank`), so a revision may turn a dependency around. New evidence records differ from
  all earlier ones.
- *Child loops* exist and are active from the start, and are seen as the program sees
  them: the loop, the edition of its contract, whether it is at work, waiting or done,
  and the head it was revalidated at. That is `AttestedLoop`, no more and, its bounds
  apart, no less (section 5). `AskBind` offers a child whose contract matches
  the phase; one that does not is refused by the tool layer and changes nothing. The
  reads of the program and of its children are one step; a call and its commit are two.
- *Status.* What the code distinguishes as waiting for a human, for an external
  system or for a dependency is one waiting status: the clock treats them alike.
- *Expiry* is a step of its own (`ExpireDecision`, `ExpireEvidence`, `Exhaust`) at any
  moment, as nothing is called when a record expires.
- *After a revision* the active seconds may or may not have reached the (new) limit.
- *Order of programs.* A program's number is its `createdAt`; a status call without an
  id takes the newest. The payload digest of an operation is told apart for `start`
  only; status and the reclaiming of a lock carry no operation id.

Of the study:

- *Torn writes.* `append_ledger_event` is a plain write loop, so a death or an error in
  it may leave part of a record (`torn`); the other files are replaced atomically, by way
  of a temporary file that a death may leave among the checkpoints (`debris`). The
  files of loops and programs are all replaced atomically.
- *The journal* is held as `_derive_state` makes it out. A record's position stands for
  its digest, since the journal only grows, and so a reservation's handle is the number
  of its record.
- *The lock* is an `flock`, which the system releases with its holder, so there is no
  stale lock; a method is entered when no other is under way.
- *Catching up* is part of every load: a record without its anchor, an anchor without
  its checkpoint, a published start without its record.
- *The quarantine* of a release is named after the anchor at its time; when the anchor
  moves, older ones are never written again, and `shelf` starts over.
- *The attempt itself* is `Admit` or `Reject` (trusted admission), `Launch` (the model's
  start is requested), `Terminalize` or `Abandon` (the evidence suffices or does not).
- *Status calls* only load; the ones between two decisions of `_run_study_cell` are
  merged with the method that follows.

Everywhere: *history variables* (`struck` in `LoopLease`, `turns` and `consent` in `LoopLifecycle`, `worked` in
`LoopClock`, `aged` in `ProgramPhases`, `told` in `ProgramSlot`, `launched` in
`StudyController`) are read by no guard. *Mutants*: next to some definitions stands a
variant of it with a plausible bug, marked *Mutant of*. No specification uses it; each
shows that a property would notice.

## 3. Runs

Every property below was also seen violated by a mutant (PROJECT.json, *mutants*).

| Run | Question | Bounds, and why they are enough |
|---|---|---|
| `loop_store` | do the five files behave as one cell? | 2 bodies (two contracts or snapshots can differ), 3 revisions (a revision after an interrupted revision, and one more), 4 events (the log fills up, and the last slot is reserved) |
| `loop_lease` | one writer, who holds the lease, under deaths and errors, and no dead lease? | 3 loops: one paused, one holding, one starting; any number of deaths and of commits that raise early or late. Each property excepts the fault it cannot survive: a late error (finding 1), or a death between lease and journal |
| `lock` | do processes exclude one another until one dies, and is what a dead one leaves reclaimed? | 4 processes at once, any of which may die anywhere; a live holder finishes within 30 s |
| `loop_lifecycle` | success, receipts, room to end, pauses, and what may a program rely on? | 2 clients (one overtakes the other between any two of its steps), 2 project states and 2 terms that both allow the one and disagree on the other, 3 contracts, 4 events: start, revision, checkpoint, end |
| `loop_breakers` | do the breakers go on tripping after a resume, and do approvals stay with their target? | 1 client whose calls are still several steps; stagnation and repetition trip at 2, before the limit of 4 checkpoints, and 8 events hold checkpoint, revision, checkpoint and again; 2 terms, 2 contexts, 3 contracts (grant, drift, return) |
| `loop_glimpse` | is a succeeded loop's state in its scope? (no) | 1 client, 3 project states: the baseline, one in scope, one out of it that passes its checks |
| `loop_clock` | is waiting ever charged? | 6 ticks: two intervals of work with a wait between them |
| `program_phases` | do phases keep their order, their proofs and their rest while everything moves? | a chain of 3 phases (a dependent of a dependent); 3 plans, of which one changes the middle phase and one turns the first two around and drops the third; a human gate after whichever phase comes first, and once turned around an external gate before it; 3 child loops of 2 editions and one revalidation, 2 revisions; `MaxUnsettled` = 2: two calls in flight, or one and a child that has moved |
| `program_slot` | one program, one program per operation id, answers that agree? | 3 programs (a retry can find its program behind a newer one), 4 operation ids, 2 operation records per program (they run out), 2 payloads, a crash or an error at any write |
| `study` | are attempts made once and in order, and does a study finish? | 2 cells, 2 runners, room for both at once; 2 faults anywhere, in the middle of a write too (a death, and one of the method that repairs it); no reservation once the journal has more than 4 records, which leaves room for one to be released and made anew |

With two cells the ceiling `MaxParallel` does not bind in `study`; the theorems
`Follows` and `CeilingHeld` cover it.

Deadlock is checked wherever the system cannot stop. `CHECK_DEADLOCK FALSE` is set
in the lease runs (all loops may be terminal), in the lock run (all processes
may be dead), in the clock run (time ends at the horizon), in the program runs (a
program may be over and its loops at rest; a lock without an owner is never taken
again) and in the study run (a reservation beyond `MaxRecords` waits for ever).
Client, body, loop and operation symmetry is used in runs without liveness.

**Fairness.** Two properties need any.

- `AbandonedLockReclaimed` in `lock`: a live process is scheduled
  (`WF_vars(Step(p))`: the code is a loop without waiting for anything but a short
  sleep), time passes (`WF_vars(Age)`), and some operation asks for the lock again
  (`WF_vars` of `Call` by some process). The last is an assumption on the users: the
  claim is that the next ones who come can get in, and a waiter may give up at its
  deadline.
- `CompleteIsSealed` in `study`: the method under way goes on (`WF_vars(Method)`: the
  code does not wait inside the lock), a runner goes on with its attempt
  (`WF_vars(Attempt(r))`), and the maintainer keeps calling `run-study`, with and
  without `--resume`. That `flock` lets each caller in at some time is strong fairness
  of entering (`SF_vars`), since the lock is free again and again and not for good.

No fairness is assumed on any tool call: a loop or a program that nobody calls rests.

## 4. Findings

Each is a run that TLC finds violated.

1. **`loop_lease_split`**: `_commit_state` raises after `pending.json` is in place
   (a full disk in any later write). `start` and `revise` release the lease, but
   the transaction will be replayed. A second write loop starts, the first one is
   loaded: two active write loops on one checkout. ADR 0002, invariant 2, says one.
2. **`program_parallel`**: the scheduler compares a ready phase with the phases that
   are running. A phase whose gate has expired counts as stale, not as running, though
   its child loop goes on; a phase with an overlapping scope is then bound, and when
   the gate is met again both are running. ADR 0004 asks for disjoint scopes.
3. **`loop_glimpse`**: the list of changed files is read between the two subject
   readings and compared with neither (`jstack_mcp_server.py:26082`). An edit that is
   undone while the files are listed lets a loop succeed in a state that its scope or the
   protected paths forbid (or that has no change, where one is required).
   `docs/loop-system.md:107-109` says that out-of-scope changes fail closed. So
   `SuccessIsEarned` makes no claim about the scope.

### Known limits

What the models showed, or showed while they were made, that no document promises
otherwise, that a run would only restate, or that lies outside what the modules keep:

- *Lock of the loop state.* Two waiters may judge the lock of a dead process stale;
  the first moves it, locks and enters, and the second moves the first's new lock
  (`loop/protocol.py:1751`; `tests/test_loop.py:224` has one waiter). The program lock
  reclaims by the same two steps. `MutualExclusion` therefore speaks of the time
  before a death.
- *Approvals.* `revise` has no expected contract digest, unlike `checkpoint` and
  `finalize`; an approval given for one contract counts for another recorded meanwhile
  (`loop/protocol.py:2735`). `ApprovalsMatchTarget` holds from the moment of recording.
- *Glimpses.* Review and artifact checks, too, look at the checkout between two readings
  of it that are compared with each other only (`jstack_mcp_server.py:26126`); that is
  finding 3 again, without a document against it. `SuccessIsEarned` speaks of what
  receipts establish.
- *Clock of the loop.* `revise` on an active loop sets `activeSince` to now and drops
  the interval that was running (`loop/protocol.py:2138`); a policy stop leaves
  `activeSince` set, so the elapsed time shown goes on growing (2561).
- *Room of the program.* Operation records and events have no reserve for cancel and
  finalize (`program/protocol.py:1276`, `1561`): a program that used them up cannot be
  ended and keeps the slot.
- *Wedges of the program.* A lock directory without an owner (1099) and a program
  directory without a transaction (1913) are refused ever after, until somebody
  removes them by hand.
- *Children of the program.* A child loop revised after it was bound cannot complete
  its phase until the program is revised. Pause and cancel look at the children before
  they take the lock, so a child may move in between; a completion in flight is refused
  (`PausedWorkStands`). `finalize` does not look at the manual pause again.
- *Gates.* An external gate before a phase that is already complete stays in use; its
  evidence cannot be replaced, so once that expires only a revision helps (2519). Completing a phase
  again does not withdraw its dependents. Records expire with no operation at hand, and
  the clock goes on until the next one (`ClockHonest` leaves out just that).
- *Retries of the program.* A start retried with its operation id while a newer
  program runs is refused, not answered (`program/protocol.py:1884-1898`), although
  `docs/program-system.md:60-61` calls every state-changing call "transactionally
  retry-safe" and ADR 0004, invariant 13, "durably idempotent". In the model such a
  call fails (`Found`). `RetriesAgree` therefore speaks of the answers that are given:
  no two of them disagree.
- *Journal of the study.* `append_ledger_event` neither writes a record atomically nor
  takes a part of one back (`common.py:541-547`, `620-652`). A runner that dies, or a
  disk that fills up, in the middle leaves a torn record, and `_validate_ledger_bytes`
  (895-897) refuses the journal at every later load; no code repairs it. This is `torn`.
- *Checkpoints of the study.* A runner that dies inside the write of a checkpoint
  leaves a temporary file in the directory, which `_validate_checkpoint_chain` rejects
  at every later load (`controller.py:1475-1479`). This is `debris`; `AlwaysLoads` and
  `CompleteIsSealed` except it and `torn`, and claim what holds without them.
- *Releases of the study.* Three deaths can leave the files of the last reserved cell
  both in place and in the quarantine of the present anchor; it can then be neither
  admitted nor released until another cell moves the anchor (1110). `release_prestart`
  takes a run id only and may release a newer reservation of another runner.
- *Consumed cells.* One without terminal evidence is never retried, so the study can
  never be sealed. That is the policy, *one-scored-invocation-no-retry*.

## 5. Proofs

`tlapm` checks every proof to the last leaf. The constants are arbitrary, subject to the
named assumptions in the modules (capacities positive, `None` outside the sets, machine
checks and approval keys disjoint, each plan's dependencies without a cycle).

- **`LoopStoreProofs`**. The inductive invariant says what each file holds at each
  program counter: with a journal in place, the files written so far equal the journal's
  parts and the others still hold the transaction it extends. `Readable` at `read` alone
  is not inductive: between two writes the files do not bind. From it follow
  `CommittedLoads`, `NoStaleJournal`, `RevisionsImmutable`, `AcknowledgedIsCommitted`,
  and, step by step, that `LoopStore` implements `DurableLoop`: `WriteJournal` is the
  step of the cell, all others stutter. Hence what is committed is sound at every moment
  (`CommittedIsSound`) and is replaced only by what extends its log and its contract
  history (`NothingIsTakenBack`): a step of the files is a step of the cell or leaves it
  alone, and a successor extends.
- **`LoopLeaseProofs`**. In three layers. `Base` (types, `LatestLoads`, what the
  operation under way is about to commit) holds whatever the faults. `Exclusive` adds
  that an active write loop holds the lease and that an operation about to activate a
  loop has it already; it holds as long as `"late" \notin struck`, whatever has died or
  raised early: a late error is the first finding. `Reconciled` is the other half: as
  long as `"crash" \notin struck`, a lease on a loop that does not load is the one a
  start has just taken, whose commit or except clause will put it right. From it follows
  `LeaseReconciles`, which says so of the moments between operations only and is not
  inductive by itself.
- **`DirectoryLockProofs`**. `MutualExclusion` and `OwnerNamed` for any number of
  processes, for as long as none has died and no holder is slow. The invariant relates
  the directory to the unique holder's program counter and keeps the directory young
  while somebody holds it; after a death it is false.
- **`LoopLifecycleProofs`**. `ClientsSound` says what a call that has collected evidence
  knows (what receipts told it was true of the subject it names, and the gates of the
  contract it read were among them; of the files it listed nothing is known); `LoopSound` ties the snapshot to the contract (approvals,
  counters, satisfied criteria, receipts, room). Together with the types they are
  inductive, for any number of clients, project states, terms and limits.
  `LoopIsAttested` takes every commit to a `Wait`, `Revise` or `Attest` of
  `AttestedLoop` or to no step; calls that read and steps of the world stutter. A
  checkpoint is the hard case: that it never completes a loop rests on what the call
  carries (`ClientsSound`). The attested head is the number of the last event, which a
  revalidation moves on. `EndIsFinal` says that a call in flight when the loop ended
  changes nothing of its end.
- **`LoopClockProofs`**. `TimeAccounted` ties `activeSince` to the status. On a wall
  clock that is never set back (`MaySetBack = FALSE`) the account is exact, but for the
  interval that a revision of an active loop drops (`OnlyRevisionForgives`).
- **`ProgramPhasesProofs`**. The safety invariants are inductive together with the
  types, not one by one: a completed program keeps its proofs because nothing is
  withdrawn from it, and a withdrawal keeps the order because the order held before.
  What is left after a withdrawal is closed under *depends on*; that is a lemma about
  `Grounded`, which rests on the dependencies of each plan having no cycle; no two
  plans need to agree on an order. The refinement maps a
  phase with a child to a begun one, one with a proof to a proved one; every commit is
  one step of `PhaseOrder`, a revision or a rejected gate a `Withdraw`.
  *The seam to the loops* is closed in both directions. `ChildrenAreAttested`: each
  child loop behaves as an `AttestedLoop`. `NoStepLeftOut`: every step `AttestedLoop`
  allows, within the bounds on editions and heads, is one that `ProgramPhases` lets its
  environment take. (It numbers attestations one by one, where the loop's log may skip
  numbers; the program compares them for equality only.) So the program is proved
  against all that `LoopLifecycle` may do, as `LoopLifecycle` is proved to do no more
  than `AttestedLoop`.
- **`ProgramSlotProofs`**. `Invariance` relates the two references, the call at work and
  its step to the directories; each property is then a theorem of its own. The
  refinement takes the commit of a start as `Begin`, of an end as `End`. A call
  commits once, into an empty directory or a program that permits the change, and only
  where its id has no record yet (lemma `Committing`), so no record is lost or
  overwritten and no end undone (`RecordsStand`,
  `EndsStand`). `LookupRepairs` says that a start, or a status call without an id, that
  finds its program leaves `active.json` exact whatever was left of it; its invariant
  `Repairing` follows the call through the steps of the repair.
- **`StudyControllerProofs`**. The invariant is a conjunction: `Chained` (the chain is
  at most one record, one anchor and one checkpoint behind, and where, and what a torn
  write may have left), `Recorded` (the
  receipts agree with the journal), `Shape` and `Sees` (what the method at work may rely
  on), `Launches` (a launched cell's start has been recorded, and one runner at most is
  about to launch a cell, before anybody has). `OneInvocation` alone is not inductive:
  it needs that a runner whose handle is stale can never come to have begun. One lemma
  classifies what a step does to cells and receipts; `Recorded`, the refinement and
  `StartsBind` (a published start is never taken back) rest on it. The same lemma gives
  `WithinCeiling`: only a reservation adds to the active cells, and it finds room.
  `SealedIsComplete` needs `Sealing`, which says between which two records of the seal
  the set is written. `MethodsEnd`: the natural number `Left`, read off the program
  counter and what is left to repair, falls with every step of a method and with an
  error in it, so no method holds the lock for ever.

Proved only, and not in a run: the types of `LoopLease`, `LoopLifecycle`,
`ProgramPhases` and `StudyController`; that a terminal loop (`LoopLease`, `EndIsFinal`)
and a program that is over (`Frozen`) stay so; that one write loop is active as long as
commits do not raise (`SingleWriter`); `CommittedIsSound`, `NothingIsTakenBack`,
`OnlyRevisionForgives`, `RecordsStand`, `EndsStand`, `LookupRepairs`, `WithinCeiling`,
`StartsBind`, `SealedIsComplete`, `MethodsEnd`; and the child loops of `ProgramPhases`.

Model-checked only: the two liveness properties, `AbandonedLockReclaimed` and
`CompleteIsSealed`, since liveness under fairness is beyond the prover. `MethodsEnd` is
the part of the argument for the second that is a matter of safety. Mutual exclusion
after a death is neither proved nor checked: it does not hold (*Known limits*).

## 6. What is not modelled

- The goal-readiness exchange, the receipts' signatures, ages and session binding.
- File sizes: the byte limits of the logs are abstracted to their event limits.
- Malformed or hand-edited files: the loaders refuse them. The files of loops and
  programs are replaced atomically, so no operation leaves part of one; the journal of a
  study is appended to, and its torn record is in the model.
- A process id that is given out again: `_DirectoryLock` takes a new process with the id
  of a dead holder for the holder, and does not reclaim the lock while that one lives.
  `AbandonedLockReclaimed` speaks of ids that are not reused.
- `git_change_evidence` runs several Git commands; the model has one reading of the files.
- Loop snapshots of an older schema, without `activeElapsedSeconds`
  (`loop/protocol.py:2103-2113`).
- Final gates: `FinalGates` is in `ProgramPhases` and its proofs, and empty in the runs.
- A live lock holder slower than `LOCK_STALE_SECONDS` is in the model
  (`"slow" \in Faults`) but no document bounds an operation's time, so no run claims
  anything about it.
- Clock jumps forward, and the truncation of elapsed time to whole seconds.
- The number of programs a repository may store (`MAX_STORED_PROGRAMS`), in whose place
  `MaxPrograms` bounds the run.
- What a study's receipts, attempt ledgers and trusted plan contain, the image and
  container work, and `reconcile_terminal_receipts`, which nothing calls.
- Most of the repository by lines: catalogs, validators, renderers and their vendored
  copies, which keep no state between calls. `PROJECT.json` lists the components left
  out, with the reason for each.

## 7. Plan

Done: the loop protocol, bottom up, then its lifecycle and clock; the program protocol
(phases, slot); the study controller; their abstract specifications, refinements and
proofs. What would come next:

1. The investigation gate: a state machine carried in receipts, where a lost or repeated
   receipt is the interesting case.
2. The installer's transaction: staged files, backups and a rollback after a crash,
   with the file-level store model as its pattern.
3. Session receipts as a component of their own: issue, age, session binding.
4. Limits that a revision may change. (`LoopLifecycle` and `ProgramPhases` meet in
   `AttestedLoop`; a module with both would show no more.)
5. The batch lifecycle and image builds of the proof plane.
