----------------------------- MODULE LoopStore -----------------------------
(***************************************************************************)
(* The files of one loop, as LoopService reads and writes them:            *)
(* pending.json, contracts/NNNN.json, contract.json, events.jsonl and      *)
(* snapshot.json.  A commit writes them one at a time, each atomically, and *)
(* may be interrupted between any two writes, by a crash of the process or *)
(* by an error one of the writes raises; the next operation on the loop    *)
(* then replays pending.json, and may be interrupted too.  Operations are  *)
(* serialised by the state lock (DirectoryLock), so at most one is under   *)
(* way: pc and tx are its program counter and its transaction.             *)
(***************************************************************************)
EXTENDS LoopTransaction

VARIABLES
    made,      \* the loop's directory exists
    pending,   \* pending.json
    history,   \* contracts/NNNN.json, by revision
    contract,  \* contract.json
    events,    \* events.jsonl
    snapshot,  \* snapshot.json
    pc,        \* what the operation under way does next
    tx,        \* the transaction it writes
    replaying  \* whether it replays pending.json or commits its own

files == <<pending, history, contract, events, snapshot>>
vars == <<made, pending, history, contract, events, snapshot, pc, tx, replaying>>

OrNone(S) == S \cup {NoFile}

TypeOK ==
    /\ made \in BOOLEAN
    /\ pending \in OrNone(Transaction)
    /\ history \in [Revisions -> OrNone(Contract)]
    /\ contract \in OrNone(Contract)
    /\ events \in OrNone(Log)
    /\ snapshot \in OrNone(Snapshot)
    /\ pc \in {"idle", "read", "loaded", "journal", "history", "contract",
               "events", "snapshot", "unlink"}
    /\ tx \in OrNone(Transaction)
    /\ replaying \in BOOLEAN

Init ==
    /\ made = FALSE
    /\ pending = NoFile
    /\ history = [n \in Revisions |-> NoFile]
    /\ contract = NoFile
    /\ events = NoFile
    /\ snapshot = NoFile
    /\ pc = "idle"
    /\ tx = NoFile
    /\ replaying = FALSE

\* _validate_contract_history: every revision's file is there, and the log
\* records exactly these contracts.
HistoryHolds ==
    /\ \A n \in 1 .. contract.revision :
          /\ history[n] # NoFile
          /\ history[n].revision = n
    /\ history[contract.revision] = contract
    /\ Len(events.chain) = contract.revision
    /\ \A n \in 1 .. contract.revision : events.chain[n] = history[n]

\* What _load demands of the files before it returns them.
Readable ==
    /\ contract # NoFile /\ events # NoFile /\ snapshot # NoFile
    /\ HistoryHolds
    /\ BindingsHold(contract, events, snapshot)

-----------------------------------------------------------------------------
\* start: a fresh directory, then the first transaction.
Start ==
    /\ pc = "idle" /\ ~made
    /\ made' = TRUE
    /\ tx' \in FirstTransactions
    /\ replaying' = FALSE
    /\ pc' = "journal"
    /\ UNCHANGED files

\* Mutant of Open: the journal is not looked at.
OpenWithoutReplay ==
    /\ pc = "idle" /\ made
    /\ pc' = "read"
    /\ UNCHANGED <<made, files, tx, replaying>>

\* Mutant of Open: an interrupted commit is rolled back, not replayed.
OpenDiscardingJournal ==
    /\ pc = "idle" /\ made
    /\ pending' = NoFile
    /\ pc' = "read"
    /\ UNCHANGED <<made, history, contract, events, snapshot, tx, replaying>>

\* _load, first half: replay pending.json if it is there and sound.
Open ==
    /\ pc = "idle" /\ made
    /\ \/ /\ pending = NoFile
          /\ pc' = "read"
          /\ UNCHANGED <<tx, replaying>>
       \/ /\ pending # NoFile
          /\ BindingsHold(pending.contract, pending.events, pending.snapshot)
          /\ tx' = pending
          /\ replaying' = TRUE
          /\ pc' = "history"
    /\ UNCHANGED <<made, files>>

\* _load, second half: the files are returned if they bind to one another;
\* otherwise the call raises.
Read ==
    /\ pc = "read"
    /\ pc' = IF Readable THEN "loaded" ELSE "idle"
    /\ UNCHANGED <<made, files, tx, replaying>>

\* The operation only reads, or refuses.
Refuse ==
    /\ pc = "loaded"
    /\ pc' = "idle"
    /\ UNCHANGED <<made, files, tx, replaying>>

\* Mutant of Decide: the transaction is written without a journal.
DecideWithoutJournal ==
    /\ pc = "loaded"
    /\ tx' \in Successors([contract |-> contract, events |-> events,
                           snapshot |-> snapshot])
    /\ replaying' = FALSE
    /\ pc' = "history"
    /\ UNCHANGED <<made, files>>

\* The operation prepares its transaction.
Decide ==
    /\ pc = "loaded"
    /\ tx' \in Successors([contract |-> contract, events |-> events,
                           snapshot |-> snapshot])
    /\ replaying' = FALSE
    /\ pc' = "journal"
    /\ UNCHANGED <<made, files>>

-----------------------------------------------------------------------------
\* _commit_state; _recover_pending takes the same steps from WriteHistory on.
WriteJournal ==
    /\ pc = "journal"
    /\ pending' = tx
    /\ pc' = "history"
    /\ UNCHANGED <<made, history, contract, events, snapshot, tx, replaying>>

\* Mutant of WriteHistory: a replay restores contract.json only.
WriteHistoryOnCommitOnly ==
    /\ pc = "history"
    /\ history' = IF replaying THEN history
                  ELSE [history EXCEPT ![tx.contract.revision] = tx.contract]
    /\ pc' = "contract"
    /\ UNCHANGED <<made, pending, contract, events, snapshot, tx, replaying>>

WriteHistory ==
    /\ pc = "history"
    /\ history' = [history EXCEPT ![tx.contract.revision] = tx.contract]
    /\ pc' = "contract"
    /\ UNCHANGED <<made, pending, contract, events, snapshot, tx, replaying>>

WriteContract ==
    /\ pc = "contract"
    /\ contract' = tx.contract
    /\ pc' = "events"
    /\ UNCHANGED <<made, pending, history, events, snapshot, tx, replaying>>

\* Mutant of WriteEvents: the journal is removed before the snapshot is written.
WriteEventsThenUnlink ==
    /\ pc = "events"
    /\ events' = tx.events
    /\ pc' = "unlink"
    /\ UNCHANGED <<made, pending, history, contract, snapshot, tx, replaying>>

WriteEvents ==
    /\ pc = "events"
    /\ events' = tx.events
    /\ pc' = "snapshot"
    /\ UNCHANGED <<made, pending, history, contract, snapshot, tx, replaying>>

WriteSnapshot ==
    /\ pc = "snapshot"
    /\ snapshot' = tx.snapshot
    /\ pc' = "unlink"
    /\ UNCHANGED <<made, pending, history, contract, events, tx, replaying>>

\* The journal goes; a replay goes on to read the files, a commit returns to
\* its caller.
Unlink ==
    /\ pc = "unlink"
    /\ pending' = NoFile
    /\ pc' = IF replaying THEN "read" ELSE "idle"
    /\ UNCHANGED <<made, history, contract, events, snapshot, tx, replaying>>

\* The process dies, or the write it was about to make raises.
Interrupt ==
    /\ pc # "idle"
    /\ pc' = "idle"
    /\ UNCHANGED <<made, files, tx, replaying>>

Write ==
    \/ WriteJournal \/ WriteHistory \/ WriteContract
    \/ WriteEvents \/ WriteSnapshot \/ Unlink

Next == Start \/ Open \/ Read \/ Refuse \/ Decide \/ Write \/ Interrupt

Spec == Init /\ [][Next]_vars

-----------------------------------------------------------------------------
\* The transaction that counts: the journal's if there is one, else the one
\* the files hold.
Committed ==
    IF pending # NoFile THEN pending
    ELSE IF snapshot = NoFile THEN NoFile
    ELSE [contract |-> contract, events |-> events, snapshot |-> snapshot]

\* No interruption, wherever it falls and however often it is repeated, makes
\* a committed loop unreadable: once a transaction is committed, the files the
\* loader validates after replaying the journal pass its checks.
CommittedLoads ==
    pc = "read" /\ Committed # NoFile => Readable

\* A journal never outlives its turn: when an operation prepares a new
\* transaction no older journal is left that a later recovery could replay over it.
NoStaleJournal ==
    pc \in {"read", "loaded", "journal"} => pending = NoFile

\* A contract revision, once on disk, is never rewritten with other content,
\* not even by a revision that follows an interrupted one.
RevisionsImmutable ==
    [][\A n \in Revisions : history[n] # NoFile => history'[n] = history[n]]_history

\* A commit that returns to its caller has installed exactly its transaction.
AcknowledgedIsCommitted ==
    [][pc = "unlink" /\ pending' = NoFile => Committed' = tx]_vars

\* The five files together behave as one durable cell.
Durable == INSTANCE DurableLoop WITH cell <- Committed

ImplementsDurableLoop == Durable!Spec
=============================================================================
