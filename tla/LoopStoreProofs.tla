-------------------------- MODULE LoopStoreProofs --------------------------
(***************************************************************************)
(* LoopStore's files behave as one durable cell, for every set of bodies   *)
(* and every capacity of the log and of the contract history.              *)
(***************************************************************************)
EXTENDS LoopStore, TLAPS

\* A transaction whose parts bind to one another and whose chain is its history.
Sound(t) ==
    /\ t \in Transaction
    /\ BindingsHold(t.contract, t.events, t.snapshot)
    /\ Len(t.events.chain) = t.contract.revision
    /\ t.events.chain[t.contract.revision] = t.contract
    /\ \A n \in 1 .. t.contract.revision : t.events.chain[n].revision = n

\* The history holds every revision of t but, perhaps, the newest.
Leads(t) ==
    /\ \A n \in 1 .. (t.contract.revision - 1) : history[n] = t.events.chain[n]
    /\ history[t.contract.revision] \in {NoFile, t.contract}
    /\ \A n \in Revisions : n > t.contract.revision => history[n] = NoFile

Writing == {"history", "contract", "events", "snapshot", "unlink"}

\* What the files hold between transactions.
Settled ==
    \/ /\ contract = NoFile /\ events = NoFile /\ snapshot = NoFile
       /\ \A n \in Revisions : history[n] = NoFile
    \/ /\ contract # NoFile /\ events # NoFile /\ snapshot # NoFile
       /\ Sound(Committed) /\ Leads(Committed)
       /\ history[contract.revision] = contract

\* How far the transaction being written has got.
Progress ==
    /\ pc \in Writing => pending = tx /\ tx # NoFile
    /\ pc \in Writing \ {"history"} => history[tx.contract.revision] = tx.contract
    /\ pc \in {"events", "snapshot", "unlink"} => contract = tx.contract
    /\ pc \in {"snapshot", "unlink"} => events = tx.events
    /\ pc = "unlink" => snapshot = tx.snapshot

IInv ==
    /\ TypeOK
    /\ ~made => pc = "idle" /\ Committed = NoFile
    /\ pending # NoFile => Sound(pending) /\ Leads(pending)
    /\ pending = NoFile => Settled
    /\ NoStaleJournal
    /\ pc = "loaded" => Readable
    /\ pc = "journal" => IF Committed = NoFile THEN tx \in FirstTransactions
                         ELSE tx \in Successors(Committed)
    /\ Progress

-----------------------------------------------------------------------------
\* A transaction put together by Record is sound when its chain ends in its
\* contract.
LEMMA RecordSound ==
    ASSUME NEW c \in Contract, NEW ch \in Seq(Contract), NEW n \in 1 .. MaxEvents,
           NEW b \in Bodies,
           Len(ch) = c.revision,
           ch[c.revision] = c,
           \A k \in 1 .. c.revision : ch[k].revision = k
    PROVE  /\ Sound(Record(c, ch, n, b))
           /\ Record(c, ch, n, b).contract = c
           /\ Record(c, ch, n, b).events.chain = ch
<1> DEFINE bound == [contract |-> c, sequence |-> n, body |-> b]
           log == [length |-> n, chain |-> ch, bound |-> bound]
           snap == [bound |-> bound, latest |-> log]
<1>1. bound \in Bound
  BY DEF Bound
<1>2. log \in Log
  BY <1>1 DEF Log
<1>3. snap \in Snapshot
  BY <1>1, <1>2 DEF Snapshot
<1>4. Record(c, ch, n, b) = [contract |-> c, events |-> log, snapshot |-> snap]
  BY DEF Record
<1>5. Record(c, ch, n, b) \in Transaction
  BY <1>2, <1>3, <1>4 DEF Transaction
<1> QED
  BY <1>4, <1>5 DEF Sound, BindingsHold

\* A loop's first transaction is sound and has revision 1.
LEMMA FirstSound ==
    ASSUME NEW t \in FirstTransactions
    PROVE  Sound(t) /\ t.contract.revision = 1
<1>1. PICK b \in Bodies, s \in Bodies :
          t = Record([revision |-> 1, body |-> b], <<[revision |-> 1, body |-> b]>>, 1, s)
  BY DEF FirstTransactions
<1> DEFINE c == [revision |-> 1, body |-> b]
           ch == <<c>>
<1>2. c \in Contract
  BY LimitsAssumption DEF Contract, Revisions
<1>3. c.revision = 1
  OBVIOUS
<1>4. /\ ch \in Seq(Contract) /\ Len(ch) = c.revision /\ ch[c.revision] = c
      /\ \A k \in 1 .. c.revision : ch[k].revision = k
  BY <1>2, <1>3
<1>5. PICK n \in 1 .. MaxEvents : n = 1
  BY LimitsAssumption
<1> HIDE DEF c, ch
<1>6. Sound(Record(c, ch, n, s)) /\ Record(c, ch, n, s).contract = c
  BY <1>2, <1>4, RecordSound
<1> QED
  BY <1>1, <1>3, <1>5, <1>6 DEF c, ch

\* An operation's next transaction is sound, and it keeps the contract or
\* appends one revision to the chain.
LEMMA SuccessorSound ==
    ASSUME NEW t, Sound(t), NEW u \in Successors(t)
    PROVE  /\ Sound(u)
           /\ \/ u.contract = t.contract /\ u.events.chain = t.events.chain
              \/ /\ u.contract.revision = t.contract.revision + 1
                 /\ u.events.chain = Append(t.events.chain, u.contract)
<1>1. /\ t.contract \in Contract /\ t.contract.revision \in Revisions
      /\ t.events.chain \in Seq(Contract)
      /\ t.events.length \in 1 .. MaxEvents
      /\ Len(t.events.chain) = t.contract.revision
      /\ t.events.chain[t.contract.revision] = t.contract
      /\ \A k \in 1 .. t.contract.revision : t.events.chain[k].revision = k
  BY DEF Sound, Transaction, Contract, Log
<1>2. CASE u \in SameContract(t) /\ t.events.length < MaxEvents
  <2>1. PICK s \in Bodies :
            u = Record(t.contract, t.events.chain, t.events.length + 1, s)
    BY <1>2 DEF SameContract
  <2>2. t.events.length + 1 \in 1 .. MaxEvents
    BY <1>1, <1>2, LimitsAssumption
  <2> QED
    BY <1>1, <2>1, <2>2, RecordSound
<1>3. CASE /\ u \in NewContract(t)
           /\ t.contract.revision < MaxRevisions /\ t.events.length < MaxEvents - 1
  <2> DEFINE c(b) == [revision |-> t.contract.revision + 1, body |-> b]
  <2>1. PICK b \in Bodies, s \in Bodies :
            u = Record(c(b), Append(t.events.chain, c(b)), t.events.length + 1, s)
    BY <1>3 DEF NewContract
  <2>2. t.events.length + 1 \in 1 .. MaxEvents
    BY <1>1, <1>3, LimitsAssumption
  <2>3. c(b) \in Contract /\ c(b).revision = t.contract.revision + 1
    BY <1>1, <1>3, LimitsAssumption DEF Contract, Revisions
  <2> DEFINE ch == Append(t.events.chain, c(b))
  <2> HIDE DEF c
  <2>4. /\ ch \in Seq(Contract) /\ Len(ch) = c(b).revision
        /\ ch[c(b).revision] = c(b)
        /\ \A k \in 1 .. t.contract.revision : ch[k] = t.events.chain[k]
    BY <1>1, <2>3 DEF Revisions
  <2>5. \A k \in 1 .. c(b).revision : ch[k].revision = k
    BY <1>1, <2>3, <2>4 DEF Revisions
  <2> HIDE DEF ch
  <2>6. /\ Sound(Record(c(b), ch, t.events.length + 1, s))
        /\ Record(c(b), ch, t.events.length + 1, s).contract = c(b)
        /\ Record(c(b), ch, t.events.length + 1, s).events.chain = ch
    BY <2>2, <2>3, <2>4, <2>5, RecordSound
  <2> QED
    BY <2>1, <2>3, <2>6 DEF ch
<1>4. Capacity(TRUE) = MaxEvents /\ Capacity(FALSE) = MaxEvents - 1
  BY DEF Capacity
<1>5. CASE /\ u \in SameContract(t)
           /\ t.events.length < Capacity(TRUE)
  BY <1>2, <1>4, <1>5
<1>6. CASE /\ u \in NewContract(t)
           /\ t.contract.revision < MaxRevisions /\ t.events.length < Capacity(FALSE)
  BY <1>3, <1>4, <1>6
<1> QED
  BY <1>5, <1>6 DEF Successors

-----------------------------------------------------------------------------
\* The initial state satisfies the invariant.
LEMMA InitIInv == Init => IInv
<1> SUFFICES ASSUME Init PROVE IInv
  OBVIOUS
<1>1. TypeOK
  BY DEF Init, TypeOK, OrNone
<1>2. Settled
  BY DEF Init, Settled
<1> QED
  BY <1>1, <1>2 DEF Init, IInv, Committed, NoStaleJournal, Progress, Writing

\* What does not depend on pc, tx or replaying is untouched by a step that
\* writes no file.
LEMMA FilesKept ==
    ASSUME UNCHANGED files
    PROVE  /\ Committed' = Committed
           /\ Readable' = Readable
           /\ Settled' = Settled
           /\ Leads(pending)' = Leads(pending)
           /\ Sound(pending)' = Sound(pending)
<1>1. Committed' = Committed
  BY DEF files, Committed
<1>2. Readable' = Readable
  BY DEF files, Readable, HistoryHolds, BindingsHold
<1>3. Leads(pending)' = Leads(pending)
  BY DEF files, Leads
<1>4. Sound(pending)' = Sound(pending)
  BY DEF files, Sound, BindingsHold
<1>5. Sound(Committed)' = Sound(Committed) /\ Leads(Committed)' = Leads(Committed)
  BY <1>1 DEF files, Sound, BindingsHold, Leads
<1>6. Settled' = Settled
  BY <1>5 DEF files, Settled
<1> QED
  BY <1>1, <1>2, <1>3, <1>4, <1>6

\* The steps that write no file keep the invariant.
LEMMA QuietStep ==
    ASSUME IInv, Start \/ Open \/ Read \/ Refuse \/ Decide \/ Interrupt
    PROVE  IInv'
<1> USE DEF IInv
<1>1. UNCHANGED files
  BY DEF Start, Open, Read, Refuse, Decide, Interrupt
<1>2. UNCHANGED <<pending, history, contract, events, snapshot>>
  BY <1>1 DEF files
<1>3. /\ pending' # NoFile => Sound(pending)' /\ Leads(pending)'
      /\ pending' = NoFile => Settled'
      /\ Committed' = Committed /\ Readable' = Readable
  BY <1>1, <1>2, FilesKept
<1>4. CASE Start
  <2>1. Committed = NoFile /\ pending = NoFile
    BY <1>4, NoFileAssumption DEF Start, Committed, Sound
  <2>2. tx' \in Transaction
    BY <1>4, FirstSound DEF Start, Sound
  <2>3. TypeOK'
    BY <1>2, <1>4, <2>2 DEF Start, TypeOK, OrNone
  <2> QED
    BY <1>2, <1>3, <1>4, <2>1, <2>3 DEF Start, NoStaleJournal, Progress, Writing
<1>5. CASE Open
  <2>1. tx' \in OrNone(Transaction)
    BY <1>5 DEF Open, TypeOK, OrNone
  <2>2. TypeOK'
    BY <1>2, <1>5, <2>1 DEF Open, TypeOK
  <2> QED
    BY <1>2, <1>3, <1>5, <2>2 DEF Open, NoStaleJournal, Progress, Writing
<1>6. CASE Read
  <2>1. TypeOK'
    BY <1>2, <1>6 DEF Read, TypeOK
  <2> QED
    BY <1>2, <1>3, <1>6, <2>1 DEF Read, NoStaleJournal, Progress, Writing
<1>7. CASE Refuse
  <2>1. TypeOK'
    BY <1>2, <1>7 DEF Refuse, TypeOK
  <2> QED
    BY <1>2, <1>3, <1>7, <2>1 DEF Refuse, NoStaleJournal, Progress, Writing
<1>8. CASE Decide
  <2>1. pending = NoFile /\ snapshot # NoFile
    BY <1>8 DEF Decide, NoStaleJournal, Readable
  <2>2. Committed = [contract |-> contract, events |-> events, snapshot |-> snapshot]
    BY <2>1 DEF Committed
  <2>3. Sound(Committed) /\ Committed # NoFile
    BY <2>1, NoFileAssumption DEF Settled, Sound
  <2>4. tx' \in Successors(Committed)
    BY <1>8, <2>2 DEF Decide
  <2>5. tx' \in Transaction
    BY <2>3, <2>4, SuccessorSound DEF Sound
  <2>6. TypeOK'
    BY <1>2, <1>8, <2>5 DEF Decide, TypeOK, OrNone
  <2> QED
    BY <1>2, <1>3, <1>8, <2>1, <2>3, <2>4, <2>6
       DEF Decide, NoStaleJournal, Progress, Writing
<1>9. CASE Interrupt
  <2>1. TypeOK'
    BY <1>2, <1>9 DEF Interrupt, TypeOK
  <2> QED
    BY <1>2, <1>3, <1>9, <2>1 DEF Interrupt, NoStaleJournal, Progress, Writing
<1> QED
  BY <1>4, <1>5, <1>6, <1>7, <1>8, <1>9

-----------------------------------------------------------------------------
\* The transaction about to be journalled is sound, and the history on disk
\* is the one it extends.
LEMMA JournalSound ==
    ASSUME IInv, pc = "journal"
    PROVE  Sound(tx) /\ Leads(tx)
<1>1. pending = NoFile /\ Settled
  BY DEF IInv, NoStaleJournal
<1>2. CASE Committed = NoFile
  <2>1. tx \in FirstTransactions
    BY <1>2 DEF IInv
  <2>2. Sound(tx) /\ tx.contract.revision = 1
    BY <2>1, FirstSound
  <2>3. snapshot = NoFile
    BY <1>1, <1>2, NoFileAssumption DEF Committed, Settled, Sound
  <2>4. \A n \in Revisions : history[n] = NoFile
    BY <1>1, <2>3 DEF Settled
  <2> QED
    BY <2>2, <2>4, LimitsAssumption DEF Leads, Revisions
<1>3. CASE Committed # NoFile
  <2>1. tx \in Successors(Committed)
    BY <1>3 DEF IInv
  <2>2. snapshot # NoFile
    BY <1>1, <1>3 DEF Committed
  <2>3. /\ Sound(Committed) /\ Leads(Committed)
        /\ history[Committed.contract.revision] = Committed.contract
    BY <1>1, <2>2 DEF Settled, Committed
  <2>4. Sound(tx)
    BY <2>1, <2>3, SuccessorSound
  <2>5. /\ Committed.contract.revision \in Revisions
        /\ Committed.events.chain \in Seq(Contract)
        /\ Len(Committed.events.chain) = Committed.contract.revision
        /\ Committed.events.chain[Committed.contract.revision] = Committed.contract
        /\ tx.contract.revision \in Revisions
    BY <2>3, <2>4 DEF Sound, Transaction, Contract, Log
  <2>6. CASE /\ tx.contract = Committed.contract
             /\ tx.events.chain = Committed.events.chain
    BY <2>3, <2>4, <2>6 DEF Leads
  <2>7. CASE /\ tx.contract.revision = Committed.contract.revision + 1
             /\ tx.events.chain = Append(Committed.events.chain, tx.contract)
    <3>1. \A n \in 1 .. Committed.contract.revision :
              tx.events.chain[n] = Committed.events.chain[n]
      BY <2>4, <2>5, <2>7 DEF Revisions, Sound, Transaction
    <3>2. \A n \in 1 .. Committed.contract.revision :
              history[n] = Committed.events.chain[n]
      BY <2>3, <2>5 DEF Leads, Revisions
    <3>3. tx.contract.revision > Committed.contract.revision
      BY <2>5, <2>7 DEF Revisions
    <3>4. history[tx.contract.revision] = NoFile
      BY <2>3, <2>5, <3>3 DEF Leads
    <3>5. \A n \in Revisions : n > tx.contract.revision => history[n] = NoFile
      BY <2>3, <2>5, <3>3 DEF Leads, Revisions
    <3>6. tx.contract.revision - 1 = Committed.contract.revision
      BY <2>5, <2>7 DEF Revisions
    <3> QED
      BY <2>4, <3>1, <3>2, <3>4, <3>5, <3>6 DEF Leads
  <2> QED
    BY <2>1, <2>3, <2>4, <2>6, <2>7, SuccessorSound
<1> QED
  BY <1>2, <1>3

\* While a transaction is written, the journal holds it and it is sound.
LEMMA WritingSound ==
    ASSUME IInv, pc \in Writing
    PROVE  /\ pending = tx /\ tx # NoFile /\ Sound(tx) /\ Leads(tx)
           /\ tx.contract \in Contract /\ tx.contract.revision \in Revisions
           /\ tx.events \in Log /\ tx.snapshot \in Snapshot
           /\ tx = [contract |-> tx.contract, events |-> tx.events,
                    snapshot |-> tx.snapshot]
<1>1. pending = tx /\ tx # NoFile /\ Sound(tx) /\ Leads(tx)
  BY DEF IInv, Progress
<1>2. tx \in Transaction
  BY <1>1 DEF Sound
<1> QED
  BY <1>1, <1>2 DEF Transaction, Contract

\* Each write keeps the invariant.
LEMMA WriteStep ==
    ASSUME IInv, Write
    PROVE  IInv'
<1>1. CASE WriteJournal
  <2>1. Sound(tx) /\ Leads(tx) /\ tx # NoFile /\ tx \in Transaction
    BY <1>1, JournalSound, NoFileAssumption DEF WriteJournal, Sound
  <2>2. Sound(pending)' /\ Leads(pending)' /\ pending' # NoFile
    BY <1>1, <2>1 DEF WriteJournal, Sound, Leads, BindingsHold
  <2>3. TypeOK'
    BY <1>1, <2>1 DEF WriteJournal, TypeOK, OrNone, IInv
  <2> QED
    BY <1>1, <2>1, <2>2, <2>3
       DEF WriteJournal, IInv, NoStaleJournal, Progress, Writing, Committed
<1>2. CASE WriteHistory
  <2>1. pc \in Writing
    BY <1>2 DEF WriteHistory, Writing
  <2>2. history \in [Revisions -> OrNone(Contract)]
    BY DEF IInv, TypeOK
  <2>3. /\ history' \in [Revisions -> OrNone(Contract)]
        /\ history'[tx.contract.revision] = tx.contract
        /\ \A n \in Revisions : n # tx.contract.revision => history'[n] = history[n]
    BY <1>2, <2>1, <2>2, WritingSound DEF WriteHistory, OrNone
  <2>4. Leads(pending)'
    BY <1>2, <2>1, <2>3, WritingSound DEF WriteHistory, Leads, Revisions
  <2>5. Sound(pending)' /\ pending' # NoFile
    BY <1>2, <2>1, WritingSound DEF WriteHistory, Sound, BindingsHold
  <2>6. TypeOK'
    BY <1>2, <2>3 DEF WriteHistory, TypeOK, IInv
  <2>7. Progress'
    BY <1>2, <2>1, <2>3, WritingSound DEF WriteHistory, Progress, Writing
  <2> QED
    BY <1>2, <2>4, <2>5, <2>6, <2>7
       DEF WriteHistory, IInv, NoStaleJournal, Committed
<1>3. CASE WriteContract
  <2>1. pc \in Writing
    BY <1>3 DEF WriteContract, Writing
  <2>2. Leads(pending)' /\ Sound(pending)' /\ pending' # NoFile
    BY <1>3, <2>1, WritingSound DEF WriteContract, Leads, Sound, BindingsHold
  <2>3. TypeOK'
    BY <1>3, <2>1, WritingSound DEF WriteContract, TypeOK, OrNone, IInv
  <2>4. Progress'
    BY <1>3, <2>1, WritingSound DEF WriteContract, IInv, Progress, Writing
  <2> QED
    BY <1>3, <2>2, <2>3, <2>4 DEF WriteContract, IInv, NoStaleJournal, Committed
<1>4. CASE WriteEvents
  <2>1. pc \in Writing
    BY <1>4 DEF WriteEvents, Writing
  <2>2. Leads(pending)' /\ Sound(pending)' /\ pending' # NoFile
    BY <1>4, <2>1, WritingSound DEF WriteEvents, Leads, Sound, BindingsHold
  <2>3. TypeOK'
    BY <1>4, <2>1, WritingSound DEF WriteEvents, TypeOK, OrNone, IInv
  <2>4. Progress'
    BY <1>4, <2>1, WritingSound DEF WriteEvents, IInv, Progress, Writing
  <2> QED
    BY <1>4, <2>2, <2>3, <2>4 DEF WriteEvents, IInv, NoStaleJournal, Committed
<1>5. CASE WriteSnapshot
  <2>1. pc \in Writing
    BY <1>5 DEF WriteSnapshot, Writing
  <2>2. Leads(pending)' /\ Sound(pending)' /\ pending' # NoFile
    BY <1>5, <2>1, WritingSound DEF WriteSnapshot, Leads, Sound, BindingsHold
  <2>3. TypeOK'
    BY <1>5, <2>1, WritingSound DEF WriteSnapshot, TypeOK, OrNone, IInv
  <2>4. Progress'
    BY <1>5, <2>1, WritingSound DEF WriteSnapshot, IInv, Progress, Writing
  <2> QED
    BY <1>5, <2>2, <2>3, <2>4 DEF WriteSnapshot, IInv, NoStaleJournal, Committed
<1>6. CASE Unlink
  <2>1. pc \in Writing
    BY <1>6 DEF Unlink, Writing
  <2>2. /\ contract = tx.contract /\ events = tx.events /\ snapshot = tx.snapshot
        /\ history[tx.contract.revision] = tx.contract
    BY <1>6 DEF Unlink, IInv, Progress, Writing
  <2>3. /\ contract' = tx.contract /\ events' = tx.events /\ snapshot' = tx.snapshot
        /\ history' = history /\ pending' = NoFile
    BY <1>6, <2>2 DEF Unlink
  <2>4. tx.snapshot # NoFile /\ tx.contract # NoFile /\ tx.events # NoFile
    BY <2>1, WritingSound, NoFileAssumption
  <2>5. Committed' = tx
    BY <2>1, <2>3, <2>4, WritingSound DEF Committed
  <2>6. Sound(Committed)' /\ Leads(Committed)'
    BY <2>1, <2>3, <2>5, WritingSound DEF Sound, Leads, BindingsHold
  <2>7. Settled'
    BY <2>2, <2>3, <2>4, <2>6 DEF Settled
  <2>8. TypeOK'
    BY <1>6 DEF Unlink, TypeOK, OrNone, IInv
  <2>9. ~made' => pc' = "idle" /\ Committed' = NoFile
    BY <1>6 DEF Unlink, IInv
  <2> QED
    BY <1>6, <2>3, <2>7, <2>8, <2>9
       DEF Unlink, IInv, NoStaleJournal, Progress, Writing
<1> QED
  BY <1>1, <1>2, <1>3, <1>4, <1>5, <1>6 DEF Write

-----------------------------------------------------------------------------
\* Every step, stuttering included, keeps the invariant.
LEMMA NextIInv == IInv /\ [Next]_vars => IInv'
<1> SUFFICES ASSUME IInv, [Next]_vars PROVE IInv'
  OBVIOUS
<1>1. CASE Start \/ Open \/ Read \/ Refuse \/ Decide \/ Interrupt
  BY <1>1, QuietStep
<1>2. CASE Write
  BY <1>2, WriteStep
<1>3. CASE UNCHANGED vars
  <2>1. UNCHANGED files /\ UNCHANGED <<made, pending, history, contract, events,
                                       snapshot, pc, tx, replaying>>
    BY <1>3 DEF vars, files
  <2>2. TypeOK'
    BY <2>1 DEF IInv, TypeOK
  <2>3. Progress' /\ NoStaleJournal'
    BY <2>1 DEF IInv, Progress, NoStaleJournal
  <2> QED
    BY <2>1, <2>2, <2>3, FilesKept DEF IInv
<1> QED
  BY <1>1, <1>2, <1>3 DEF Next

\* The invariant holds in every reachable state.
THEOREM Invariance == Spec => []IInv
<1> QED
  BY InitIInv, NextIInv, PTL DEF Spec

\* Every variable keeps its type, the capacities of the log and of the contract
\* history included.
THEOREM TypeCorrect == Spec => []TypeOK
<1>1. IInv => TypeOK
  BY DEF IInv
<1> QED
  BY <1>1, Invariance, PTL

\* After the journal is replayed a committed loop passes the loader's checks.
LEMMA SettledReadable ==
    ASSUME IInv, pending = NoFile, Committed # NoFile
    PROVE  Readable
<1>1. snapshot # NoFile
  BY DEF Committed
<1>2. /\ contract # NoFile /\ events # NoFile
      /\ Sound(Committed) /\ Leads(Committed)
      /\ history[contract.revision] = contract
  BY <1>1 DEF IInv, Settled
<1>3. Committed = [contract |-> contract, events |-> events, snapshot |-> snapshot]
  BY <1>1 DEF Committed
<1>4. contract \in Contract
  BY <1>2 DEF IInv, TypeOK, OrNone
<1>5. \A n \in 1 .. contract.revision : history[n] = events.chain[n]
  BY <1>2, <1>3, <1>4 DEF Sound, Leads, Contract, Revisions
<1>6. \A n \in 1 .. contract.revision : events.chain[n] \in Contract
  <2>1. events.chain \in Seq(Contract) /\ Len(events.chain) = contract.revision
    BY <1>2, <1>3 DEF Sound, Transaction, Log
  <2>2. \A n \in 1 .. Len(events.chain) : events.chain[n] \in Contract
    BY <2>1
  <2> QED
    BY <2>1, <2>2
<1>7. HistoryHolds
  BY <1>2, <1>3, <1>5, <1>6, NoFileAssumption DEF HistoryHolds, Sound
<1> QED
  BY <1>1, <1>2, <1>3, <1>7 DEF Readable, Sound

\* No interruption makes a committed loop unreadable.
THEOREM NeverUnreadable == Spec => []CommittedLoads
<1>1. IInv => CommittedLoads
  BY SettledReadable DEF IInv, NoStaleJournal, CommittedLoads
<1> QED
  BY <1>1, Invariance, PTL

\* No journal survives into the preparation of the next transaction.
THEOREM JournalReplayed == Spec => []NoStaleJournal
<1>1. IInv => NoStaleJournal
  BY DEF IInv
<1> QED
  BY <1>1, Invariance, PTL

\* A revision's file never changes once it is there.
THEOREM HistoryNeverRewritten == Spec => RevisionsImmutable
<1>1. IInv /\ [Next]_vars
        => [\A n \in Revisions : history[n] # NoFile => history'[n] = history[n]]_history
  <2> SUFFICES ASSUME IInv, [Next]_vars, history' # history
               PROVE  \A n \in Revisions : history[n] # NoFile => history'[n] = history[n]
    OBVIOUS
  <2>1. WriteHistory
    BY DEF vars, files, Next, Start, Open, Read, Refuse, Decide, Interrupt, Write,
           WriteJournal, WriteContract, WriteEvents, WriteSnapshot, Unlink
  <2>2. pc \in Writing
    BY <2>1 DEF WriteHistory, Writing
  <2>3. history[tx.contract.revision] \in {NoFile, tx.contract}
    BY <2>2, WritingSound DEF Leads
  <2>4. history \in [Revisions -> OrNone(Contract)]
    BY DEF IInv, TypeOK
  <2> QED
    BY <2>1, <2>3, <2>4 DEF WriteHistory
<1> QED
  BY <1>1, Invariance, PTL DEF Spec, RevisionsImmutable

\* A commit that returns has installed its transaction.
THEOREM AcknowledgedInstalled == Spec => AcknowledgedIsCommitted
<1>1. IInv /\ [Next]_vars => [pc = "unlink" /\ pending' = NoFile => Committed' = tx]_vars
  <2> SUFFICES ASSUME IInv, [Next]_vars, pc = "unlink", pending' = NoFile
               PROVE  Committed' = tx
    OBVIOUS
  <2>1. pc \in Writing
    BY DEF Writing
  <2>2. pending # NoFile
    BY <2>1, WritingSound
  <2>3. Unlink
    BY <2>2 DEF vars, files, Next, Start, Open, Read, Refuse, Decide, Interrupt, Write,
           WriteJournal, WriteHistory, WriteContract, WriteEvents, WriteSnapshot
  <2>4. /\ contract' = tx.contract /\ events' = tx.events /\ snapshot' = tx.snapshot
    BY <2>3 DEF Unlink, IInv, Progress
  <2>5. tx.snapshot # NoFile
    BY <2>1, WritingSound, NoFileAssumption
  <2> QED
    BY <2>1, <2>4, <2>5, WritingSound DEF Committed
<1> QED
  BY <1>1, Invariance, PTL DEF Spec, AcknowledgedIsCommitted

\* The two modules mean the same by their transactions.
LEMMA SameDefinitions ==
    /\ Durable!FirstTransactions = FirstTransactions
    /\ \A t : Durable!Successors(t) = Successors(t)
<1>1. \A c, ch, n, b : Durable!Record(c, ch, n, b) = Record(c, ch, n, b)
  BY DEF Durable!Record, Record
<1>2. Durable!FirstTransactions = FirstTransactions
  BY DEF Durable!FirstTransactions, FirstTransactions, Durable!Record, Record
<1>3. \A t : Durable!SameContract(t) = SameContract(t)
  BY <1>1 DEF Durable!SameContract, SameContract
<1>4. \A t : Durable!NewContract(t) = NewContract(t)
  BY <1>1 DEF Durable!NewContract, NewContract
<1>5. \A x : Durable!Capacity(x) = Capacity(x)
  BY DEF Durable!Capacity, Capacity
<1> QED
  BY <1>2, <1>3, <1>4, <1>5 DEF Durable!Successors, Successors

\* The files implement the durable cell: each step of LoopStore is, for the
\* committed transaction, a step of DurableLoop or no step at all.
THEOREM Refinement == Spec => ImplementsDurableLoop
<1>1. Init => Durable!Init
  BY DEF Init, Committed, Durable!Init
<1>2. IInv /\ [Next]_vars => [Durable!Next]_Committed
  <2> SUFFICES ASSUME IInv, [Next]_vars PROVE Durable!Next \/ Committed' = Committed
    OBVIOUS
  <2>1. CASE Start \/ Open \/ Read \/ Refuse \/ Decide \/ Interrupt
    <3>1. UNCHANGED files
      BY <2>1 DEF Start, Open, Read, Refuse, Decide, Interrupt
    <3> QED
      BY <3>1, FilesKept
  <2>2. CASE WriteJournal
    <3>1. tx # NoFile
      BY <2>2, JournalSound, NoFileAssumption DEF WriteJournal, Sound
    <3>2. Committed' = tx
      BY <2>2, <3>1 DEF WriteJournal, Committed
    <3>3. IF Committed = NoFile THEN tx \in FirstTransactions
          ELSE tx \in Successors(Committed)
      BY <2>2 DEF WriteJournal, IInv
    <3> QED
      BY <3>2, <3>3, SameDefinitions DEF Durable!Next, Durable!Create, Durable!Extend
  <2>3. CASE WriteHistory \/ WriteContract \/ WriteEvents \/ WriteSnapshot
    <3>1. pc \in Writing
      BY <2>3 DEF WriteHistory, WriteContract, WriteEvents, WriteSnapshot, Writing
    <3>2. pending' = pending /\ pending # NoFile
      BY <2>3, <3>1, WritingSound
         DEF WriteHistory, WriteContract, WriteEvents, WriteSnapshot
    <3> QED
      BY <3>2 DEF Committed
  <2>4. CASE Unlink
    <3>1. pc = "unlink" /\ pc \in Writing /\ pending' = NoFile
      BY <2>4 DEF Unlink, Writing
    <3>2. Committed = tx
      BY <3>1, WritingSound DEF Committed
    <3>3. /\ contract' = tx.contract /\ events' = tx.events /\ snapshot' = tx.snapshot
      BY <2>4, <3>1 DEF Unlink, IInv, Progress
    <3>4. tx.snapshot # NoFile
      BY <3>1, WritingSound, NoFileAssumption
    <3>5. Committed' = tx
      BY <3>1, <3>3, <3>4, WritingSound DEF Committed
    <3> QED
      BY <3>2, <3>5
  <2>5. CASE UNCHANGED vars
    BY <2>5 DEF vars, Committed
  <2> QED
    BY <2>1, <2>2, <2>3, <2>4, <2>5 DEF Next, Write
<1> QED
  BY <1>1, <1>2, Invariance, PTL DEF Spec, ImplementsDurableLoop, Durable!Spec

-----------------------------------------------------------------------------
(* What a loop has recorded, from one transaction to the next.             *)

\* u records all that t does: its log is longer, and the contract revisions t
\* went through are the first that u went through.
Extends(u, t) ==
    /\ u.events.length > t.events.length
    /\ \A n \in 1 .. t.contract.revision : u.events.chain[n] = t.events.chain[n]
    /\ t.contract.revision <= u.contract.revision

\* No interruption and no replay takes an acknowledged event or revision back:
\* a committed transaction is replaced by nothing but one that extends it.
NothingIsTakenBack ==
    [][Committed # NoFile => Committed' # NoFile /\ Extends(Committed', Committed)]_Committed

\* A committed transaction binds its contract, its log and its snapshot to one
\* another, and its log names every revision up to its contract's.
CommittedIsSound == Committed # NoFile => Sound(Committed)

\* What counts as committed is sound at every moment of a commit or a replay.
LEMMA CommittedSound == IInv => CommittedIsSound
BY DEF IInv, CommittedIsSound, Committed, Settled

THEOREM CommittedStaysSound == Spec => []CommittedIsSound
BY CommittedSound, Invariance, PTL

LEMMA SuccessorExtends ==
    ASSUME NEW t, Sound(t), NEW u \in Successors(t)
    PROVE  Extends(u, t)
<1>1. /\ t.contract.revision \in Nat /\ u.contract.revision \in Nat
      /\ t.events.chain \in Seq(Contract) /\ Len(t.events.chain) = t.contract.revision
      /\ t.events.length \in Nat
  <2>1. Sound(t) /\ Sound(u)
    BY SuccessorSound
  <2>2. /\ t.contract \in Contract /\ u.contract \in Contract /\ t.events \in Log
        /\ Len(t.events.chain) = t.contract.revision
    BY <2>1 DEF Sound, Transaction
  <2> QED
    BY <2>2 DEF Contract, Revisions, Log
<1>2. u.events.length = t.events.length + 1
  <2>1. CASE u \in SameContract(t)
    BY <2>1 DEF SameContract, Record
  <2>2. CASE u \in NewContract(t)
    <3> DEFINE c(b) == [revision |-> t.contract.revision + 1, body |-> b]
    <3>1. PICK b \in Bodies, s \in Bodies :
              u = Record(c(b), Append(t.events.chain, c(b)), t.events.length + 1, s)
      BY <2>2 DEF NewContract
    <3> HIDE DEF c
    <3> QED
      BY <3>1 DEF Record
  <2> QED
    BY <2>1, <2>2 DEF Successors
<1>3. CASE u.contract = t.contract /\ u.events.chain = t.events.chain
  BY <1>1, <1>2, <1>3 DEF Extends
<1>4. CASE /\ u.contract.revision = t.contract.revision + 1
           /\ u.events.chain = Append(t.events.chain, u.contract)
  <2>1. \A n \in 1 .. t.contract.revision : u.events.chain[n] = t.events.chain[n]
    BY <1>1, <1>4
  <2> QED
    BY <1>1, <1>2, <1>4, <2>1 DEF Extends
<1> QED
  BY <1>3, <1>4, SuccessorSound

\* The history of a loop only ever grows.
THEOREM HistoryOnlyGrows == Spec => NothingIsTakenBack
<1>1. IInv /\ [Durable!Next]_Committed
        => [Committed # NoFile => Committed' # NoFile /\ Extends(Committed', Committed)]_Committed
  <2> SUFFICES ASSUME IInv, Durable!Next, Committed # NoFile
               PROVE  Committed' # NoFile /\ Extends(Committed', Committed)
    OBVIOUS
  <2>1. Sound(Committed)
    BY CommittedSound DEF CommittedIsSound
  <2>2. Committed' \in Successors(Committed)
    BY SameDefinitions DEF Durable!Next, Durable!Create, Durable!Extend
  <2>3. Sound(Committed') /\ Extends(Committed', Committed)
    BY <2>1, <2>2, SuccessorSound, SuccessorExtends
  <2> QED
    BY <2>3, NoFileAssumption DEF Sound
<1> QED
  BY <1>1, Refinement, Invariance, PTL
  DEF ImplementsDurableLoop, Durable!Spec, NothingIsTakenBack
=============================================================================
