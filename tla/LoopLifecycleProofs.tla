------------------------ MODULE LoopLifecycleProofs ------------------------
(***************************************************************************)
(* What LoopLifecycle promises for any number of clients, project states,  *)
(* terms and limits: success is earned, receipts agree, a loop can always  *)
(* end, unattended work is bounded, approvals match their target.          *)
(***************************************************************************)
EXTENDS LoopLifecycle, SequenceTheorems, TLAPS

(***************************************************************************)
(* The inductive invariant.  A client's readings are typed only while it   *)
(* has some; what it read of the contract is never newer than the          *)
(* contract, and equal to it if the revisions are; what it collected holds *)
(* of the state it recorded; and once it has finalized the loop, nothing   *)
(* of the contract or the recorded state moves under it any more.          *)
(***************************************************************************)
HasSeen(c) == pc[c] \in {"looked", "reading", "listed", "collected", "gathered",
                         "proposing", "finalized"}

HasBasis(c) == pc[c] \in {"reading", "listed", "collected", "gathered", "placed",
                          "proposing", "finalized"}

SeenSound == \A c \in Clients : HasSeen(c) =>
    /\ seen[c] \in Contracts
    /\ seen[c].revision <= contract.revision
    /\ seen[c].revision = contract.revision => seen[c] = contract

BasisSound == \A c \in Clients : HasBasis(c) => basis[c] \in Findings

EvidenceSound == \A c \in Clients :
    pc[c] \in {"collected", "gathered", "finalized"} =>
        /\ basis[c].passed \ Live \subseteq Passing[basis[c].print]
        /\ Gates[seen[c].terms] \subseteq Passing[basis[c].print]

FinalSound == \A c \in Clients : pc[c] = "finalized" =>
    /\ snapshot.status = "succeeded"
    /\ seen[c].revision = contract.revision
    /\ basis[c].print = snapshot.current
    /\ basis[c].context = contract.context

TurnsSound == turns <= snapshot.iteration /\ UnattendedIsBounded

ClientsSound == SeenSound /\ BasisSound /\ EvidenceSound /\ FinalSound

LoopSound ==
    /\ SuccessIsEarned /\ ReceiptsAgree /\ EveryLoopCanEnd
    /\ TurnsSound /\ ApprovalsMatchTarget

IInv == TypeOK /\ ClientsSound /\ LoopSound

-----------------------------------------------------------------------------
(* Facts about the operators.                                              *)

\* The last elements of a nonempty sequence are elements of it.
LEMMA LastOfType ==
    ASSUME NEW S, NEW s \in Seq(S), NEW n \in Nat
    PROVE  LastOf(s, n) \in Seq(S)
<1>1. CASE Len(s) > n
    BY <1>1, SubSeqProperties DEF LastOf
<1>2. CASE ~(Len(s) > n)
    BY <1>2, SubSeqProperties DEF LastOf
<1> QED BY <1>1, <1>2

\* What an evidence collection satisfies are criteria the contract has.
LEMMA SatisfiedType ==
    ASSUME TypeOK, NEW e \in Findings
    PROVE  Satisfied(e) \in SUBSET (Checks \union AllKeys)
BY TermsAssumption DEF TypeOK, Contracts, Findings, Satisfied, AllKeys

\* The counters a checkpoint computes are counters.
LEMMA CountersType ==
    ASSUME TypeOK, NEW e \in Findings, NEW f \in Failures \union {None}
    PROVE  Stagnation(e) \in Nat /\ Repetition(f) \in Nat
BY DEF TypeOK, Stagnation, Repetition

\* checkpoint's decision determines a status, and "continue" is only decided
\* while every counter is below its limit.
LEMMA DecisionSound ==
    ASSUME TypeOK, NEW e \in Findings, NEW f \in Failures \union {None},
           NEW b \in BOOLEAN, NEW l \in BOOLEAN
    PROVE  LET d == Decision(e, f, b, l) IN
           /\ d \in {"continue", "ready_to_finalize", "needs_approval", "policy_stop"}
           /\ StatusAfter(d) \in {"active", "needs_approval", "stopped"}
           /\ d = "continue" => ~Tripped(e, f, l)
<1> DEFINE d == Decision(e, f, b, l)
<1>1. CASE Forbidden(e.files)
    BY <1>1 DEF Decision, StatusAfter
<1>2. CASE ~Forbidden(e.files) /\ (Drifted(e) \/ b)
    BY <1>2 DEF Decision, StatusAfter
<1>3. CASE ~Forbidden(e.files) /\ ~Drifted(e) /\ ~b
    <2>1. d = IF Satisfied(e) = Required THEN "ready_to_finalize"
              ELSE IF Tripped(e, f, l) THEN "needs_approval" ELSE "continue"
        BY <1>3 DEF Decision
    <2> QED BY <2>1 DEF StatusAfter
<1> QED BY <1>1, <1>2, <1>3

-----------------------------------------------------------------------------
LEMMA InitIInv == Init => IInv
<1> SUFFICES ASSUME Init PROVE IInv
    OBVIOUS
<1> PICK t \in Terms, x \in Contexts :
        /\ contract = [revision |-> 1, terms |-> t, context |-> x]
        /\ world = [print |-> Baseline, context |-> x]
    BY DEF Init
<1>1. TypeOK
    <2>1. <<Baseline>> \in Seq(Prints)
        BY ProjectAssumption
    <2>2. contract \in Contracts /\ world \in Subjects
        BY ProjectAssumption, LimitsAssumption DEF Contracts, Subjects
    <2> QED
        BY <2>1, <2>2, ProjectAssumption, LimitsAssumption
        DEF Init, TypeOK, Terminal, Contracts
<1>2. ClientsSound
    BY DEF Init, ClientsSound, SeenSound, BasisSound, EvidenceSound, FinalSound,
           HasSeen, HasBasis
<1>3. LoopSound
    BY LimitsAssumption
    DEF Init, LoopSound, SuccessIsEarned, ReceiptsAgree, EveryLoopCanEnd, Room,
        TurnsSound, UnattendedIsBounded, ApprovalsMatchTarget
<1> QED BY <1>1, <1>2, <1>3 DEF IInv

-----------------------------------------------------------------------------
\* Nothing the loop has promised depends on anything but what was committed.
LEMMA LoopUntouched ==
    ASSUME LoopSound, UNCHANGED <<contract, snapshot, receipts, turns, consent>>
    PROVE  LoopSound'
BY DEF LoopSound, SuccessIsEarned, ReceiptsAgree, EveryLoopCanEnd, Room, TurnsSound,
       UnattendedIsBounded, ApprovalsMatchTarget

\* The world moves.
LEMMA WorldStep ==
    ASSUME IInv, Edit \/ ChangeContext
    PROVE  IInv'
<1> USE DEF IInv
<1>1. UNCHANGED <<contract, snapshot, pc, seen, basis, receipts, turns, consent>>
    BY DEF Edit, ChangeContext
<1>2. world' \in Subjects
    BY DEF Edit, ChangeContext, TypeOK, Subjects
<1>3. TypeOK'
    BY <1>1, <1>2 DEF TypeOK
<1>4. ClientsSound'
    BY <1>1 DEF ClientsSound, SeenSound, BasisSound, EvidenceSound, FinalSound,
                HasSeen, HasBasis
<1> QED BY <1>1, <1>3, <1>4, LoopUntouched

\* A client reads, collects, or gives up.
LEMMA ReadingStep ==
    ASSUME IInv, NEW c \in Clients,
           \/ Look(c) \/ ReadSubject(c) \/ ReadChanges(c) \/ Collect(c) \/ Confirm(c)
           \/ ReadContext(c) \/ LookBack(c) \/ GiveUp(c)
    PROVE  IInv'
<1> USE DEF IInv
<1>1. UNCHANGED <<contract, snapshot, world, receipts, turns, consent>>
    BY DEF Look, ReadSubject, ReadChanges, Collect, Confirm, ReadContext, LookBack, GiveUp
<1>2. CASE Look(c) \/ LookBack(c)
    <2>1. seen' = [seen EXCEPT ![c] = contract] /\ UNCHANGED basis
        BY <1>2 DEF Look, LookBack
    <2>2. PICK q \in {"looked", "proposing"} : pc' = [pc EXCEPT ![c] = q]
        BY <1>2 DEF Look, LookBack
    <2>3. q = "proposing" => pc[c] = "placed"
        BY <1>2, <2>2 DEF Look, LookBack, TypeOK
    <2>4. TypeOK'
        BY <1>1, <2>1, <2>2 DEF TypeOK
    <2>5. SeenSound'
        BY <1>1, <2>1, <2>2 DEF TypeOK, Contracts, ClientsSound, SeenSound, HasSeen
    <2>6. BasisSound'
        BY <1>1, <2>1, <2>2, <2>3 DEF TypeOK, ClientsSound, BasisSound, HasBasis
    <2>7. EvidenceSound' /\ FinalSound'
        BY <1>1, <2>1, <2>2 DEF TypeOK, ClientsSound, EvidenceSound, FinalSound
    <2> QED BY <1>1, <2>4, <2>5, <2>6, <2>7, LoopUntouched DEF ClientsSound
<1>3. CASE ReadSubject(c) \/ ReadContext(c)
    <2> DEFINE e == Subject
    <2>1. e \in Findings
        BY ProjectAssumption DEF Subject, TypeOK, Subjects, Findings
    <2>2. basis' = [basis EXCEPT ![c] = e] /\ UNCHANGED seen
        BY <1>3 DEF ReadSubject, ReadContext
    <2>3. PICK q \in {"reading", "placed"} : pc' = [pc EXCEPT ![c] = q]
        BY <1>3 DEF ReadSubject, ReadContext
    <2>4. q = "reading" => pc[c] = "looked"
        BY <1>3, <2>3 DEF ReadSubject, ReadContext, TypeOK
    <2> HIDE DEF e
    <2>5. TypeOK'
        BY <1>1, <2>1, <2>2, <2>3 DEF TypeOK
    <2>6. ClientsSound'
        BY <1>1, <2>1, <2>2, <2>3, <2>4
        DEF TypeOK, ClientsSound, SeenSound, BasisSound, EvidenceSound,
            FinalSound, HasSeen, HasBasis
    <2> QED BY <1>1, <2>5, <2>6, LoopUntouched
<1>4. CASE Collect(c)
    <2>1. PICK supplied \in SUBSET (Passing[basis[c].print] \ Live) :
            /\ Gates[seen[c].terms] \subseteq supplied
            /\ basis' = [basis EXCEPT ![c].passed =
                           supplied \union (Passing[world.print] \intersect Live)]
        BY <1>4 DEF Collect
    <2> DEFINE passed == supplied \union (Passing[world.print] \intersect Live)
    <2>2. basis[c] \in Findings
        BY <1>4 DEF Collect, ClientsSound, BasisSound, HasBasis
    <2>3. passed \in SUBSET Checks /\ passed \ Live \subseteq Passing[basis[c].print]
        BY <2>2, ProjectAssumption DEF TypeOK, Subjects, Findings
    <2>4. Gates[seen[c].terms] \subseteq Passing[basis[c].print]
        BY <2>1
    <2> HIDE DEF passed
    <2>5. PICK e \in Findings : /\ e.print = basis[c].print /\ e.passed = passed
                                /\ basis' = [basis EXCEPT ![c] = e]
        <3> DEFINE e == [basis[c] EXCEPT !.passed = passed]
        <3>1. e \in Findings /\ e.print = basis[c].print /\ e.passed = passed
            BY <2>2, <2>3 DEF Findings
        <3>2. basis' = [basis EXCEPT ![c] = e]
            BY <2>1 DEF passed
        <3> QED BY <3>1, <3>2
    <2>6. pc[c] = "listed" /\ pc' = [pc EXCEPT ![c] = "collected"] /\ UNCHANGED seen
        BY <1>4 DEF Collect
    <2>7. TypeOK'
        BY <1>1, <2>5, <2>6 DEF TypeOK
    <2>8. ClientsSound'
        BY <1>1, <2>3, <2>4, <2>5, <2>6
        DEF TypeOK, ClientsSound, SeenSound, BasisSound, EvidenceSound,
            FinalSound, HasSeen, HasBasis
    <2> QED BY <1>1, <2>7, <2>8, LoopUntouched
<1>5. CASE Confirm(c)
    <2>1. basis[c] \in Findings
        BY <1>5 DEF Confirm, ClientsSound, BasisSound, HasBasis
    <2>2. basis' = basis
        BY <1>5, <2>1 DEF Confirm, TypeOK, Findings
    <2>3. pc[c] = "collected" /\ pc' = [pc EXCEPT ![c] = "gathered"] /\ UNCHANGED seen
        BY <1>5 DEF Confirm
    <2>4. TypeOK'
        BY <1>1, <2>2, <2>3 DEF TypeOK
    <2>5. ClientsSound'
        BY <1>1, <2>2, <2>3
        DEF TypeOK, ClientsSound, SeenSound, BasisSound, EvidenceSound,
            FinalSound, HasSeen, HasBasis
    <2> QED BY <1>1, <2>4, <2>5, LoopUntouched
<1>6. CASE GiveUp(c)
    <2>1. TypeOK'
        BY <1>1, <1>6 DEF GiveUp, Return, TypeOK
    <2>2. ClientsSound'
        BY <1>1, <1>6
        DEF GiveUp, Return, TypeOK, ClientsSound, SeenSound, BasisSound, EvidenceSound,
            FinalSound, HasSeen, HasBasis
    <2> QED BY <1>1, <2>1, <2>2, LoopUntouched
<1>7. CASE ReadChanges(c)
    <2>1. basis[c] \in Findings
        BY <1>7 DEF ReadChanges, ClientsSound, BasisSound, HasBasis
    <2>2. PICK e \in Findings : basis' = [basis EXCEPT ![c] = e]
        <3> DEFINE e == [basis[c] EXCEPT !.files = world.print]
        <3>1. e \in Findings
            BY <2>1 DEF TypeOK, Subjects, Findings
        <3>2. basis' = [basis EXCEPT ![c] = e]
            BY <1>7 DEF ReadChanges
        <3> QED BY <3>1, <3>2
    <2>3. pc[c] = "reading" /\ pc' = [pc EXCEPT ![c] = "listed"] /\ UNCHANGED seen
        BY <1>7 DEF ReadChanges
    <2>4. TypeOK'
        BY <1>1, <2>2, <2>3 DEF TypeOK
    <2>5. ClientsSound'
        BY <1>1, <2>2, <2>3
        DEF TypeOK, ClientsSound, SeenSound, BasisSound, EvidenceSound,
            FinalSound, HasSeen, HasBasis
    <2> QED BY <1>1, <2>4, <2>5, LoopUntouched
<1> QED BY <1>2, <1>3, <1>4, <1>5, <1>6, <1>7

-----------------------------------------------------------------------------
\* A call returns from a commit to an unfinished loop: the other clients lose
\* nothing, whether the contract was revised or not.
LEMMA ClientsReturn ==
    ASSUME IInv, TypeOK', NEW c \in Clients, Return(c),
           snapshot.status # "succeeded",
           contract' = contract \/ contract'.revision = contract.revision + 1
    PROVE  ClientsSound'
<1> USE DEF IInv, Return
<1>1. contract \in Contracts /\ contract' \in Contracts
    BY DEF TypeOK
<1>2. \A d \in Clients : pc[d] # "finalized"
    BY DEF ClientsSound, FinalSound
<1>3. SeenSound'
    BY <1>1 DEF TypeOK, Contracts, ClientsSound, SeenSound, HasSeen
<1>4. BasisSound'
    BY DEF TypeOK, ClientsSound, BasisSound, HasBasis
<1>5. EvidenceSound'
    BY DEF TypeOK, ClientsSound, EvidenceSound
<1>6. FinalSound'
    BY <1>2 DEF TypeOK, FinalSound
<1> QED BY <1>3, <1>4, <1>5, <1>6 DEF ClientsSound

\* No receipt was issued for a loop that has not succeeded.
LEMMA NoReceiptYet ==
    ASSUME IInv, snapshot.status # "succeeded"
    PROVE  receipts = {}
BY DEF IInv, LoopSound, ReceiptsAgree

LEMMA CheckpointStep ==
    ASSUME IInv, NEW c \in Clients, Checkpoint(c)
    PROVE  IInv'
<1> USE DEF IInv
<1>1. basis[c] \in Findings /\ snapshot.status = "active"
    BY DEF Checkpoint, ClientsSound, BasisSound, HasBasis
<1>2. PICK f \in Failures \union {None}, b \in BOOLEAN, l \in BOOLEAN :
        LET d == Decision(basis[c], f, b, l) IN
             /\ snapshot' = [status |-> StatusAfter(d),
                             decision |-> d,
                             iteration |-> snapshot.iteration + 1,
                             noProgress |-> Stagnation(basis[c]),
                             repeats |-> Repetition(f),
                             lastFailure |-> f,
                             current |-> basis[c].print,
                             history |-> LastOf(Append(snapshot.history, basis[c].print),
                                                HistoryKept),
                             satisfied |-> Satisfied(basis[c]),
                             approved |-> snapshot.approved,
                             events |-> snapshot.events + 1]
             /\ turns' = turns + (IF d = "continue" THEN 1 ELSE 0)
    BY DEF Checkpoint
<1> DEFINE d == Decision(basis[c], f, b, l)
<1>3. /\ d \in {"continue", "ready_to_finalize", "needs_approval", "policy_stop"}
      /\ StatusAfter(d) \in {"active", "needs_approval", "stopped"}
      /\ d = "continue" => ~Tripped(basis[c], f, l)
    BY <1>1, DecisionSound
<1>4. /\ Stagnation(basis[c]) \in Nat /\ Repetition(f) \in Nat
      /\ Satisfied(basis[c]) \in SUBSET (Checks \union AllKeys)
    BY <1>1, CountersType, SatisfiedType
<1>5. LastOf(Append(snapshot.history, basis[c].print), HistoryKept) \in Seq(Prints)
    <2>1. Append(snapshot.history, basis[c].print) \in Seq(Prints)
        BY <1>1 DEF TypeOK, Findings
    <2> QED BY <2>1, LastOfType, LimitsAssumption
<1>6. /\ UNCHANGED <<contract, world, receipts, consent>> /\ Return(c) /\ Room(1)
    BY DEF Checkpoint
<1> HIDE DEF d
<1>7. TypeOK'
    <2>1. snapshot.events + 1 \in 1..MaxEvents
        BY <1>6, LimitsAssumption DEF Room, TypeOK
    <2>2. turns' \in Nat /\ snapshot.iteration + 1 \in Nat
        BY <1>2 DEF TypeOK, d
    <2>3. /\ pc' \in [Clients -> {"idle", "looked", "reading", "listed", "collected", "gathered",
                                  "placed", "proposing", "finalized"}]
          /\ seen' \in [Clients -> Contracts \union {None}]
          /\ basis' \in [Clients -> Findings \union {None}]
        BY <1>6 DEF Return, TypeOK
    <2>4. basis[c].print \in Prints /\ snapshot.approved \in SUBSET AllKeys
        BY <1>1 DEF TypeOK, Findings
    <2> QED
        BY <1>2, <1>3, <1>4, <1>5, <1>6, <2>1, <2>2, <2>3, <2>4 DEF TypeOK, Terminal, d
<1>8. ClientsSound'
    BY <1>1, <1>6, <1>7, ClientsReturn
<1>9. LoopSound'
    <2>1. snapshot'.status # "succeeded" /\ snapshot'.events = snapshot.events + 1
        BY <1>2, <1>3 DEF d
    <2>2. SuccessIsEarned'
        BY <2>1 DEF SuccessIsEarned
    <2>3. ReceiptsAgree'
        BY <1>1, <1>6, NoReceiptYet DEF ReceiptsAgree
    <2>4. EveryLoopCanEnd'
        BY <1>6, <2>1, LimitsAssumption DEF EveryLoopCanEnd, Room, TypeOK
    <2>5. TurnsSound'
        <3>1. CASE d = "continue"
            <4>1. /\ snapshot.iteration + 1 < MaxIterations
                  /\ Stagnation(basis[c]) < MaxNoProgress
                  /\ Repetition(f) < MaxRepeatedFailure
                BY <1>3, <1>4, <3>1, LimitsAssumption DEF Tripped, TypeOK
            <4>2. turns' = turns + 1 /\ snapshot'.iteration = snapshot.iteration + 1
                  /\ snapshot'.noProgress = Stagnation(basis[c])
                  /\ snapshot'.repeats = Repetition(f)
                BY <1>2, <3>1 DEF d
            <4> QED
                BY <4>1, <4>2, LimitsAssumption
                DEF TypeOK, LoopSound, TurnsSound, UnattendedIsBounded
        <3>2. CASE d # "continue"
            <4>1. turns' = turns + 0 /\ snapshot'.iteration = snapshot.iteration + 1
                  /\ snapshot'.decision # "continue"
                BY <1>2, <3>2 DEF d
            <4> QED
                BY <4>1, LimitsAssumption
                DEF TypeOK, LoopSound, TurnsSound, UnattendedIsBounded
        <3> QED BY <3>1, <3>2
    <2>6. ApprovalsMatchTarget'
        <3>1. snapshot'.approved = snapshot.approved
            BY <1>2
        <3> QED BY <1>6, <3>1 DEF LoopSound, ApprovalsMatchTarget
    <2> QED BY <2>2, <2>3, <2>4, <2>5, <2>6 DEF LoopSound
<1> QED BY <1>7, <1>8, <1>9

LEMMA ReviseStep ==
    ASSUME IInv, NEW c \in Clients, Revise(c)
    PROVE  IInv'
<1> USE DEF IInv
<1>1. PICK terms \in Terms : \E granted \in SUBSET Keys[terms] :
          LET context == basis[c].context
              kept == IF Changed(terms, context) THEN {} ELSE snapshot.approved
              revised == [revision |-> contract.revision + 1, terms |-> terms,
                          context |-> context] IN
             /\ terms # contract.terms => AsRead(c)
             /\ contract' = revised
             /\ snapshot' = [snapshot EXCEPT
                                !.status = "active", !.decision = "continue",
                                !.noProgress = 0, !.repeats = 0, !.lastFailure = None,
                                !.current = basis[c].print,
                                !.history = <<basis[c].print>>,
                                !.satisfied = {},
                                !.approved = kept \union granted,
                                !.events = @ + 1]
             /\ consent' = [k \in AllKeys |->
                               IF k \notin granted THEN consent[k]
                               ELSE revised]
    BY DEF Revise
<1> DEFINE context == basis[c].context
           kept == IF Changed(terms, context) THEN {} ELSE snapshot.approved
           revised == [revision |-> contract.revision + 1, terms |-> terms,
                       context |-> context]
<1>2. PICK granted \in SUBSET Keys[terms] :
             /\ contract' = revised
             /\ snapshot' = [snapshot EXCEPT
                                !.status = "active", !.decision = "continue",
                                !.noProgress = 0, !.repeats = 0, !.lastFailure = None,
                                !.current = basis[c].print,
                                !.history = <<basis[c].print>>,
                                !.satisfied = {},
                                !.approved = kept \union granted,
                                !.events = @ + 1]
             /\ consent' = [k \in AllKeys |->
                               IF k \notin granted THEN consent[k]
                               ELSE revised]
    BY <1>1
<1>3. basis[c] \in Findings /\ seen[c] \in Contracts
    BY DEF Revise, ClientsSound, BasisSound, SeenSound, HasBasis, HasSeen
<1>4. /\ snapshot.status \notin Terminal /\ contract.revision < MaxRevisions
      /\ Room(1) /\ Return(c) /\ UNCHANGED <<world, receipts, turns>>
    BY DEF Revise, Revisable
<1>5. revised \in Contracts
    BY <1>3, <1>4, LimitsAssumption DEF TypeOK, Contracts, Findings
<1>6. granted \in SUBSET AllKeys /\ kept \in SUBSET AllKeys
    BY DEF AllKeys, TypeOK
<1>7. TypeOK'
    <2>1. snapshot.events + 1 \in 1..MaxEvents
        BY <1>4, LimitsAssumption DEF Room, TypeOK
    <2>2. basis[c].print \in Prints /\ <<basis[c].print>> \in Seq(Prints)
        BY <1>3 DEF Findings
    <2>3. snapshot' \in [status : {"active", "needs_approval"} \union Terminal,
                     decision : {"continue", "ready_to_finalize", "needs_approval",
                                 "policy_stop", "user_stop", "complete"},
                     iteration : Nat, noProgress : Nat, repeats : Nat,
                     lastFailure : Failures \union {None},
                     current : Prints, history : Seq(Prints),
                     satisfied : SUBSET (Checks \union AllKeys),
                     approved : SUBSET AllKeys, events : 1..MaxEvents]
        <3> HIDE DEF kept
        <3> QED BY <1>2, <1>6, <2>1, <2>2 DEF TypeOK
    <2>4. consent' \in [AllKeys -> Contracts]
        <3>1. seen[c].terms \in Terms
            BY <1>3 DEF Contracts
        <3> HIDE DEF revised
        <3> QED BY <1>2, <1>5, <3>1 DEF TypeOK
    <2>5. /\ pc' \in [Clients -> {"idle", "looked", "reading", "listed", "collected", "gathered",
                                  "placed", "proposing", "finalized"}]
          /\ seen' \in [Clients -> Contracts \union {None}]
          /\ basis' \in [Clients -> Findings \union {None}]
        BY <1>4 DEF Return, TypeOK
    <2> QED
        BY <1>2, <1>4, <1>5, <2>3, <2>4, <2>5 DEF TypeOK
<1>8. ClientsSound'
    BY <1>2, <1>4, <1>7, ClientsReturn DEF Terminal
<1>9. LoopSound'
    <2>1. /\ snapshot'.status = "active" /\ snapshot'.events = snapshot.events + 1
          /\ snapshot'.iteration = snapshot.iteration
          /\ snapshot'.noProgress = 0 /\ snapshot'.repeats = 0
          /\ snapshot'.approved = kept \union granted
        BY <1>2 DEF TypeOK
    <2>2. SuccessIsEarned'
        BY <2>1 DEF SuccessIsEarned
    <2>3. ReceiptsAgree'
        BY <1>4, NoReceiptYet DEF ReceiptsAgree, Terminal
    <2>4. EveryLoopCanEnd'
        BY <1>4, <2>1, LimitsAssumption DEF EveryLoopCanEnd, Room, TypeOK
    <2>5. TurnsSound'
        BY <1>4, <2>1, LimitsAssumption
        DEF TypeOK, LoopSound, TurnsSound, UnattendedIsBounded
    <2>6. ApprovalsMatchTarget'
        <3> SUFFICES ASSUME NEW k \in snapshot'.approved
                     PROVE  /\ k \in Keys[contract'.terms]
                            /\ consent'[k].terms = contract'.terms
                            /\ consent'[k].context = contract'.context
            BY DEF ApprovalsMatchTarget
        <3>1. k \in kept \/ k \in granted
            BY <2>1
        <3>2. k \in AllKeys
            BY <1>6, <3>1
        <3>3. CASE k \in granted
            BY <1>2, <3>2, <3>3
        <3>4. CASE k \in kept /\ k \notin granted
            <4>1. /\ terms = contract.terms /\ context = contract.context
                  /\ k \in snapshot.approved
                BY <3>4 DEF Changed
            <4>2. consent'[k] = consent[k]
                BY <1>2, <3>2, <3>4
            <4>3. contract'.terms = contract.terms /\ contract'.context = contract.context
                BY <1>2, <4>1
            <4> QED BY <4>1, <4>2, <4>3 DEF LoopSound, ApprovalsMatchTarget
        <3> QED BY <3>1, <3>3, <3>4
    <2> QED BY <2>2, <2>3, <2>4, <2>5, <2>6 DEF LoopSound
<1> QED BY <1>7, <1>8, <1>9

LEMMA StopStep ==
    ASSUME IInv, NEW c \in Clients, Stop(c)
    PROVE  IInv'
<1> USE DEF IInv
<1>1. /\ snapshot.status \notin Terminal /\ Room(0)
      /\ UNCHANGED <<contract, world, pc, seen, basis, receipts, turns, consent>>
    BY DEF Stop
<1>2. /\ snapshot'.status = "stopped" /\ snapshot'.decision = "user_stop"
      /\ snapshot'.iteration = snapshot.iteration
      /\ snapshot'.approved = snapshot.approved
    BY DEF Stop, TypeOK
<1>3. TypeOK'
    <2>1. snapshot.events + 1 \in 1..MaxEvents
        BY <1>1, LimitsAssumption DEF Room, TypeOK
    <2> QED BY <1>1, <2>1 DEF Stop, TypeOK, Terminal
<1>4. ClientsSound'
    BY <1>1 DEF Terminal, ClientsSound, SeenSound, BasisSound, EvidenceSound, FinalSound,
                HasSeen, HasBasis
<1>5. LoopSound'
    <2>1. ReceiptsAgree'
        BY <1>1, NoReceiptYet DEF ReceiptsAgree, Terminal
    <2> QED
        BY <1>1, <1>2, <2>1
        DEF LoopSound, SuccessIsEarned, EveryLoopCanEnd, TurnsSound,
            UnattendedIsBounded, ApprovalsMatchTarget, Terminal
<1> QED BY <1>3, <1>4, <1>5

\* Evidence that finalize accepts earns the success it records.
LEMMA CompleteIsEarned ==
    ASSUME IInv, NEW c \in Clients, pc[c] = "gathered", AsRead(c), Complete(basis[c]),
           UNCHANGED contract,
           snapshot'.approved = snapshot.approved,
           snapshot'.current = basis[c].print
    PROVE  SuccessIsEarned'
<1> USE DEF IInv
<1>1. /\ basis[c] \in Findings
      /\ seen[c] = contract
      /\ basis[c].passed \ Live \subseteq Passing[basis[c].print]
      /\ Gates[contract.terms] \subseteq Passing[basis[c].print]
    BY DEF AsRead, ClientsSound, SeenSound, BasisSound, EvidenceSound, HasSeen, HasBasis
<1>2. Satisfied(basis[c]) = Required
    BY DEF Complete
\* No key is a check: a criterion has one verifier, a machine or a human.
<1>3. Criteria[contract.terms] \subseteq basis[c].passed
    BY <1>2, TermsAssumption, VerifierAssumption DEF Satisfied, Required, TypeOK, Contracts
<1>4. Keys[contract.terms] \subseteq snapshot.approved
    BY <1>1, <1>2, VerifierAssumption DEF Satisfied, Required, TypeOK, Contracts, Findings
<1> QED BY <1>1, <1>2, <1>3, <1>4 DEF SuccessIsEarned

LEMMA ConcludeStep ==
    ASSUME IInv, NEW c \in Clients, Succeed(c) \/ Revalidate(c)
    PROVE  IInv'
<1> USE DEF IInv
<1>1. /\ pc[c] = "gathered" /\ AsRead(c) /\ Complete(basis[c]) /\ Room(0)
      /\ snapshot.status \in {"active", "succeeded"}
      /\ pc' = [pc EXCEPT ![c] = "finalized"]
      /\ UNCHANGED <<contract, world, seen, basis, receipts, turns, consent>>
    BY DEF Succeed, Revalidate, Conclude
<1>2. basis[c] \in Findings /\ seen[c] = contract
    BY <1>1 DEF AsRead, ClientsSound, SeenSound, BasisSound, HasSeen, HasBasis
<1>3. /\ snapshot'.status = "succeeded"
      /\ snapshot'.current = basis[c].print
      /\ snapshot'.events = snapshot.events + 1
      /\ snapshot'.iteration = snapshot.iteration
      /\ snapshot'.noProgress = snapshot.noProgress
      /\ snapshot'.repeats = snapshot.repeats
      /\ snapshot'.approved = snapshot.approved
      /\ snapshot'.decision \in {snapshot.decision, "complete"}
      /\ snapshot.status = "succeeded" => snapshot.current = basis[c].print
    BY DEF Succeed, Revalidate, Conclude, TypeOK
<1>4. TypeOK'
    <2>1. snapshot.events + 1 \in 1..MaxEvents
        BY <1>1, LimitsAssumption DEF Room, TypeOK
    <2>2. Satisfied(basis[c]) \in SUBSET (Checks \union AllKeys) /\ basis[c].print \in Prints
        BY <1>2, SatisfiedType DEF Findings
    <2>3. \/ snapshot' = [snapshot EXCEPT !.status = "succeeded", !.decision = "complete",
                             !.satisfied = Satisfied(basis[c]),
                             !.current = basis[c].print, !.events = @ + 1]
          \/ snapshot' = [snapshot EXCEPT !.satisfied = Satisfied(basis[c]),
                             !.current = basis[c].print, !.events = @ + 1]
        BY DEF Succeed, Revalidate, Conclude, TypeOK
    <2>4. pc' \in [Clients -> {"idle", "looked", "reading", "listed", "collected", "gathered",
                               "placed", "proposing", "finalized"}]
        BY <1>1 DEF TypeOK
    <2> QED BY <1>1, <2>1, <2>2, <2>3, <2>4 DEF TypeOK, Terminal
<1>5. ClientsSound'
    <2>1. SeenSound' /\ BasisSound' /\ EvidenceSound'
        BY <1>1 DEF TypeOK, ClientsSound, SeenSound, BasisSound, EvidenceSound, HasSeen, HasBasis
    <2>2. basis[c].context = contract.context
        BY <1>1 DEF Complete, Drifted
    <2>3. FinalSound'
        BY <1>1, <1>2, <1>3, <2>2 DEF TypeOK, ClientsSound, FinalSound
    <2> QED BY <2>1, <2>3 DEF ClientsSound
<1>6. LoopSound'
    <2>1. SuccessIsEarned'
        BY <1>1, <1>3, CompleteIsEarned
    <2>2. ReceiptsAgree'
        <3>1. CASE snapshot.status = "succeeded"
            BY <1>1, <1>3, <3>1 DEF LoopSound, ReceiptsAgree
        <3>2. CASE snapshot.status # "succeeded"
            BY <1>1, <3>2, NoReceiptYet DEF ReceiptsAgree
        <3> QED BY <3>1, <3>2
    <2>3. EveryLoopCanEnd'
        BY <1>3 DEF EveryLoopCanEnd, Terminal
    <2>4. TurnsSound'
        BY <1>1, <1>3 DEF LoopSound, TurnsSound, UnattendedIsBounded
    <2>5. ApprovalsMatchTarget'
        BY <1>1, <1>3 DEF LoopSound, ApprovalsMatchTarget
    <2> QED BY <2>1, <2>2, <2>3, <2>4, <2>5 DEF LoopSound
<1> QED BY <1>4, <1>5, <1>6

LEMMA IssueStep ==
    ASSUME IInv, NEW c \in Clients, Issue(c)
    PROVE  IInv'
<1> USE DEF IInv
<1>1. /\ pc[c] = "finalized"
      /\ world.print = basis[c].print /\ world.context = basis[c].context
      /\ receipts' = receipts \union
            {[revision |-> seen[c].revision, print |-> world.print, context |-> world.context]}
      /\ Return(c) /\ UNCHANGED <<contract, snapshot, world, turns, consent>>
    BY DEF Issue
<1> DEFINE receipt == [revision |-> seen[c].revision, print |-> world.print,
                       context |-> world.context]
<1>2. /\ snapshot.status = "succeeded"
      /\ receipt = [revision |-> contract.revision, print |-> snapshot.current,
                    context |-> contract.context]
    BY <1>1 DEF ClientsSound, FinalSound
<1>3. TypeOK'
    <2>1. receipt \in [revision : 1..MaxRevisions, print : Prints, context : Contexts]
        BY <1>2 DEF TypeOK, Contracts
    <2> QED BY <1>1, <2>1 DEF Return, TypeOK
<1>4. ClientsSound'
    BY <1>1 DEF Return, TypeOK, ClientsSound, SeenSound, BasisSound, EvidenceSound,
                FinalSound, HasSeen, HasBasis
<1>5. LoopSound'
    <2>1. ReceiptsAgree'
        BY <1>1, <1>2 DEF LoopSound, ReceiptsAgree
    <2> QED
        BY <1>1, <2>1
        DEF LoopSound, SuccessIsEarned, EveryLoopCanEnd, Room, TurnsSound,
            UnattendedIsBounded, ApprovalsMatchTarget
<1> QED BY <1>3, <1>4, <1>5

LEMMA NextIInv == IInv /\ [Next]_vars => IInv'
<1> SUFFICES ASSUME IInv, [Next]_vars PROVE IInv'
    OBVIOUS
<1>1. CASE Edit \/ ChangeContext
    BY <1>1, WorldStep
<1>2. ASSUME NEW c \in Clients,
             \/ Look(c) \/ ReadSubject(c) \/ ReadChanges(c) \/ Collect(c) \/ Confirm(c)
             \/ ReadContext(c) \/ LookBack(c) \/ GiveUp(c)
      PROVE  IInv'
    BY <1>2, ReadingStep
<1>3. ASSUME NEW c \in Clients, Checkpoint(c) PROVE IInv'
    BY <1>3, CheckpointStep
<1>4. ASSUME NEW c \in Clients, Revise(c) PROVE IInv'
    BY <1>4, ReviseStep
<1>5. ASSUME NEW c \in Clients, Stop(c) PROVE IInv'
    BY <1>5, StopStep
<1>6. ASSUME NEW c \in Clients, Succeed(c) \/ Revalidate(c) PROVE IInv'
    BY <1>6, ConcludeStep
<1>7. ASSUME NEW c \in Clients, Issue(c) PROVE IInv'
    BY <1>7, IssueStep
<1>8. CASE UNCHANGED vars
    <2>1. TypeOK'
        BY <1>8 DEF vars, IInv, TypeOK
    <2>2. ClientsSound'
        BY <1>8 DEF vars, IInv, ClientsSound, SeenSound, BasisSound, EvidenceSound,
                    FinalSound, HasSeen, HasBasis
    <2>3. LoopSound'
        BY <1>8, LoopUntouched DEF vars, IInv
    <2> QED BY <2>1, <2>2, <2>3 DEF IInv
<1> QED
    BY <1>1, <1>2, <1>3, <1>4, <1>5, <1>6, <1>7, <1>8 DEF Next

-----------------------------------------------------------------------------
(* The theorems.                                                           *)

\* The strengthened invariant holds of every behaviour.
THEOREM Invariance == Spec => []IInv
BY InitIInv, NextIInv, PTL DEF Spec

\* Every field keeps its type: in particular the log never passes its capacity
\* nor the contract its last revision.
THEOREM LifecycleTypeCorrect == Spec => []TypeOK
<1>1. IInv => TypeOK
    BY DEF IInv
<1> QED BY <1>1, Invariance, PTL

\* A loop that succeeded met every receipted criterion and every gate of its
\* contract in the state it recorded, whatever clients, editors and
\* administrators did while evidence was collected.  (Its scope is judged by
\* a list of changed files read separately: SuccessIsInScope does not hold.)
THEOREM SuccessEarned == Spec => []SuccessIsEarned
<1>1. IInv => SuccessIsEarned
    BY DEF IInv, LoopSound
<1> QED BY <1>1, Invariance, PTL

\* No two completion receipts of a loop ever disagree.
THEOREM ReceiptsNeverDisagree == Spec => []ReceiptsAgree
<1>1. IInv => ReceiptsAgree
    BY DEF IInv, LoopSound
<1> QED BY <1>1, Invariance, PTL

\* An unfinished loop always has room for the event that ends it.
THEOREM LoopCanAlwaysEnd == Spec => []EveryLoopCanEnd
<1>1. IInv => EveryLoopCanEnd
    BY DEF IInv, LoopSound
<1> QED BY <1>1, Invariance, PTL

\* Unattended work is bounded by the contract's limits over the loop's life.
THEOREM UnattendedWorkBounded == Spec => []UnattendedIsBounded
<1>1. IInv => UnattendedIsBounded
    BY DEF IInv, LoopSound, TurnsSound
<1> QED BY <1>1, Invariance, PTL

\* Human approvals are those recorded for the present terms and context.
THEOREM ApprovalsStayWithTarget == Spec => []ApprovalsMatchTarget
<1>1. IInv => ApprovalsMatchTarget
    BY DEF IInv, LoopSound
<1> QED BY <1>1, Invariance, PTL

\* A paused loop stays paused until it is revised or stopped, whatever
\* evidence was in flight when it was paused.
THEOREM PauseIsKept == Spec => PauseHolds
<1> DEFINE A == snapshot.status = "needs_approval" /\ snapshot'.status # "needs_approval" =>
          \/ snapshot'.status = "stopped" /\ contract' = contract
          \/ /\ snapshot'.status = "active"
             /\ contract'.revision = contract.revision + 1
             /\ snapshot'.satisfied = {}
<1>1. ASSUME TypeOK, Next, snapshot.status = "needs_approval",
             snapshot'.status # "needs_approval"
      PROVE  A
    <2>1. PICK c \in Clients : Revise(c) \/ Stop(c)
        BY <1>1
        DEF Next, Edit, ChangeContext, Look, ReadSubject, ReadChanges, Collect, Confirm, ReadContext,
            LookBack, GiveUp, Checkpoint, Succeed, Revalidate, Issue
    <2>2. CASE Revise(c)
        BY <1>1, <2>2 DEF Revise, Revisable, TypeOK
    <2>3. CASE Stop(c)
        BY <1>1, <2>3 DEF Stop, TypeOK
    <2> QED BY <2>1, <2>2, <2>3
<1>2. TypeOK /\ [Next]_vars => [A]_vars
    BY <1>1
<1> QED BY <1>2, LifecycleTypeCorrect, PTL DEF Spec, PauseHolds

\* What a loop ended with is not changed by any call that was in flight when
\* it ended: a revalidation may confirm a success, in the very project state
\* and under the very contract it was reached in, and that is all.
EndIsFinal ==
    [][snapshot.status \in Terminal =>
          /\ snapshot'.status = snapshot.status
          /\ snapshot'.current = snapshot.current
          /\ snapshot'.approved = snapshot.approved
          /\ contract' = contract
          /\ snapshot.status = "stopped" => snapshot' = snapshot]_vars

\* A loop that has succeeded or was stopped stays as it is.
THEOREM EndIsKept == Spec => EndIsFinal
<1> DEFINE A == snapshot.status \in Terminal =>
          /\ snapshot'.status = snapshot.status
          /\ snapshot'.current = snapshot.current
          /\ snapshot'.approved = snapshot.approved
          /\ contract' = contract
          /\ snapshot.status = "stopped" => snapshot' = snapshot
<1>1. ASSUME TypeOK, Next, snapshot.status \in Terminal PROVE A
    <2>1. CASE UNCHANGED <<contract, snapshot>>
        BY <2>1
    <2>2. ASSUME NEW c \in Clients, Revalidate(c) PROVE A
        BY <1>1, <2>2 DEF Revalidate, Conclude, TypeOK
    <2>3. ASSUME NEW c \in Clients, Checkpoint(c) \/ Revise(c) \/ Stop(c) \/ Succeed(c)
          PROVE  FALSE
        BY <1>1, <2>3 DEF Checkpoint, Revise, Revisable, Stop, Succeed, Terminal
    <2> QED
        BY <1>1, <2>1, <2>2, <2>3
        DEF Next, Edit, ChangeContext, Look, ReadSubject, ReadChanges, Collect, Confirm, ReadContext,
            LookBack, GiveUp, Issue
<1>2. TypeOK /\ [Next]_vars => [A]_vars
    BY <1>1
<1> QED BY <1>2, LifecycleTypeCorrect, PTL DEF Spec, EndIsFinal

-----------------------------------------------------------------------------
(* The refinement of AttestedLoop.                                         *)

\* What does not touch the contract, the status or the log is not seen.
LEMMA AttestedStutters ==
    ASSUME contract' = contract, snapshot' = snapshot
    PROVE  UNCHANGED Attested!vars
BY DEF Attested!vars, Standing, AttestedAt

\* A checkpoint leaves the loop active, or makes it wait.
LEMMA CheckpointAttested ==
    ASSUME IInv, NEW c \in Clients, Checkpoint(c)
    PROVE  Attested!Wait \/ UNCHANGED Attested!vars
<1>0. TypeOK /\ basis[c] \in Findings
    BY DEF Checkpoint, IInv, ClientsSound, BasisSound, HasBasis
<1>1. PICK failure \in Failures \union {None}, blocker \in BOOLEAN, late \in BOOLEAN :
        snapshot'.status = StatusAfter(Decision(basis[c], failure, blocker, late))
    BY DEF Checkpoint
<1>2. snapshot'.status \in {"active", "needs_approval", "stopped"}
    BY <1>0, <1>1, DecisionSound
<1>3. contract' = contract /\ snapshot.status = "active"
    BY DEF Checkpoint
<1>4. Standing = "active" /\ AttestedAt = 0 /\ AttestedAt' = 0
    BY <1>2, <1>3 DEF Standing, AttestedAt
<1>5. Standing' \in {"active", "waiting"}
    BY <1>2 DEF Standing
<1> QED BY <1>3, <1>4, <1>5 DEF Attested!Wait, Attested!vars

\* A revision begins a new edition.
LEMMA ReviseAttested ==
    ASSUME TypeOK, NEW c \in Clients, Revise(c)
    PROVE  Attested!Revise
<1>1. snapshot.status \notin Terminal /\ snapshot'.status = "active"
    BY DEF Revise, Revisable, TypeOK
<1>2. contract'.revision = contract.revision + 1
    BY DEF Revise
<1>3. Standing # "completed" /\ Standing' = "active" /\ AttestedAt = 0 /\ AttestedAt' = 0
    BY <1>1 DEF Standing, AttestedAt, Terminal, TypeOK
<1> QED BY <1>2, <1>3 DEF Attested!Revise

\* A user's stop makes it wait, if it did not.
LEMMA StopAttested ==
    ASSUME TypeOK, NEW c \in Clients, Stop(c)
    PROVE  Attested!Wait \/ UNCHANGED Attested!vars
<1>1. /\ snapshot.status \in {"active", "needs_approval"} /\ snapshot'.status = "stopped"
      /\ contract' = contract
    BY DEF Stop, Terminal, TypeOK
<1>2. Standing \in {"active", "waiting"} /\ Standing' = "waiting"
    BY <1>1 DEF Standing
<1>3. AttestedAt = 0 /\ AttestedAt' = 0
    BY <1>1 DEF AttestedAt
<1> QED BY <1>1, <1>2, <1>3 DEF Attested!Wait, Attested!vars

\* Finalization, the first or a later one, attests it at the event it appends.
LEMMA ConcludeAttested ==
    ASSUME TypeOK, NEW c \in Clients, Succeed(c) \/ Revalidate(c)
    PROVE  Attested!Attest
<1>1. /\ snapshot.status \in {"active", "succeeded"} /\ snapshot'.status = "succeeded"
      /\ snapshot'.events = snapshot.events + 1 /\ contract' = contract
    BY DEF Succeed, Revalidate, Conclude, TypeOK
<1>2. snapshot.events \in Nat /\ snapshot.events >= 1
    BY LimitsAssumption DEF TypeOK
<1>3. Standing \in {"active", "completed"} /\ Standing' = "completed"
    BY <1>1 DEF Standing
<1>4. AttestedAt' = snapshot.events + 1 /\ AttestedAt \in {0, snapshot.events}
    BY <1>1 DEF AttestedAt
<1> QED BY <1>1, <1>2, <1>3, <1>4 DEF Attested!Attest

\* Whatever its clients do, a loop keeps what a program relies on.
THEOREM LoopIsAttested == Spec => ImplementsAttestedLoop
<1>1. Init => Attested!Init
    BY DEF Init, Attested!Init, Standing, AttestedAt
<1>2. IInv /\ [Next]_vars => [Attested!Next]_Attested!vars
    <2> SUFFICES ASSUME IInv, [Next]_vars
                 PROVE  Attested!Next \/ UNCHANGED Attested!vars
        OBVIOUS
    <2>0. TypeOK
        BY DEF IInv
    <2>1. CASE Edit \/ ChangeContext \/ UNCHANGED vars
        BY <2>1, AttestedStutters DEF Edit, ChangeContext, vars
    <2>2. ASSUME NEW c \in Clients,
                 \/ Look(c) \/ ReadSubject(c) \/ ReadChanges(c) \/ Collect(c) \/ Confirm(c)
                 \/ ReadContext(c) \/ LookBack(c) \/ GiveUp(c) \/ Issue(c)
          PROVE  UNCHANGED Attested!vars
        BY <2>2, AttestedStutters
        DEF Look, ReadSubject, ReadChanges, Collect, Confirm, ReadContext, LookBack, GiveUp, Issue
    <2>3. ASSUME NEW c \in Clients, Checkpoint(c)
          PROVE  Attested!Next \/ UNCHANGED Attested!vars
        BY <2>3, CheckpointAttested DEF Attested!Next
    <2>4. ASSUME NEW c \in Clients, Revise(c)
          PROVE  Attested!Next
        BY <2>0, <2>4, ReviseAttested DEF Attested!Next
    <2>5. ASSUME NEW c \in Clients, Stop(c)
          PROVE  Attested!Next \/ UNCHANGED Attested!vars
        BY <2>0, <2>5, StopAttested DEF Attested!Next
    <2>6. ASSUME NEW c \in Clients, Succeed(c) \/ Revalidate(c)
          PROVE  Attested!Next
        BY <2>0, <2>6, ConcludeAttested DEF Attested!Next
    <2> QED BY <2>1, <2>2, <2>3, <2>4, <2>5, <2>6 DEF Next
<1> QED
    BY <1>1, <1>2, Invariance, PTL DEF Spec, ImplementsAttestedLoop, Attested!Spec
=============================================================================
