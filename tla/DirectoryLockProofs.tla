------------------------ MODULE DirectoryLockProofs ------------------------
(***************************************************************************)
(* The directory lock excludes, for any number of processes, as long as no *)
(* process has died or dawdles inside it.  (After a death it may not: two  *)
(* waiters can reclaim it in turn, see Known limits in the README.)        *)
(***************************************************************************)
EXTENDS DirectoryLock, TLAPS

\* The directory is there exactly while one process is at work on it; that
\* process has not died, so the directory never becomes stale.
Sound ==
    /\ dir = None => \A p \in Procs : ~Holds(p)
    /\ dir # None => /\ ~dir.old
                     /\ \E p \in Procs : Holds(p)
    /\ \A p, q \in Procs : Holds(p) /\ Holds(q) => p = q
    /\ \A p \in Procs : /\ pc[p] = "in" => dir.owner = p
                        /\ pc[p] \in {"own", "drop"} => dir.owner = None
                        /\ pc[p] \notin {"break", "dead"}
                        /\ ~aged[p]

IInv ==
    /\ TypeOK
    /\ NobodyDied => Sound

LEMMA InitIInv == Init => IInv
  BY DEF Init, IInv, Sound, TypeOK, Holds

\* None is no directory.
LEMMA FreshDirectory ==
    ASSUME NEW o \in Procs \cup {None}
    PROVE  Fresh(o) \in Directory /\ Fresh(o) # None /\ ~Fresh(o).old /\ Fresh(o).owner = o
<1>1. Fresh(o) \in Directory
  BY DEF Fresh, Directory
<1>2. Fresh(o) # None
  BY <1>1, NoneAssumption
<1> QED
  BY <1>1, <1>2 DEF Fresh

\* The types hold whatever happens.
LEMMA NextTypeOK ==
    ASSUME TypeOK, [Next]_vars
    PROVE  TypeOK'
<1> USE DEF TypeOK
<1>1. ASSUME NEW p \in Procs, Call(p) PROVE TypeOK'
  BY <1>1 DEF Call
<1>2. ASSUME NEW p \in Procs, Mkdir(p) PROVE TypeOK'
  BY <1>2, FreshDirectory DEF Mkdir
<1>3. ASSUME NEW p \in Procs, WriteOwner(p) PROVE TypeOK'
  BY <1>3, FreshDirectory DEF WriteOwner
<1>4. ASSUME NEW p \in Procs, Stat(p) PROVE TypeOK'
  <2>1. (dir # None /\ dir.old) \in BOOLEAN
    BY DEF Directory
  <2> QED
    BY <1>4, <2>1 DEF Stat
<1>5. ASSUME NEW p \in Procs, ReadOwner(p) PROVE TypeOK'
  BY <1>5 DEF ReadOwner
<1>6. ASSUME NEW p \in Procs, Break(p) PROVE TypeOK'
  BY <1>6 DEF Break
<1>7. ASSUME NEW p \in Procs, DropOwner(p) PROVE TypeOK'
  BY <1>7, FreshDirectory DEF DropOwner
<1>8. ASSUME NEW p \in Procs, DropDirectory(p) PROVE TypeOK'
  BY <1>8 DEF DropDirectory
<1>9. ASSUME NEW p \in Procs, Crash(p) PROVE TypeOK'
  BY <1>9 DEF Crash
<1>10. CASE Age
  <2>1. [dir EXCEPT !.old = TRUE] \in Directory
    BY <1>10 DEF Age, Directory
  <2> QED
    BY <1>10, <2>1 DEF Age
<1>11. ASSUME NEW p \in Procs, WriteOwnerRaises(p) PROVE TypeOK'
  BY <1>11, FreshDirectory DEF WriteOwnerRaises
<1>12. CASE UNCHANGED vars
  BY <1>12 DEF vars
<1> QED
  BY <1>1, <1>2, <1>3, <1>4, <1>5, <1>6, <1>7, <1>8, <1>9, <1>10, <1>11, <1>12 DEF Next, Step

\* A process that died stays dead.
LEMMA DeathIsFinal ==
    ASSUME TypeOK, [Next]_vars, NobodyDied'
    PROVE  NobodyDied
<1> USE DEF TypeOK, NobodyDied, Live
<1>1. ASSUME NEW p \in Procs, Call(p) \/ Step(p) \/ WriteOwnerRaises(p) \/ Crash(p)
      PROVE  NobodyDied
  BY <1>1 DEF Call, Step, Mkdir, WriteOwner, WriteOwnerRaises, Stat, ReadOwner, Break, DropOwner,
              DropDirectory, Crash, Calling
<1>2. CASE Age \/ UNCHANGED vars
  BY <1>2 DEF Age, vars
<1> QED
  BY <1>1, <1>2 DEF Next

LEMMA NextSound ==
    ASSUME "slow" \notin Faults, TypeOK, Sound, [Next]_vars, NobodyDied'
    PROVE  Sound'
<1> USE DEF Sound
<1>1. ASSUME NEW p \in Procs, Call(p) PROVE Sound'
  BY <1>1 DEF Call, TypeOK, Holds
<1>2. ASSUME NEW p \in Procs, Mkdir(p) PROVE Sound'
  <2>1. CASE dir = None
    <3>1. dir' = Fresh(None) /\ pc' = [pc EXCEPT ![p] = "own"] /\ aged' = aged
      BY <1>2, <2>1 DEF Mkdir
    <3>2. TypeOK'
      BY <3>1, FreshDirectory DEF TypeOK
    <3> QED
      BY <2>1, <3>1, <3>2, FreshDirectory DEF TypeOK, Holds
  <2>2. CASE dir # None
    BY <1>2, <2>2 DEF Mkdir, TypeOK, Holds
  <2> QED
    BY <2>1, <2>2
<1>3. ASSUME NEW p \in Procs, WriteOwner(p) PROVE Sound'
  <2>1. TypeOK'
    BY <1>3, FreshDirectory DEF WriteOwner, TypeOK
  <2>2. Holds(p)
    BY <1>3 DEF WriteOwner, Holds
  <2> QED
    BY <1>3, <2>1, <2>2, FreshDirectory DEF WriteOwner, TypeOK, Holds
<1>4. ASSUME NEW p \in Procs, Stat(p) PROVE Sound'
  BY <1>4 DEF Stat, TypeOK, Holds
<1>5. ASSUME NEW p \in Procs, ReadOwner(p) PROVE Sound'
  BY <1>5 DEF ReadOwner, TypeOK, Holds
<1>6. ASSUME NEW p \in Procs, Break(p) PROVE Sound'
  BY <1>6 DEF Break
<1>7. ASSUME NEW p \in Procs, DropOwner(p) PROVE Sound'
  <2>1. Holds(p) /\ dir # None
    BY <1>7 DEF DropOwner, Holds
  <2>2. dir' = Fresh(None) /\ pc' = [pc EXCEPT ![p] = "drop"] /\ aged' = aged
    BY <1>7, <2>1 DEF DropOwner
  <2>3. TypeOK'
    BY <2>2, FreshDirectory DEF TypeOK
  <2> QED
    BY <2>1, <2>2, <2>3, FreshDirectory DEF TypeOK, Holds
<1>8. ASSUME NEW p \in Procs, DropDirectory(p) PROVE Sound'
  <2>1. Holds(p) /\ dir # None /\ dir.owner = None
    BY <1>8 DEF DropDirectory, Holds
  <2>2. dir' = None /\ pc' = [pc EXCEPT ![p] = "out"] /\ aged' = aged
    BY <1>8, <2>1 DEF DropDirectory
  <2> QED
    BY <2>1, <2>2 DEF TypeOK, Holds
<1>9. ASSUME NEW p \in Procs, Crash(p) PROVE Sound'
  BY <1>9 DEF Crash, NobodyDied, Live, TypeOK
<1>10. CASE Age
  BY <1>10 DEF Age
<1>11. ASSUME NEW p \in Procs, WriteOwnerRaises(p) PROVE Sound'
  <2>1. Holds(p) /\ dir # None
    BY <1>11 DEF WriteOwnerRaises, Holds
  <2>2. dir' = Fresh(None) /\ pc' = [pc EXCEPT ![p] = "drop"] /\ aged' = aged
    BY <1>11, <2>1 DEF WriteOwnerRaises
  <2>3. TypeOK'
    BY <2>2, FreshDirectory DEF TypeOK
  <2> QED
    BY <2>1, <2>2, <2>3, FreshDirectory DEF TypeOK, Holds
<1>12. CASE UNCHANGED vars
  BY <1>12 DEF vars, TypeOK, Holds
<1> QED
  BY <1>1, <1>2, <1>3, <1>4, <1>5, <1>6, <1>7, <1>8, <1>9, <1>10, <1>11, <1>12 DEF Next, Step

LEMMA Invariance ==
    ASSUME "slow" \notin Faults
    PROVE  Spec => []IInv
<1>1. IInv /\ [Next]_vars => IInv'
  BY NextTypeOK, DeathIsFinal, NextSound DEF IInv
<1> QED
  BY <1>1, InitIInv, PTL DEF Spec

\* Two processes never work on the loop state together.
THEOREM LockExcludes ==
    ASSUME "slow" \notin Faults
    PROVE  Spec => []MutualExclusion
<1>1. IInv => MutualExclusion
  BY DEF IInv, Sound, Holds, MutualExclusion
<1> QED
  BY <1>1, Invariance, PTL

\* While a process works inside the lock its pid stands in owner.json, so a
\* waiter that looks there finds a live owner.
THEOREM LockNamesOwner ==
    ASSUME "slow" \notin Faults
    PROVE  Spec => []OwnerNamed
<1>1. IInv => OwnerNamed
  BY DEF IInv, Sound, Holds, OwnerNamed
<1> QED
  BY <1>1, Invariance, PTL
=============================================================================
