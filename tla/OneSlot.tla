------------------------------ MODULE OneSlot ------------------------------
(***************************************************************************)
(* What a repository promises about its programs: one program at a time    *)
(* holds the orchestration slot, and the operation id that started it      *)
(* starts nothing else, however often its caller retries.                  *)
(***************************************************************************)
CONSTANTS
    Programs, \* the programs that can be started
    OpIds,    \* operation ids callers start them with
    None      \* nobody

VARIABLES
    holder,   \* the program in the slot
    begun     \* the program each operation id has started

Init ==
    /\ holder = None
    /\ begun = [o \in OpIds |-> None]

\* Operation o starts program p in the empty slot.
Begin(o, p) ==
    /\ holder = None
    /\ begun[o] = None
    /\ \A other \in OpIds : begun[other] # p
    /\ holder' = p
    /\ begun' = [begun EXCEPT ![o] = p]

\* The program is completed or cancelled.
End ==
    /\ holder # None
    /\ holder' = None
    /\ UNCHANGED begun

Next == End \/ \E o \in OpIds, p \in Programs : Begin(o, p)

Spec == Init /\ [][Next]_<<holder, begun>>
=============================================================================
