---------------------------- MODULE AttestedLoop ----------------------------
(***************************************************************************)
(* What a loop promises to the program that bound it to a phase.  It works *)
(* on one edition of its contract at a time and may be made to wait; a     *)
(* revision is a new edition; completion is attested for the edition it    *)
(* was reached under, at an event of the loop's log, and from then on only *)
(* attested anew, at a later event.                                        *)
(***************************************************************************)
EXTENDS Naturals

VARIABLES
    status,   \* "active", "waiting" or "completed"
    edition,  \* the revision of the contract in force
    head      \* the event that attests completion; 0 for none

vars == <<status, edition, head>>

Init == status = "active" /\ edition = 1 /\ head = 0

\* It is paused or stopped.
Wait ==
    /\ status = "active"
    /\ status' = "waiting"
    /\ UNCHANGED <<edition, head>>

\* What was read of an earlier edition is stale from here on.
Revise ==
    /\ status # "completed"
    /\ status' = "active"
    /\ edition' = edition + 1
    /\ UNCHANGED head

Attest ==
    /\ status \in {"active", "completed"}
    /\ status' = "completed"
    /\ head' \in Nat /\ head' > head
    /\ UNCHANGED edition

Next == Wait \/ Revise \/ Attest

Spec == Init /\ [][Next]_vars
=============================================================================
