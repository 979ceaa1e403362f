------------------------------ MODULE Exchange ------------------------------
(***************************************************************************)
(* What Contact and ContactRaw promise to their caller, without protocols, *)
(* retries, errors and the text that is received.                          *)
(*                                                                         *)
(* A call makes a bounded number of requests; for each of them the server  *)
(* may issue an AC, whether or not the caller ever sees it.  A call that   *)
(* enters what it gets in the caller's list returns true if and only if it *)
(* has entered one AC, one that was issued during this call; a call that   *)
(* does not, and a call that returns false, leave the list alone.          *)
(***************************************************************************)
EXTENDS Integers, Sequences

CONSTANT Limit   \* requests that one call may make

VARIABLES
    phase,    \* "idle" or "busy"
    enters,   \* this call enters its AC in the list
    issued,   \* how many ACs the server has issued; the last one's number
    before,   \* issued, when this call began
    asks,     \* requests made in this call
    result,   \* what the last call returned: "none", "true" or "false"
    entered   \* the list: the numbers of the ACs entered

vars == <<phase, enters, issued, before, asks, result, entered>>

Init ==
    /\ phase = "idle"
    /\ enters = FALSE
    /\ issued = 0
    /\ before = 0
    /\ asks = 0
    /\ result = "none"
    /\ entered = <<>>

Begin ==
    /\ phase = "idle"
    /\ phase' = "busy"
    /\ enters' \in BOOLEAN
    /\ before' = issued
    /\ asks' = 0
    /\ result' = "none"
    /\ UNCHANGED <<issued, entered>>

\* The caller asks the object for something else.
Forget ==
    /\ phase = "idle"
    /\ result' = "none"
    /\ UNCHANGED <<phase, enters, issued, before, asks, entered>>

Request ==
    /\ phase = "busy"
    /\ asks < Limit
    /\ asks' = asks + 1
    /\ issued' \in {issued, issued + 1}

Ask ==
    /\ Request
    /\ UNCHANGED <<phase, enters, before, result, entered>>

\* A call returns on the answer to a request or after a last look at it.
LastStep == Request \/ (phase = "busy" /\ UNCHANGED <<asks, issued>>)

ReturnFalse ==
    /\ LastStep
    /\ phase' = "idle"
    /\ result' = "false"
    /\ UNCHANGED <<enters, before, entered>>

ReturnTrue ==
    /\ LastStep
    /\ phase' = "idle"
    /\ result' = "true"
    /\ IF enters
       THEN \E n \in before + 1 .. issued' : entered' = Append(entered, n)
       ELSE UNCHANGED entered
    /\ UNCHANGED <<enters, before>>

Next == Begin \/ Forget \/ Ask \/ ReturnFalse \/ ReturnTrue

Spec == Init /\ [][Next]_vars

=============================================================================
