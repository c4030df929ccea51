------------------------------ MODULE NinaRpc ------------------------------
(***************************************************************************)
(* What an exchange with the chip promises its caller, without the wire: a *)
(* remote procedure call that is carried out at most once.  Requests are   *)
(* numbered.  An error tells nothing about the request: it may have been   *)
(* carried out, be lost, or still be carried out later.                    *)
(***************************************************************************)
EXTENDS Naturals

CONSTANT Errors    \* the outcomes other than Ok

VARIABLES
    calls,      \* number of requests made
    executed,   \* the last request carried out
    status,     \* "idle", or "pending": the caller waits for request calls
    outcome     \* how the last request ended, "none" while it is pending

rpcVars == <<calls, executed, status, outcome>>

Init ==
    /\ calls = 0
    /\ executed = 0
    /\ status = "idle"
    /\ outcome = "none"

Request ==
    /\ status = "idle"
    /\ status' = "pending"
    /\ calls' = calls + 1
    /\ outcome' = "none"
    /\ UNCHANGED executed

\* The chip skips what it never received, and never goes back.
Execute ==
    /\ executed' \in (executed + 1)..calls
    /\ UNCHANGED <<calls, status, outcome>>

Succeed ==
    /\ status = "pending"
    /\ executed = calls
    /\ status' = "idle"
    /\ outcome' = "Ok"
    /\ UNCHANGED <<calls, executed>>

Fail ==
    /\ status = "pending"
    /\ status' = "idle"
    /\ outcome' \in Errors
    /\ UNCHANGED <<calls, executed>>

Next == Request \/ Execute \/ Succeed \/ Fail

Spec == Init /\ [][Next]_rpcVars

=============================================================================
