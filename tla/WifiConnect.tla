---------------------------- MODULE WifiConnect ----------------------------
(***************************************************************************)
(* Nina::init, connect and wait_for_connected (driver.rs) against a radio  *)
(* that associates, fails, loses its network, comes up with a retained     *)
(* state, or hangs.  A step of the driver is one exchange (module          *)
(* NinaRpc), or a look at the clock.                                       *)
(***************************************************************************)
EXTENDS Naturals

CONSTANTS
    Networks,   \* names of networks
    NoNetwork,
    Attempts,   \* rounds of connect
    Flushes,    \* disconnects of init
    Failures,   \* bound on the exchanges that fail
    Restarts    \* bound on the restarts of the host

ASSUME NetworksAssumption == NoNetwork \notin Networks
ASSUME BoundsAssumption ==
    Attempts \in Nat \ {0} /\ Flushes \in Nat \ {0} /\ Failures \in Nat /\ Restarts \in Nat

VARIABLES
    pc,         \* "off": before init; "caller", "flush", "join", "loop", "status", "leave"
    op,         \* "init", "connect", "wait"
    ssid,       \* the network asked for
    round,      \* rounds of the loop of init or connect begun
    due,        \* the 20 s of wait_for_connected are over
    res,        \* how the last call ended
    network,    \* what the radio is associated with
    joining,    \* what it tries to associate with
    stuck,      \* retained state: requests are acked and nothing comes of them
    hung,       \* the chip does not lower ACK any more
    reached,    \* a SET_PASSPHRASE of this call reached the chip
    missed,     \* disconnects since the radio got stuck that did not reach it
    met,        \* the network at the time of the status that ended the last call
    failures,
    restarts

hostVars == <<pc, op, ssid, round, due, res>>
radioVars == <<network, joining, stuck>>
ghostVars == <<reached, missed, met>>
boundVars == <<failures, restarts>>
vars == <<hostVars, radioVars, hung, ghostVars, boundVars>>

Init ==
    /\ pc = "off" /\ op = "init" /\ ssid = NoNetwork
    /\ round = 0 /\ due = FALSE /\ res = "none"
    /\ network = NoNetwork /\ joining = NoNetwork
    /\ stuck \in BOOLEAN
    /\ hung = FALSE
    /\ reached = FALSE /\ missed = 0 /\ met = NoNetwork
    /\ failures = 0 /\ restarts = 0

-----------------------------------------------------------------------------
(* What a request does to the radio *)

\* The radio leaves the network it is on before it joins another.
SetPassphrase ==
    /\ network' = NoNetwork
    /\ joining' = IF stuck THEN NoNetwork ELSE ssid
    /\ reached' = TRUE
    /\ UNCHANGED stuck

Disconnect ==
    /\ network' = NoNetwork
    /\ joining' = NoNetwork
    /\ stuck' = FALSE
    /\ missed' = 0

\* The exchange fails: the request had its effect, or it was lost.
Fails(effect, loss) ==
    /\ failures < Failures
    /\ failures' = failures + 1
    /\ effect \/ loss
    /\ UNCHANGED restarts

Return(r) ==
    /\ pc' = "caller"
    /\ res' = r
    /\ UNCHANGED <<op, ssid, round, due>>

-----------------------------------------------------------------------------
(* init *)

\* The reset pin restarts the chip; what it retained stays.
CallInit ==
    /\ pc \in {"off", "caller"}
    /\ pc' = "flush" /\ op' = "init" /\ round' = 1 /\ res' = "none"
    /\ network' = NoNetwork /\ joining' = NoNetwork
    /\ hung' = FALSE
    /\ UNCHANGED <<ssid, due, stuck, ghostVars, boundVars>>

\* A pin fails before the disconnects: init returns, and the chip has not been reset,
\* is held in reset, or has booted.
InitFails ==
    /\ pc \in {"off", "caller"}
    /\ pc' = "caller" /\ op' = "init" /\ round' = 0 /\ res' = "Pin"
    /\ \/ UNCHANGED <<network, joining, hung>>
       \/ network' = NoNetwork /\ joining' = NoNetwork /\ hung' \in BOOLEAN
    /\ UNCHANGED <<ssid, due, stuck, ghostVars, boundVars>>

\* After a disconnect, whatever came of it: once more, or done.
NextFlush ==
    IF round < Flushes
    THEN round' = round + 1 /\ UNCHANGED <<pc, op, ssid, due, res>>
    ELSE Return("Ok")

Flush ==
    /\ pc = "flush" /\ ~hung
    /\ Disconnect
    /\ NextFlush
    /\ UNCHANGED <<hung, reached, met, boundVars>>

Missed == missed' = missed + 1 /\ UNCHANGED radioVars

FlushFails ==
    /\ pc = "flush" /\ ~hung
    /\ Fails(Disconnect, Missed)
    /\ NextFlush
    /\ UNCHANGED <<hung, reached, met>>

-----------------------------------------------------------------------------
(* connect and wait_for_connected *)

CallConnect(n) ==
    /\ pc = "caller"
    /\ pc' = "join" /\ op' = "connect" /\ ssid' = n /\ round' = 1 /\ res' = "none"
    /\ reached' = FALSE
    /\ UNCHANGED <<due, radioVars, hung, missed, met, boundVars>>

\* A caller that made the connect_wpa itself.
CallWait ==
    /\ pc = "caller"
    /\ pc' = "loop" /\ op' = "wait" /\ due' = FALSE /\ res' = "none"
    /\ UNCHANGED <<ssid, round, radioVars, hung, ghostVars, boundVars>>

\* connect_wpa is over, whatever came of it: wait_for_connected begins.
StartWait == pc' = "loop" /\ due' = FALSE /\ UNCHANGED <<op, ssid, round, res>>

Join ==
    /\ pc = "join" /\ ~hung
    /\ SetPassphrase
    /\ StartWait
    /\ UNCHANGED <<hung, missed, met, boundVars>>

JoinFails ==
    /\ pc = "join" /\ ~hung
    /\ Fails(SetPassphrase, UNCHANGED <<radioVars, reached>>)
    /\ StartWait
    /\ UNCHANGED <<hung, missed, met>>

\* The deadline is looked at between two polls.
Poll ==
    /\ pc = "loop" /\ ~due
    /\ pc' = "status"
    /\ UNCHANGED <<op, ssid, round, due, res, radioVars, hung, ghostVars, boundVars>>

\* Faulty variant: the deadline is computed anew in the loop.
GiveUp_Anew ==
    /\ pc = "loop" /\ due
    /\ due' = FALSE
    /\ UNCHANGED <<pc, op, ssid, round, res, radioVars, hung, ghostVars, boundVars>>

GiveUp ==
    /\ pc = "loop" /\ due
    /\ IF op = "connect"
       THEN pc' = "leave" /\ UNCHANGED <<op, ssid, round, due, res>>
       ELSE Return("Timeout")
    /\ UNCHANGED <<radioVars, hung, ghostVars, boundVars>>

Connected ==
    /\ pc = "status" /\ ~hung /\ network # NoNetwork
    /\ met' = network
    /\ Return("Ok")
    /\ UNCHANGED <<radioVars, hung, reached, missed, boundVars>>

\* Faulty variant: only a status other than Connected keeps the loop going.
NotConnected_ErrorEnds ==
    /\ pc = "status" /\ ~hung
    /\ \/ /\ network = NoNetwork
          /\ pc' = "loop"
          /\ UNCHANGED <<op, ssid, round, due, res, met, boundVars>>
       \/ /\ Fails(TRUE, TRUE)
          /\ met' = network
          /\ Return("Ok")
    /\ UNCHANGED <<radioVars, hung, reached, missed>>

\* Any other status; an error is no status either.
NotConnected ==
    /\ pc = "status" /\ ~hung
    /\ \/ network = NoNetwork /\ UNCHANGED boundVars
       \/ Fails(TRUE, TRUE)
    /\ pc' = "loop"
    /\ UNCHANGED <<op, ssid, round, due, res, radioVars, hung, ghostVars>>

\* Faulty variant: one round more than the loop allows.
NextRound_OneMore ==
    IF round <= Attempts
    THEN pc' = "join" /\ round' = round + 1 /\ UNCHANGED <<op, ssid, due, res>>
    ELSE Return("Timeout")

\* The round is over: another one after 2 s, or Timeout.
NextRound ==
    IF round < Attempts
    THEN pc' = "join" /\ round' = round + 1 /\ UNCHANGED <<op, ssid, due, res>>
    ELSE Return("Timeout")

\* Faulty variant: no disconnect between the rounds.
Leave_Skipped ==
    /\ pc = "leave" /\ ~hung
    /\ NextRound
    /\ UNCHANGED <<radioVars, hung, ghostVars, boundVars>>

\* Faulty variant: no disconnect after the last round.
Leave_NotLast ==
    /\ pc = "leave" /\ ~hung
    /\ IF round < Attempts THEN Disconnect ELSE UNCHANGED <<radioVars, missed>>
    /\ NextRound
    /\ UNCHANGED <<hung, reached, met, boundVars>>

Leave ==
    /\ pc = "leave" /\ ~hung
    /\ Disconnect
    /\ NextRound
    /\ UNCHANGED <<hung, reached, met, boundVars>>

LeaveFails ==
    /\ pc = "leave" /\ ~hung
    /\ Fails(Disconnect, Missed)
    /\ NextRound
    /\ UNCHANGED <<hung, reached, met>>

-----------------------------------------------------------------------------
(* Time, the radio, and a host that restarts *)

Deadline ==
    /\ pc \in {"loop", "status"} /\ ~due
    /\ due' = TRUE
    /\ UNCHANGED <<pc, op, ssid, round, res, radioVars, hung, ghostVars, boundVars>>

Associate ==
    /\ joining # NoNetwork
    /\ network' = joining /\ joining' = NoNetwork
    /\ UNCHANGED <<hostVars, stuck, hung, ghostVars, boundVars>>

\* Not found, a wrong passphrase, or an access point that is gone.
Lose ==
    /\ joining # NoNetwork \/ network # NoNetwork
    /\ network' = NoNetwork /\ joining' = NoNetwork
    /\ UNCHANGED <<hostVars, stuck, hung, ghostVars, boundVars>>

Hang ==
    /\ ~hung
    /\ hung' = TRUE
    /\ UNCHANGED <<hostVars, radioVars, ghostVars, boundVars>>

\* The chip stays powered and may retain what it was doing.
Restart ==
    /\ restarts < Restarts
    /\ restarts' = restarts + 1
    /\ pc' = "off" /\ res' = "none" /\ due' = FALSE
    /\ \/ {network, joining} # {NoNetwork} /\ stuck' = TRUE /\ missed' = 0
       \/ UNCHANGED <<stuck, missed>>
    /\ UNCHANGED <<op, ssid, round, network, joining, hung, reached, met, failures>>

DriverStep ==
    \/ Flush \/ FlushFails \/ Join \/ JoinFails \/ Poll \/ GiveUp
    \/ Connected \/ NotConnected \/ Leave \/ LeaveFails

Next ==
    \/ CallInit \/ InitFails \/ (\E n \in Networks : CallConnect(n)) \/ CallWait
    \/ DriverStep \/ Deadline
    \/ Associate \/ Lose \/ Hang \/ Restart

Spec == Init /\ [][Next]_vars

\* The driver is polled, exchanges with a chip that is not hung end, and time goes
\* on. The radio need not do anything.
FairSpec == Spec /\ WF_vars(DriverStep) /\ WF_vars(Deadline)

-----------------------------------------------------------------------------
TypeOK ==
    /\ pc \in {"off", "caller", "flush", "join", "loop", "status", "leave"}
    /\ op \in {"init", "connect", "wait"}
    /\ ssid \in Networks \cup {NoNetwork} /\ met \in Networks \cup {NoNetwork}
    /\ network \in Networks \cup {NoNetwork} /\ joining \in Networks \cup {NoNetwork}
    /\ round \in 0..(Attempts + Flushes)
    /\ op = "connect" => round <= Attempts
    /\ due \in BOOLEAN /\ stuck \in BOOLEAN /\ hung \in BOOLEAN /\ reached \in BOOLEAN
    /\ res \in {"none", "Ok", "Timeout", "Pin"}
    /\ missed \in 0..Failures /\ failures \in 0..Failures /\ restarts \in 0..Restarts

\* connect takes any Connected status for success and ignores what came of its own
\* request. Still, Ok means the network asked for, although the radio may have been
\* on another one and an earlier round may have failed: unless no request of this
\* call has reached the chip.
OkMeansJoined == res = "Ok" /\ op = "connect" /\ reached => met = ssid

\* A retained state does not outlive the disconnects: the radio is still stuck in
\* round k, or when init is done, only if every disconnect so far was lost.
Unstuck ==
    stuck =>
        /\ pc \in {"join", "loop", "status", "leave"} /\ op = "connect" => missed >= round - 1
        /\ pc = "caller" /\ op = "init" /\ res = "Ok" => missed >= Flushes

\* After a Timeout of connect the radio is at rest: an association that comes late
\* does not put it on a network behind the caller's back. (A lost disconnect does.)
NoLateJoin ==
    res = "Timeout" /\ op = "connect" /\ missed = 0 =>
        network = NoNetwork /\ joining = NoNetwork

\* Every call returns, however the radio behaves, unless the chip hangs: no
\* deadline is looked at while an exchange waits for ACK.
CallsReturn == pc \notin {"off", "caller"} ~> (pc \in {"off", "caller"} \/ hung)

=============================================================================
