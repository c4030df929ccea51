------------------------- MODULE WifiConnectProofs -------------------------
(***************************************************************************)
(* Proofs about WifiConnect, for all networks and all numbers of rounds,   *)
(* failures and restarts.                                                  *)
(***************************************************************************)
EXTENDS WifiConnect, TLAPS

Assumptions ==
    /\ NoNetwork \notin Networks
    /\ Attempts \in Nat \ {0} /\ Flushes \in Nat \ {0} /\ Failures \in Nat /\ Restarts \in Nat

LEMMA AssumptionsHold == Assumptions
BY NetworksAssumption, BoundsAssumption DEF Assumptions

\* The rounds of init and connect are counted against different limits, and a
\* disconnect is missed only by a failure.
Counts ==
    /\ op = "init" => round <= Flushes
    /\ pc = "flush" => op = "init"
    /\ pc \in {"join", "leave"} => op = "connect"
    /\ pc \in {"loop", "status"} => op \in {"connect", "wait"}
    /\ missed <= failures
    /\ pc # "caller" => res = "none"

\* TypeOK in two parts, for the sake of the provers.
Flags == due \in BOOLEAN /\ stuck \in BOOLEAN /\ hung \in BOOLEAN /\ reached \in BOOLEAN

Places ==
    /\ pc \in {"off", "caller", "flush", "join", "loop", "status", "leave"}
    /\ op \in {"init", "connect", "wait"}
    /\ ssid \in Networks \cup {NoNetwork} /\ met \in Networks \cup {NoNetwork}
    /\ network \in Networks \cup {NoNetwork} /\ joining \in Networks \cup {NoNetwork}
    /\ round \in 0..(Attempts + Flushes)
    /\ op = "connect" => round <= Attempts
    /\ res \in {"none", "Ok", "Timeout", "Pin"}
    /\ missed \in 0..Failures /\ failures \in 0..Failures /\ restarts \in 0..Restarts

LEMMA TypeParts == TypeOK <=> Flags /\ Places
BY DEF TypeOK, Flags, Places

LEMMA FlagsInit == Init => Flags
BY Zenon DEF Init, Flags

LEMMA FlagsNext == Flags /\ [Next]_vars => Flags'
<1> SUFFICES ASSUME Flags, [Next]_vars PROVE Flags'
  OBVIOUS
<1> USE DEF Flags, hostVars, radioVars, ghostVars, boundVars
<1>0. ASSUME NEW n \in Networks, CallConnect(n) PROVE Flags'
  BY <1>0, Zenon DEF CallConnect
<1>1. CASE CallInit
  BY <1>1, Zenon DEF CallInit
<1>2. CASE CallWait
  BY <1>2, Zenon DEF CallWait
<1>3. CASE Flush
  BY <1>3, Zenon DEF Flush, Disconnect, NextFlush, Return
<1>4. CASE FlushFails
  BY <1>4, Zenon DEF FlushFails, Fails, Disconnect, Missed, NextFlush, Return
<1>5. CASE Join
  BY <1>5, Zenon DEF Join, SetPassphrase, StartWait
<1>6. CASE JoinFails
  BY <1>6, Zenon DEF JoinFails, Fails, SetPassphrase, StartWait
<1>7. CASE Poll
  BY <1>7, Zenon DEF Poll
<1>8. CASE GiveUp
  BY <1>8, Zenon DEF GiveUp, Return
<1>9. CASE Connected
  BY <1>9, Zenon DEF Connected, Return
<1>10. CASE NotConnected
  BY <1>10, Zenon DEF NotConnected, Fails
<1>11. CASE Leave
  BY <1>11, Zenon DEF Leave, Disconnect, NextRound, Return
<1>12. CASE LeaveFails
  BY <1>12, Zenon DEF LeaveFails, Fails, Disconnect, Missed, NextRound, Return
<1>13. CASE Deadline
  BY <1>13, Zenon DEF Deadline
<1>14. CASE Associate
  BY <1>14, Zenon DEF Associate
<1>15. CASE Lose
  BY <1>15, Zenon DEF Lose
<1>16. CASE Hang
  BY <1>16, Zenon DEF Hang
<1>17. CASE Restart
  BY <1>17, Zenon DEF Restart
<1>18. CASE InitFails
  BY <1>18, Zenon DEF InitFails
<1>19. CASE UNCHANGED vars
  BY <1>19, Zenon DEF vars
<1> QED
  BY <1>0, <1>1, <1>2, <1>3, <1>4, <1>5, <1>6, <1>7, <1>8, <1>9, <1>10, <1>11, <1>12, <1>13, <1>14, <1>15, <1>16, <1>17, <1>18, <1>19 DEF Next, DriverStep

LEMMA PlacesInit == Init => Places /\ Counts
BY AssumptionsHold DEF Init, Places, Counts, Assumptions

LEMMA PlacesNext == Places /\ Counts /\ [Next]_vars => Places' /\ Counts'
<1> SUFFICES ASSUME Places, Counts, [Next]_vars PROVE Places' /\ Counts'
  OBVIOUS
<1> USE AssumptionsHold DEF Assumptions, Places, Counts, hostVars, radioVars, ghostVars, boundVars
<1>0. ASSUME NEW n \in Networks, CallConnect(n) PROVE Places' /\ Counts'
  BY <1>0 DEF CallConnect
<1>1. CASE CallInit
  BY <1>1 DEF CallInit
<1>2. CASE CallWait
  BY <1>2 DEF CallWait
<1>3. CASE Flush
  BY <1>3 DEF Flush, Disconnect, NextFlush, Return
<1>4. CASE FlushFails
  BY <1>4 DEF FlushFails, Fails, Disconnect, Missed, NextFlush, Return
<1>5. CASE Join
  BY <1>5 DEF Join, SetPassphrase, StartWait
<1>6. CASE JoinFails
  BY <1>6 DEF JoinFails, Fails, SetPassphrase, StartWait
<1>7. CASE Poll
  BY <1>7 DEF Poll
<1>8. CASE GiveUp
  BY <1>8 DEF GiveUp, Return
<1>9. CASE Connected
  BY <1>9 DEF Connected, Return
<1>10. CASE NotConnected
  BY <1>10 DEF NotConnected, Fails
<1>11. CASE Leave
  BY <1>11 DEF Leave, Disconnect, NextRound, Return
<1>12. CASE LeaveFails
  BY <1>12 DEF LeaveFails, Fails, Disconnect, Missed, NextRound, Return
<1>13. CASE Deadline
  BY <1>13 DEF Deadline
<1>14. CASE Associate
  BY <1>14 DEF Associate
<1>15. CASE Lose
  BY <1>15 DEF Lose
<1>16. CASE Hang
  BY <1>16 DEF Hang
<1>17. CASE Restart
  BY <1>17 DEF Restart
<1>18. CASE InitFails
  BY <1>18 DEF InitFails
<1>19. CASE UNCHANGED vars
  BY <1>19 DEF vars
<1> QED
  BY <1>0, <1>1, <1>2, <1>3, <1>4, <1>5, <1>6, <1>7, <1>8, <1>9, <1>10, <1>11, <1>12, <1>13, <1>14, <1>15, <1>16, <1>17, <1>18, <1>19 DEF Next, DriverStep

LEMMA TypeInvariant == Spec => [](TypeOK /\ Counts)
BY TypeParts, FlagsInit, FlagsNext, PlacesInit, PlacesNext, PTL DEF Spec

\* Every variable keeps its type, and connect makes no more than Attempts rounds.
THEOREM WifiTypes == Spec => []TypeOK
BY TypeInvariant, PTL

-----------------------------------------------------------------------------
(* What the radio does for the call in progress *)

\* After a request of this call reached the chip, the radio has no other network in
\* hand; a radio that is stuck has missed all disconnects of the call; one at rest
\* stays at rest.
RadioInv ==
    /\ pc \in {"join", "loop", "status", "leave"} /\ op = "connect" /\ reached =>
          network \in {ssid, NoNetwork} /\ joining \in {ssid, NoNetwork}
    /\ stuck /\ pc \in {"join", "loop", "status", "leave"} /\ op = "connect" => missed >= round - 1
    /\ stuck /\ pc = "flush" => missed >= round - 1
    /\ stuck /\ pc = "caller" /\ op = "init" /\ res = "Ok" => missed >= Flushes
    /\ OkMeansJoined
    /\ NoLateJoin

LEMMA RadioNext == Flags /\ Places /\ Counts /\ RadioInv /\ [Next]_vars => RadioInv'
<1> SUFFICES ASSUME Flags, Places, Counts, RadioInv, [Next]_vars PROVE RadioInv'
  OBVIOUS
<1> USE AssumptionsHold DEF Assumptions, Places, Counts, RadioInv, OkMeansJoined, NoLateJoin, hostVars, radioVars, ghostVars, boundVars
<1>0. ASSUME NEW n \in Networks, CallConnect(n) PROVE RadioInv'
  BY <1>0 DEF CallConnect
<1>1. CASE CallInit
  BY <1>1 DEF CallInit
<1>2. CASE CallWait
  BY <1>2 DEF CallWait
<1>3. CASE Flush
  BY <1>3 DEF Flush, Disconnect, NextFlush, Return
<1>4. CASE FlushFails
  BY <1>4 DEF FlushFails, Fails, Disconnect, Missed, NextFlush, Return
<1>5. CASE Join
  BY <1>5 DEF Join, SetPassphrase, StartWait
<1>6. CASE JoinFails
  BY <1>6 DEF JoinFails, Fails, SetPassphrase, StartWait
<1>7. CASE Poll
  BY <1>7 DEF Poll
<1>8. CASE GiveUp
  BY <1>8 DEF GiveUp, Return
<1>9. CASE Connected
  BY <1>9 DEF Connected, Return
<1>10. CASE NotConnected
  BY <1>10 DEF NotConnected, Fails
<1>11. CASE Leave
  BY <1>11 DEF Leave, Disconnect, NextRound, Return
<1>12. CASE LeaveFails
  BY <1>12 DEF LeaveFails, Fails, Disconnect, Missed, NextRound, Return
<1>13. CASE Deadline
  BY <1>13 DEF Deadline
<1>14. CASE Associate
  BY <1>14 DEF Associate
<1>15. CASE Lose
  BY <1>15 DEF Lose
<1>16. CASE Hang
  BY <1>16 DEF Hang
<1>17. CASE Restart
  BY <1>17 DEF Restart
<1>18. CASE InitFails
  BY <1>18 DEF InitFails
<1>19. CASE UNCHANGED vars
  BY <1>19 DEF vars
<1> QED
  BY <1>0, <1>1, <1>2, <1>3, <1>4, <1>5, <1>6, <1>7, <1>8, <1>9, <1>10, <1>11, <1>12, <1>13, <1>14, <1>15, <1>16, <1>17, <1>18, <1>19 DEF Next, DriverStep

LEMMA RadioInvariant == Spec => [](TypeOK /\ Counts /\ RadioInv)
<1>1. Init => RadioInv
  BY AssumptionsHold DEF Init, RadioInv, OkMeansJoined, NoLateJoin, Assumptions
<1> QED
  BY <1>1, TypeParts, TypeInvariant, RadioNext, PTL DEF Spec

\* Ok of connect means the network asked for, once a request has reached the chip.
THEOREM OkIsJoined == Spec => []OkMeansJoined
<1>1. RadioInv => OkMeansJoined
  BY DEF RadioInv
<1> QED
  BY <1>1, RadioInvariant, PTL

\* A retained state survives only rounds whose disconnects were all lost.
THEOREM RetriesUnstick == Spec => []Unstuck
<1>1. TypeOK /\ Counts /\ RadioInv => Unstuck
  BY DEF TypeOK, Counts, RadioInv, Unstuck
<1> QED
  BY <1>1, RadioInvariant, PTL

\* A Timeout of connect leaves no association behind that comes later.
THEOREM TimeoutIsFinal == Spec => []NoLateJoin
<1>1. RadioInv => NoLateJoin
  BY DEF RadioInv
<1> QED
  BY <1>1, RadioInvariant, PTL

=============================================================================
