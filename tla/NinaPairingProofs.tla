------------------------- MODULE NinaPairingProofs -------------------------
(***************************************************************************)
(* Proofs that every answer belongs to its request: ReplyMatchesRequest,   *)
(* for a chip that raises ACK in time and a host that can see it: no       *)
(* error of ack.wait_for_high.  Errors of the bus and of the other pin     *)
(* operations, cancellations and resets may happen anywhere.               *)
(***************************************************************************)
EXTENDS NinaLinkProofs

\* The chip serves windows it was armed for, and what it receives or holds goes
\* with its phase.
WindowInv ==
    /\ engaged => cs = "low" /\ chip \in {"cmd", "rep"}
    /\ cs = "low" /\ ~engaged => chip \in {"off", "boot", "cmd", "done"}
    /\ chip \in {"off", "boot", "cmd", "done"} => job = Nothing
    /\ rx # Nothing => engaged /\ chip = "cmd" /\ ack = "high"
    /\ rx.kind \notin {"reply", "err"}

InSend == {"send.select", "send.write", "send.rest"}
InRecv == {"recv.select", "recv.poll", "recv.header", "recv.body"}

\* What the pins say of where the host is. While the chip handles a command ACK
\* is HIGH: no window opens.
HandshakeInv ==
    /\ chip = "busy" => ack = "high"
    /\ hpc \in InSend \cup InRecv => cs = "low"
    /\ hpc \in (InSend \cup InRecv) \ {"send.select", "recv.select"} /\ engaged => ack = "high"
    /\ hpc = "init.reset" => chip = "off"

\* An item that carries a request still to be carried out.
IsRequest(x) == x.kind \in {"part", "whole"}

\* Where the requests are. What the chip has of a request before the host has
\* sent one is older; what it has when the host waits for the answer is that one.
RequestInv ==
    /\ executed <= calls
    /\ IsRequest(rx) => executed < rx.id /\ rx.id <= calls
    /\ IsRequest(job) => executed < job.id /\ job.id <= calls
    /\ job.kind = "reply" => job.id = executed
    /\ hpc \in {"send.ack"} \cup InSend => executed < calls /\ (IsRequest(job) => job.id < calls)
    /\ hpc \in {"send.ack", "send.select", "send.write"} => (IsRequest(rx) => rx.id < calls)
    /\ hpc \in {"recv.ack", "recv.select", "recv.poll"} =>
         /\ IsRequest(rx) => rx.id = calls
         /\ IsRequest(job) \/ job.kind = "reply" => job.id = calls
    /\ hpc \in {"recv.header", "recv.body"} => got.id = calls /\ executed = calls

PairingInv == WindowInv /\ HandshakeInv /\ RequestInv /\ ReplyMatchesRequest

-----------------------------------------------------------------------------
(* Windows *)

LEMMA NothingIsNone == Nothing.kind = "none" /\ ~IsRequest(Nothing)
BY DEF Nothing, Item, IsRequest

LEMMA JunkIsJunk ==
    LET junk == Item("junk", 0, 0, NoShape)
    IN  junk.kind = "junk" /\ ~IsRequest(junk) /\ junk # Nothing
BY DEF Item, IsRequest, Nothing

LEMMA SentAreRequests ==
    /\ IsRequest(Part) /\ Part.id = calls /\ Part # Nothing
    /\ IsRequest(Whole) /\ Whole.id = calls /\ Whole # Nothing
<1>1. IsRequest(Part) /\ Part.id = calls /\ Part.kind = "part"
  BY DEF Part, Item, IsRequest
<1>2. CASE Intact(call)
  <2>1. Whole = Item("whole", calls, CmdByte(call.cmd), NoShape)
    BY <1>2 DEF Whole
  <2>2. IsRequest(Whole) /\ Whole.id = calls
    BY <2>1 DEF Item, IsRequest
  <2> QED
    BY <1>1, <2>2, NothingIsNone
<1>3. CASE ~Intact(call)
  BY <1>1, <1>3, NothingIsNone DEF Whole
<1> QED
  BY <1>2, <1>3

\* What may be in a window: nothing, or something the chip has really heard.
Heard(r) ==
    /\ r # Nothing => engaged /\ chip = "cmd" /\ ack = "high"
    /\ r.kind \notin {"reply", "err"}

\* Clocking an item of the host into a window.
LEMMA ReceivedHeard ==
    ASSUME WindowInv, engaged => ack = "high", NEW r, r.kind \notin {"reply", "err"}
    PROVE  /\ Heard(Received(r))
           /\ IsRequest(Received(r)) => Received(r) = r \/ Received(r) = rx
           /\ (engaged /\ chip = "cmd") \/ ~IsRequest(Received(r))
<1>1. CASE ~engaged \/ chip # "cmd"
  <2>1. Received(r) = rx /\ rx = Nothing
    BY <1>1 DEF Received, WindowInv
  <2> QED
    BY <2>1, NothingIsNone DEF Heard
<1>2. CASE engaged /\ chip = "cmd"
  <2>1. Received(r) = r \/ Received(r) = Item("junk", 0, 0, NoShape)
    BY <1>2 DEF Received
  <2> QED
    BY <1>2, <2>1, JunkIsJunk DEF Heard
<1> QED
  BY <1>1, <1>2

\* The end of an open window, or the failure to end it: the chip is left with what
\* the window brought it, or with nothing.
LEMMA EndWindowInv ==
    ASSUME WindowInv, chip = "busy" => ack = "high", cs = "low", ack' = ack,
           NEW r, Heard(r), EndWindow(r)
    PROVE  /\ WindowInv'
           /\ chip' = "busy" => ack' = "high"
           /\ chip' = "off" => chip = "off"
           /\ rx' \in {Nothing, r}
           /\ job' \in {Nothing, r}
<1>1. CASE CsRise(r) /\ ~engaged
  BY <1>1, NothingIsNone DEF CsRise, WindowInv
<1>2. CASE CsRise(r) /\ engaged
  BY <1>2, NothingIsNone DEF CsRise, WindowInv, Heard
<1>3. CASE rx' = r /\ job' = Held /\ UNCHANGED <<cs, engaged, chip>>
  <2>1. job' = Nothing
    BY <1>3 DEF Held, WindowInv
  <2> QED
    BY <1>3, <2>1 DEF WindowInv, Heard
<1> QED
  BY <1>1, <1>2, <1>3 DEF EndWindow

-----------------------------------------------------------------------------
(* The handshake: WindowInv and HandshakeInv do not depend on what is in the *)
(* windows.                                                                  *)

\* The items an error return or the end of a send may leave in a window.
LEMMA SentHeard ==
    ASSUME WindowInv, engaged => ack = "high"
    PROVE  Heard(rx) /\ Heard(Dummies) /\ Heard(Received(Part)) /\ Heard(Received(Whole))
<1>1. Heard(rx)
  BY DEF WindowInv, Heard
<1>2. Heard(Dummies)
  BY ReceivedHeard, JunkIsJunk DEF Dummies
<1>3. Part.kind \notin {"reply", "err"} /\ Whole.kind \notin {"reply", "err"}
  BY SentAreRequests DEF IsRequest
<1> QED
  BY <1>1, <1>2, <1>3, ReceivedHeard

\* An exchange that fails inside a window.
LEMMA FailInWindowHandshake ==
    ASSUME WindowInv, HandshakeInv, hpc \in InSend \cup InRecv,
           NEW res, NEW r, Heard(r), FailInWindow(res, r)
    PROVE  WindowInv' /\ HandshakeInv'
<1>1. cs = "low" /\ ack' = ack /\ EndWindow(r) /\ hpc' = "idle"
  BY DEF HandshakeInv, FailInWindow, Return
<1>2. WindowInv' /\ (chip' = "busy" => ack' = "high")
  BY <1>1, EndWindowInv DEF HandshakeInv
<1> QED
  BY <1>1, <1>2 DEF HandshakeInv, InSend, InRecv

LEMMA OpenWindowHandshake ==
    ASSUME TypeOK, WindowInv, HandshakeInv, NEW from, NEW to,
           to \in {"send.select", "recv.select"}, OpenWindow(from, to)
    PROVE  WindowInv' /\ HandshakeInv'
<1>1. ack = "low" /\ ack' = ack /\ cs' = "low" /\ chip' = chip /\ rx' = rx /\ job' = job
  BY DEF OpenWindow, CsFall
<1>2. engaged' = IF cs = "high" THEN chip \in {"cmd", "rep"} ELSE engaged
  BY DEF OpenWindow, CsFall
<1>3. chip \in {"off", "boot", "cmd", "rep", "done"}
  BY <1>1 DEF HandshakeInv, TypeOK
<1>4. cs \in {"low", "high"}
  BY DEF TypeOK
<1>5. WindowInv'
  BY <1>1, <1>2, <1>3, <1>4 DEF WindowInv
<1>6. hpc' = to
  BY DEF OpenWindow
<1> QED
  BY <1>1, <1>5, <1>6 DEF HandshakeInv, InSend, InRecv

LEMMA HandshakeInductive ==
    ASSUME "lag" \notin Faults, "high" \notin Faults, TypeOK, WindowInv, HandshakeInv, [Next]_vars
    PROVE  WindowInv' /\ HandshakeInv'
<1> USE DEF InSend, InRecv
<1>1. ASSUME NEW c, Begin(c) PROVE WindowInv' /\ HandshakeInv'
  BY <1>1 DEF Begin, chipVars, WindowInv, HandshakeInv
<1>2. CASE InitReset
  BY <1>2, NothingIsNone DEF InitReset, WindowInv, HandshakeInv
<1>3. ASSUME NEW res, FailEarly(res) PROVE WindowInv' /\ HandshakeInv'
  BY <1>3 DEF FailEarly, Return, chipVars, WindowInv, HandshakeInv
<1>4. CASE SendOpen \/ RecvOpen
  BY <1>4, OpenWindowHandshake DEF SendOpen, RecvOpen
<1>5. CASE Select
  BY <1>5 DEF Select, chipVars, WindowInv, HandshakeInv
<1>6. hpc \in {"send.write", "send.rest", "recv.poll", "recv.header", "recv.body"}
      => /\ Heard(rx) /\ Heard(Dummies) /\ Heard(Received(Part)) /\ Heard(Received(Whole))
         /\ cs = "low"
  BY SentHeard DEF HandshakeInv
<1>7. CASE SendHeader
  <2>1. Heard(Received(Part))
    BY <1>6, <1>7 DEF SendHeader
  <2>2. job' = Held /\ rx' = Received(Part) /\ UNCHANGED <<cs, ack, chip, engaged>>
    BY <1>7 DEF SendHeader
  <2>3. WindowInv'
    BY <2>1, <2>2 DEF WindowInv, Heard, Held
  <2> QED
    BY <1>7, <2>2, <2>3 DEF SendHeader, HandshakeInv
<1>8. ASSUME NEW from, from \in {"send.write", "send.rest"}, SendEnd(from)
      PROVE  WindowInv' /\ HandshakeInv'
  <2>1. Heard(Received(Whole)) /\ cs = "low" /\ ack' = ack /\ EndWindow(Received(Whole))
    BY <1>6, <1>8 DEF SendEnd
  <2>2. WindowInv' /\ (chip' = "busy" => ack' = "high")
    BY <2>1, EndWindowInv DEF HandshakeInv
  <2>3. hpc' = "recv.ack"
    BY <1>8 DEF SendEnd
  <2> QED
    BY <2>2, <2>3 DEF HandshakeInv
<1>9. CASE PollStart
  BY <1>9, NothingIsNone DEF PollStart, WindowInv, HandshakeInv
<1>10. CASE PollErrCmd
  BY <1>10, <1>6, FailInWindowHandshake DEF PollErrCmd
<1>11. CASE PollDummy
  <2>1. Heard(Dummies)
    BY <1>6, <1>11 DEF PollDummy
  <2> QED
    BY <1>11, <2>1 DEF PollDummy, WindowInv, HandshakeInv, Heard
<1>12. CASE PollTimeout
  BY <1>12, <1>6, FailInWindowHandshake DEF PollTimeout
<1>13. CASE RecvHeader
  <2>1. CASE Header(call, got) = "body"
    BY <1>13, <2>1 DEF RecvHeader, chipVars, WindowInv, HandshakeInv
  <2>2. CASE Header(call, got) # "body"
    BY <1>13, <1>6, <2>2, FailInWindowHandshake DEF RecvHeader
  <2> QED
    BY <2>1, <2>2
<1>14. CASE RecvBody
  <2>1. Heard(rx) /\ cs = "low" /\ ack' = ack /\ EndWindow(rx) /\ hpc' = "idle"
    BY <1>6, <1>14 DEF RecvBody, Return
  <2>2. WindowInv' /\ (chip' = "busy" => ack' = "high")
    BY <2>1, EndWindowInv DEF HandshakeInv
  <2> QED
    BY <2>1, <2>2 DEF HandshakeInv
<1>15. CASE InitRelease \/ InitBoot
  BY <1>15 DEF InitRelease, InitBoot, chipVars, WindowInv, HandshakeInv
<1>25. hpc \in Transfers => \A r \in Clocked : Heard(r)
  BY <1>6 DEF Transfers, Clocked
<1>16. CASE SendError
  <2>1. PICK r \in Clocked : FailInWindow("Spi", r)
    BY <1>16 DEF SendError
  <2>2. Heard(r) /\ hpc \in InSend
    BY <1>16, <1>25, <2>1 DEF SendError, Transfers
  <2> QED
    BY <2>1, <2>2, FailInWindowHandshake
<1>17. CASE RecvError
  <2>1. PICK r \in Clocked : FailInWindow("Spi", r)
    BY <1>17 DEF RecvError
  <2>2. Heard(r) /\ hpc \in InRecv
    BY <1>17, <1>25, <2>1 DEF RecvError, Transfers
  <2> QED
    BY <2>1, <2>2, FailInWindowHandshake
<1>18. CASE Cancel
  <2>1. Heard(rx') /\ job' \in {job, Nothing} /\ UNCHANGED <<cs, ack, chip, engaged>>
    BY <1>18, <1>25 DEF Cancel, Held, Heard, WindowInv
  <2>2. WindowInv'
    BY <2>1 DEF WindowInv, Heard
  <2> QED
    BY <1>18, <2>1, <2>2 DEF Cancel, HandshakeInv
<1>19. CASE InitRefused
  <2>1. CASE CsRise(rx)
    BY <1>19, <2>1, NothingIsNone DEF InitRefused, CsRise, WindowInv, HandshakeInv, TypeOK
  <2>2. CASE UNCHANGED <<cs, engaged, rx, chip, job>>
    BY <1>19, <2>2 DEF InitRefused, WindowInv, HandshakeInv
  <2> QED
    BY <1>19, <2>1, <2>2 DEF InitRefused
<1>20. CASE InitPinError
  BY <1>20 DEF InitPinError, chipVars, WindowInv, HandshakeInv
<1>21. CASE ChipBusy
  BY <1>21 DEF ChipBusy, hostVars, chipVars, WindowInv, HandshakeInv
<1>22. CASE ChipExecute \/ ChipReject
  BY <1>22, NothingIsNone DEF ChipExecute, ChipReject, ArmReply, hostVars, WindowInv, HandshakeInv
<1>23. CASE ChipRearm \/ ChipBoot
  BY <1>23 DEF ChipRearm, ChipBoot, hostVars, WindowInv, HandshakeInv
<1>24. CASE UNCHANGED vars
  BY <1>24 DEF vars, WindowInv, HandshakeInv
<1> QED
  BY <1>1, <1>2, <1>3, <1>4, <1>5, <1>7, <1>8, <1>9, <1>10, <1>11, <1>12, <1>13, <1>14, <1>15,
     <1>16, <1>17, <1>18, <1>19, <1>20, <1>21, <1>22, <1>23, <1>24
     DEF Next, HostStep, Fault, ChipStep, Call, InitDisconnect, MixedOverflow, OpenError,
         SendRest, SendMixed

-----------------------------------------------------------------------------
(* The requests *)

\* An item that carries, if any, a request the chip has still to carry out.
Pending(r) ==
    /\ r.kind \notin {"reply", "err"}
    /\ IsRequest(r) => executed < r.id /\ r.id <= calls

LEMMA FailInWindowRequest ==
    ASSUME TypeOK, WindowInv, HandshakeInv, RequestInv, hpc \in InSend \cup InRecv,
           NEW res, res # "Ok", NEW r, Heard(r), Pending(r), FailInWindow(res, r)
    PROVE  RequestInv' /\ ReplyMatchesRequest'
<1>1. cs = "low" /\ ack' = ack /\ EndWindow(r)
  BY DEF HandshakeInv, FailInWindow
<1>2. rx' \in {Nothing, r} /\ job' \in {Nothing, r}
  BY <1>1, EndWindowInv DEF HandshakeInv
<1>3. /\ hpc' = "idle" /\ calls' = calls /\ executed' = executed
      /\ result' = [res |-> res, id |-> 0]
  BY DEF FailInWindow, Return
<1>4. Pending(Nothing)
  BY NothingIsNone DEF Pending
<1>5. RequestInv'
  BY <1>2, <1>3, <1>4 DEF RequestInv, Pending, IsRequest, InSend
<1> QED
  BY <1>3, <1>5 DEF ReplyMatchesRequest

LEMMA BeginRequest ==
    ASSUME TypeOK, RequestInv, NEW c, Begin(c)
    PROVE  RequestInv' /\ ReplyMatchesRequest'
<1>1. /\ hpc' = "send.ack" /\ calls' = calls + 1 /\ result' = [res |-> "none", id |-> 0]
      /\ UNCHANGED <<executed, rx, job>>
  BY DEF Begin, chipVars
<1>2. calls \in Nat /\ executed \in Nat /\ rx.id \in Nat /\ job.id \in Nat
  BY DEF TypeOK, ItemType
<1>3. RequestInv'
  BY <1>1, <1>2 DEF RequestInv, IsRequest, InSend
<1> QED
  BY <1>1, <1>3 DEF ReplyMatchesRequest

\* A step of the host or of its pins that leaves the chip's items and the counters
\* alone and does not move to where more is claimed.
LEMMA QuietRequest ==
    ASSUME RequestInv, ReplyMatchesRequest, UNCHANGED <<calls, executed, rx, job, got>>,
           \/ hpc' \in Idle
           \/ hpc' = hpc
           \/ hpc = "send.ack" /\ hpc' = "send.select"
           \/ hpc = "send.select" /\ hpc' = "send.write"
           \/ hpc = "recv.ack" /\ hpc' = "recv.select"
           \/ hpc = "recv.select" /\ hpc' = "recv.poll"
           \/ hpc = "recv.header" /\ hpc' = "recv.body",
           result' = result \/ result'.res # "Ok"
    PROVE  RequestInv' /\ ReplyMatchesRequest'
<1>1. RequestInv'
  BY DEF RequestInv, IsRequest, InSend, Idle
<1> QED
  BY <1>1 DEF ReplyMatchesRequest

\* The chip carries out the request it holds.
LEMMA ExecuteRequest ==
    ASSUME TypeOK, WindowInv, RequestInv, ReplyMatchesRequest, ChipExecute
    PROVE  RequestInv' /\ ReplyMatchesRequest'
<1>1. executed < job.id /\ job.id <= calls /\ executed' = job.id
  BY DEF ChipExecute, RequestInv, IsRequest
<1>2. job'.kind \in {"reply", "err"} /\ job'.id = job.id
  BY DEF ChipExecute, ArmReply, Item
<1>3. rx' = rx /\ rx = Nothing
  BY DEF ChipExecute, WindowInv
<1>4. UNCHANGED <<hpc, calls, got, result>>
  BY DEF ChipExecute, hostVars
<1>5. calls \in Nat /\ executed \in Nat /\ job.id \in Nat
  BY DEF TypeOK, ItemType
<1>6. ~IsRequest(rx') /\ ~IsRequest(job')
  BY <1>2, <1>3, NothingIsNone DEF IsRequest
<1>7. IsRequest(job)
  BY DEF ChipExecute, IsRequest
<1>8. RequestInv'
  BY <1>1, <1>2, <1>4, <1>5, <1>6, <1>7 DEF RequestInv
<1> QED
  BY <1>1, <1>4, <1>5, <1>8 DEF ReplyMatchesRequest

\* The host has sent its request and goes on to wait for the answer.
LEMMA SendEndRequest ==
    ASSUME TypeOK, WindowInv, HandshakeInv, RequestInv, ReplyMatchesRequest,
           NEW from, from \in {"send.write", "send.rest"}, SendEnd(from)
    PROVE  RequestInv' /\ ReplyMatchesRequest'
<1>1. /\ hpc = from /\ hpc' = "recv.ack" /\ EndWindow(Received(Whole))
      /\ UNCHANGED <<calls, result, ack, executed>>
  BY DEF SendEnd
<1>2. Heard(Received(Whole)) /\ cs = "low"
  BY <1>1, SentHeard DEF HandshakeInv, InSend
<1>3. rx' \in {Nothing, Received(Whole)} /\ job' \in {Nothing, Received(Whole)}
  BY <1>1, <1>2, EndWindowInv DEF HandshakeInv
<1>4. ASSUME IsRequest(Received(Whole)) PROVE Received(Whole) = Whole
  BY <1>4, JunkIsJunk, NothingIsNone DEF Received, WindowInv
<1>5. executed < calls /\ executed \in Nat /\ calls \in Nat
  BY <1>1 DEF RequestInv, InSend, TypeOK
<1>6. \A r \in {Nothing, Received(Whole)} :
         r.kind # "reply" /\ (IsRequest(r) => r.id = calls)
  BY <1>2, <1>4, NothingIsNone, SentAreRequests DEF Heard
<1>7. RequestInv'
  BY <1>1, <1>3, <1>5, <1>6 DEF RequestInv, InSend, IsRequest
<1> QED
  BY <1>1, <1>7 DEF ReplyMatchesRequest

LEMMA RequestInductive ==
    ASSUME TypeOK, WindowInv, HandshakeInv, RequestInv, ReplyMatchesRequest, [Next]_vars
    PROVE  RequestInv' /\ ReplyMatchesRequest'
<1>1. hpc \in {"send.write", "send.rest", "recv.poll", "recv.header", "recv.body"}
      => Heard(rx) /\ Heard(Dummies) /\ Heard(Received(Part)) /\ Heard(Received(Whole))
  BY SentHeard DEF HandshakeInv, InSend, InRecv
<1>2. Pending(rx) /\ Pending(Nothing)
  BY NothingIsNone DEF Pending, RequestInv, WindowInv
<1>3. /\ Dummies = rx \/ ~IsRequest(Dummies)
      /\ Received(Part) = rx \/ Received(Part) = Part \/ ~IsRequest(Received(Part))
      /\ Received(Whole) = rx \/ Received(Whole) = Whole \/ ~IsRequest(Received(Whole))
  BY JunkIsJunk DEF Dummies, Received
<1>4. ASSUME NEW c, Begin(c) PROVE RequestInv' /\ ReplyMatchesRequest'
  BY <1>4, BeginRequest
<1>5. ASSUME NEW res, FailEarly(res), res # "Ok" PROVE RequestInv' /\ ReplyMatchesRequest'
  BY <1>5, QuietRequest DEF FailEarly, Return, chipVars, Idle
<1>6. CASE InitReset
  <2>1. /\ hpc' = "init.reset" /\ rx' = Nothing /\ job' = Nothing
        /\ UNCHANGED <<calls, executed, got, result>>
    BY <1>6 DEF InitReset
  <2>2. RequestInv'
    BY <2>1, NothingIsNone DEF RequestInv, InSend, IsRequest
  <2> QED
    BY <2>1, <2>2 DEF ReplyMatchesRequest
<1>7. CASE SendOpen \/ RecvOpen
  BY <1>7, QuietRequest DEF SendOpen, RecvOpen, OpenWindow
<1>8. CASE Select
  BY <1>8, QuietRequest DEF Select, chipVars
<1>9. CASE SendHeader
  <2>1. /\ hpc = "send.write" /\ hpc' = "send.rest" /\ rx' = Received(Part) /\ job' = Held
        /\ UNCHANGED <<calls, executed, got, result>>
    BY <1>9 DEF SendHeader
  <2>2. executed < calls /\ executed \in Nat /\ calls \in Nat
    BY <2>1 DEF RequestInv, InSend, TypeOK
  <2>3. IsRequest(rx') => executed < rx'.id /\ rx'.id <= calls
    BY <1>2, <1>3, <2>1, <2>2, SentAreRequests DEF Pending
  <2>4. job' \in {job, Nothing}
    BY <2>1 DEF Held
  <2>5. RequestInv'
    BY <2>1, <2>2, <2>3, <2>4, NothingIsNone DEF RequestInv, InSend, IsRequest
  <2> QED
    BY <2>1, <2>5 DEF ReplyMatchesRequest
<1>10. ASSUME NEW from, from \in {"send.write", "send.rest"}, SendEnd(from)
       PROVE  RequestInv' /\ ReplyMatchesRequest'
  BY <1>10, SendEndRequest
<1>11. CASE PollStart
  <2>1. /\ hpc = "recv.poll" /\ hpc' = "recv.header" /\ job.kind = "reply" /\ got' = job
        /\ job' = Nothing /\ UNCHANGED <<calls, executed, rx, result>>
    BY <1>11 DEF PollStart
  <2>2. RequestInv'
    BY <2>1, NothingIsNone DEF RequestInv, InSend, IsRequest
  <2> QED
    BY <2>1, <2>2 DEF ReplyMatchesRequest
<1>12. CASE PollErrCmd
  BY <1>1, <1>2, <1>12, FailInWindowRequest DEF PollErrCmd, InRecv
<1>13. hpc = "recv.poll" => Pending(Dummies)
  BY <1>1, <1>2, <1>3 DEF Pending, Heard
<1>14. CASE PollDummy
  <2>1. /\ hpc = "recv.poll" /\ rx' = Dummies
        /\ UNCHANGED <<hpc, calls, executed, got, job, result>>
    BY <1>14 DEF PollDummy
  <2>2. RequestInv'
    BY <1>3, <1>13, <2>1 DEF RequestInv, Pending, InSend
  <2> QED
    BY <2>1, <2>2 DEF ReplyMatchesRequest
<1>15. CASE PollTimeout
  BY <1>1, <1>13, <1>15, FailInWindowRequest DEF PollTimeout, InRecv
<1>16. CASE RecvHeader
  <2>1. CASE Header(call, got) = "body"
    BY <1>16, <2>1, QuietRequest DEF RecvHeader, chipVars
  <2>2. CASE Header(call, got) # "body"
    <3>1. call \in CallType
      BY DEF TypeOK
    <3>2. Header(call, got) # "Ok"
      BY <3>1, HeaderOutcome
    <3> QED
      BY <1>1, <1>2, <1>16, <2>2, <3>2, FailInWindowRequest DEF RecvHeader, InRecv
  <2> QED
    BY <2>1, <2>2
<1>17. CASE RecvBody
  <2>1. /\ hpc = "recv.body" /\ hpc' = "idle" /\ EndWindow(rx)
        /\ result'.id = got.id /\ UNCHANGED <<calls, got, ack, executed>>
    BY <1>17 DEF RecvBody, Return
  <2>2. rx' \in {Nothing, rx} /\ job' \in {Nothing, rx}
    BY <1>1, <2>1, EndWindowInv DEF HandshakeInv, InRecv
  <2>3. RequestInv'
    BY <1>2, <2>1, <2>2 DEF RequestInv, Pending, IsRequest, InSend
  <2>4. got.id = calls /\ executed = calls
    BY <2>1 DEF RequestInv
  <2> QED
    BY <2>1, <2>3, <2>4 DEF ReplyMatchesRequest
<1>18. CASE InitRelease \/ InitBoot
  BY <1>18, QuietRequest DEF InitRelease, InitBoot, chipVars, Idle
<1>29. ASSUME NEW r \in Clocked, hpc \in Transfers PROVE Heard(r) /\ Pending(r)
  <2>1. Heard(r)
    BY <1>1, <1>29 DEF Transfers, Clocked
  <2>2. CASE r \in {rx, Dummies}
    BY <1>2, <1>3, <2>1, <2>2 DEF Pending, Heard
  <2>3. CASE hpc \in {"send.write", "send.rest"} /\ r \in {Received(Part), Received(Whole)}
    <3>1. executed < calls /\ executed \in Nat /\ calls \in Nat
      BY <2>3 DEF RequestInv, InSend, TypeOK
    <3> QED
      BY <1>2, <1>3, <2>1, <2>3, <3>1, SentAreRequests DEF Pending, Heard
  <2> QED
    BY <1>29, <2>1, <2>2, <2>3 DEF Clocked
<1>19. CASE SendError \/ RecvError
  <2>1. PICK r \in Clocked : FailInWindow("Spi", r)
    BY <1>19 DEF SendError, RecvError
  <2>2. hpc \in Transfers /\ hpc \in InSend \cup InRecv
    BY <1>19 DEF SendError, RecvError, Transfers, InSend, InRecv
  <2> QED
    BY <1>29, <2>1, <2>2, FailInWindowRequest
<1>21. CASE Cancel
  <2>1. /\ hpc' = "idle" /\ UNCHANGED <<calls, executed, got>>
        /\ result' = result \/ result'.res # "Ok"
    BY <1>21 DEF Cancel
  <2>2. Pending(rx') /\ job' \in {job, Nothing}
    BY <1>2, <1>21, <1>29 DEF Cancel, Held
  <2>3. RequestInv'
    BY <2>1, <2>2, NothingIsNone DEF RequestInv, Pending, IsRequest, InSend
  <2> QED
    BY <2>1, <2>3 DEF ReplyMatchesRequest
<1>22. CASE InitRefused
  <2>1. /\ hpc' = "idle" /\ UNCHANGED <<calls, executed, got, result>>
        /\ rx' \in {Nothing, rx} /\ job' \in {Nothing, rx, job}
    BY <1>22 DEF InitRefused, CsRise
  <2>2. RequestInv'
    BY <1>2, <2>1, NothingIsNone DEF RequestInv, Pending, IsRequest, InSend
  <2> QED
    BY <2>1, <2>2 DEF ReplyMatchesRequest
<1>23. CASE InitPinError
  BY <1>23, QuietRequest DEF InitPinError, chipVars, Idle
<1>24. CASE ChipBusy
  BY <1>24, QuietRequest DEF ChipBusy, hostVars, chipVars
<1>25. CASE ChipExecute
  BY <1>25, ExecuteRequest
<1>26. CASE ChipReject
  <2>1. UNCHANGED <<hpc, calls, executed, rx, got, result>>
    BY <1>26 DEF ChipReject, hostVars
  <2>2. job'.kind \notin {"part", "whole", "reply"}
    BY <1>26, NothingIsNone DEF ChipReject, ArmReply, Item, IsRequest
  <2>3. RequestInv'
    BY <2>1, <2>2 DEF RequestInv, IsRequest
  <2> QED
    BY <2>1, <2>3 DEF ReplyMatchesRequest
<1>27. CASE ChipRearm \/ ChipBoot
  BY <1>27, QuietRequest DEF ChipRearm, ChipBoot, hostVars
<1>28. CASE UNCHANGED vars
  BY <1>28, QuietRequest DEF vars
<1> QED
  BY <1>4, <1>5, <1>6, <1>7, <1>8, <1>9, <1>10, <1>11, <1>12, <1>14, <1>15, <1>16, <1>17, <1>18,
     <1>19, <1>21, <1>22, <1>23, <1>24, <1>25, <1>26, <1>27, <1>28
     DEF Next, HostStep, Fault, ChipStep, Call, InitDisconnect, MixedOverflow, OpenError,
         SendRest, SendMixed

-----------------------------------------------------------------------------
LEMMA InitPairing == Init => PairingInv
<1> SUFFICES ASSUME Init PROVE PairingInv
  OBVIOUS
<1>1. WindowInv
  BY NothingIsNone DEF Init, WindowInv
<1>2. HandshakeInv
  BY DEF Init, HandshakeInv, InSend, InRecv
<1>3. job = Nothing \/ (job.kind = "reply" /\ job.id = 0)
  BY DEF Init, Item
<1>4. RequestInv
  BY <1>3, NothingIsNone DEF Init, RequestInv, InSend, IsRequest
<1> QED
  BY <1>1, <1>2, <1>4 DEF PairingInv, Init, ReplyMatchesRequest

LEMMA NextPairing ==
    ASSUME "lag" \notin Faults, "high" \notin Faults
    PROVE  TypeOK /\ PairingInv /\ [Next]_vars => PairingInv'
BY HandshakeInductive, RequestInductive DEF PairingInv

\* The invariant that ties the windows, the ACK handshake and the requests, for a
\* host that sees ACK HIGH before it clocks: no lag and no error of wait_for_high.
THEOREM PairingInvariant ==
    ASSUME "lag" \notin Faults, "high" \notin Faults
    PROVE  Spec => []PairingInv
<1>1. TypeOK /\ PairingInv /\ [Next]_vars => PairingInv'
  BY NextPairing
<1> QED
  BY <1>1, InitPairing, TypeCorrect, PTL DEF Spec

\* With a chip that raises ACK within ACK_AFTER_CS_MS, and as long as
\* ack.wait_for_high, whose error is discarded, does not fail, an operation that
\* returns Ok returns the chip's answer to its own request, which the chip has
\* carried out. Bus errors, errors of every other pin operation, dropped futures and
\* resets at any await change nothing. Both conditions are needed: without either an
\* earlier reply may be taken for the answer.
THEOREM AnswersMatch ==
    ASSUME "lag" \notin Faults, "high" \notin Faults
    PROVE  Spec => []ReplyMatchesRequest
<1>1. PairingInv => ReplyMatchesRequest
  BY DEF PairingInv
<1> QED
  BY <1>1, PairingInvariant, PTL

-----------------------------------------------------------------------------
(* Refinement of NinaRpc *)

\* An exchange that ends with an error is a failed call.
LEMMA ErrorIsFail ==
    ASSUME hpc \notin Idle, hpc' = "idle", result'.res \in Errors, UNCHANGED <<calls, executed>>
    PROVE  Rpc!Next
BY DEF Rpc!Next, Rpc!Fail, Idle

LEMMA QuietIsStutter ==
    ASSUME hpc' \in Idle <=> hpc \in Idle, UNCHANGED <<calls, executed, result>>
    PROVE  UNCHANGED Rpc!rpcVars
BY DEF Rpc!rpcVars

LEMMA BeginIsRequest ==
    ASSUME NEW c, Begin(c)
    PROVE  Rpc!Next
BY DEF Begin, chipVars, Rpc!Next, Rpc!Request, Idle

LEMMA StepSimulation ==
    ASSUME TypeOK, PairingInv, PairingInv', [Next]_vars
    PROVE  [Rpc!Next]_(Rpc!rpcVars)
<1> USE DEF Idle, Errors
<1>1. ASSUME NEW c, Begin(c) PROVE Rpc!Next
  BY <1>1, BeginIsRequest
<1>2. ASSUME NEW res \in Errors, FailEarly(res), hpc \notin Idle PROVE Rpc!Next
  BY <1>2, ErrorIsFail DEF FailEarly, Return, chipVars
<1>3. ASSUME NEW res \in Errors, NEW r, FailInWindow(res, r), hpc \notin Idle PROVE Rpc!Next
  BY <1>3, ErrorIsFail DEF FailInWindow, Return
<1>4. CASE MixedOverflow \/ OpenError
  BY <1>2, <1>4 DEF MixedOverflow, OpenError
<1>5. CASE PollErrCmd \/ PollTimeout \/ SendError \/ RecvError
  BY <1>3, <1>5 DEF PollErrCmd, PollTimeout, SendError, RecvError
<1>6. CASE RecvHeader
  <2>1. CASE Header(call, got) = "body"
    BY <1>6, <2>1, QuietIsStutter DEF RecvHeader, chipVars
  <2>2. CASE Header(call, got) # "body"
    <3>1. call \in CallType
      BY DEF TypeOK
    <3>2. Header(call, got) \in Errors
      BY <2>2, <3>1, HeaderOutcome
    <3> QED
      BY <1>3, <1>6, <2>2, <3>2 DEF RecvHeader
  <2> QED
    BY <2>1, <2>2
<1>7. CASE RecvBody
  <2>1. /\ hpc = "recv.body" /\ hpc' = "idle" /\ UNCHANGED <<calls, executed>>
        /\ result'.res = Decode(call, got.shape)
    BY <1>7 DEF RecvBody, Return
  <2>2. CASE result'.res = "Ok"
    <3>1. executed = calls
      BY <2>1 DEF PairingInv, RequestInv
    <3> QED
      BY <2>1, <2>2, <3>1 DEF Rpc!Next, Rpc!Succeed
  <2>3. CASE result'.res # "Ok"
    <3>1. result'.res \in Errors
      BY <2>1, <2>3, DecodeOutcome
    <3> QED
      BY <2>1, <3>1, ErrorIsFail
  <2> QED
    BY <2>2, <2>3
<1>8. CASE SendOpen \/ RecvOpen \/ Select
  BY <1>8, QuietIsStutter DEF SendOpen, RecvOpen, OpenWindow, Select, chipVars
<1>9. CASE SendHeader \/ SendRest \/ SendMixed
  BY <1>9, QuietIsStutter DEF SendHeader, SendRest, SendMixed, SendEnd
<1>10. CASE PollStart \/ PollDummy
  BY <1>10, QuietIsStutter DEF PollStart, PollDummy
<1>11. CASE InitReset \/ InitRelease \/ InitBoot \/ InitRefused \/ InitPinError
  BY <1>11, QuietIsStutter DEF InitReset, InitRelease, InitBoot, InitRefused, InitPinError, chipVars
<1>12. CASE Cancel
  <2>1. CASE hpc \in Idle
    BY <1>12, <2>1, QuietIsStutter DEF Cancel
  <2>2. CASE hpc \notin Idle
    BY <1>12, <2>2, ErrorIsFail DEF Cancel
  <2> QED
    BY <2>1, <2>2
<1>13. CASE ChipExecute
  <2>1. executed < job.id /\ job.id <= calls /\ executed' = job.id
    BY <1>13 DEF ChipExecute, PairingInv, RequestInv, IsRequest
  <2>2. executed \in Nat /\ calls \in Nat /\ job.id \in Nat
    BY DEF TypeOK, ItemType
  <2>3. executed' \in (executed + 1)..calls
    BY <2>1, <2>2
  <2>4. UNCHANGED <<hpc, calls, result>>
    BY <1>13 DEF ChipExecute, hostVars
  <2> QED
    BY <2>3, <2>4 DEF Rpc!Next, Rpc!Execute
<1>14. CASE ChipBusy \/ ChipReject \/ ChipRearm \/ ChipBoot
  BY <1>14, QuietIsStutter DEF ChipBusy, ChipReject, ChipRearm, ChipBoot, hostVars, chipVars
<1>15. CASE UNCHANGED vars
  BY <1>15, QuietIsStutter DEF vars
<1> QED
  BY <1>1, <1>4, <1>5, <1>6, <1>7, <1>8, <1>9, <1>10, <1>11, <1>12, <1>13, <1>14, <1>15
     DEF Next, HostStep, Fault, ChipStep, Call, InitDisconnect

\* Under the same two conditions the exchanges implement at-most-once calls: a
\* request is carried out at most once and in order, and Ok means that the chip has
\* just carried it out.
THEOREM LinkImplementsRpc ==
    ASSUME "lag" \notin Faults, "high" \notin Faults
    PROVE  Spec => ImplementsRpc
<1>1. Init => Rpc!Init
  BY DEF Init, Rpc!Init, Idle
<1>2. TypeOK /\ PairingInv /\ PairingInv' /\ [Next]_vars => [Rpc!Next]_(Rpc!rpcVars)
  BY StepSimulation
<1> QED
  BY <1>1, <1>2, TypeCorrect, PairingInvariant, PTL DEF Spec, ImplementsRpc, Rpc!Spec

=============================================================================
