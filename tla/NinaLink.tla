------------------------------ MODULE NinaLink ------------------------------
(***************************************************************************)
(* One host and one NINA chip on an SPI bus: the transaction layer of      *)
(* driver.rs (send_cmd, send_cmd_mixed, the recv_cmd functions and init).  *)
(*                                                                         *)
(* Every exchange takes two chip-select windows, one that carries the      *)
(* command and one in which the host clocks the reply out.  The host has   *)
(* no other view of the chip than the ACK pin (LOW = ready).  A step of    *)
(* the host runs from one await to the next.                               *)
(*                                                                         *)
(* The chip is external.  What is assumed of it is what the driver relies  *)
(* on: it serves one window at a time, in turn a command and its reply; a  *)
(* window it is armed for ends when CS rises, and what the host has not    *)
(* read of a reply by then is gone (the error returns of the receive       *)
(* functions leave the rest of the frame unread and the next command is    *)
(* expected to work); it lowers ACK when it is armed.                      *)
(***************************************************************************)
EXTENDS NinaOps

CONSTANTS
    Calls,              \* the exchanges the callers may ask for
    Shapes,             \* the reply shapes the chip may produce
    Faults,             \* which kinds of faults occur
    StartTimeoutIters,  \* START_TIMEOUT_ITERS
    MaxCalls            \* bound on the number of exchanges

\* "pin":    set_low, set_high or ack.wait_for_low returns an error
\* "high":   ack.wait_for_high returns an error, which nobody looks at
\* "spi":    a bus transfer returns an error
\* "cancel": a caller drops the future of an operation at an await
\* "lag":    ACK may still be LOW when the ACK_AFTER_CS_MS timer fires
FaultKinds == {"pin", "high", "spi", "cancel", "lag"}

RecvKinds == {"one", "one16", "into"}

CallType ==
    [cmd : 1..127, mixed : BOOLEAN, params : Seq(Nat), recv : RecvKinds, out : Nat,
     lens : SUBSET Nat, value : Values]

ShapeType == [lens : Seq(Nat), end : BOOLEAN, good : BOOLEAN]

ASSUME CallsAssumption == \A c \in Calls : c \in CallType
ASSUME ShapesAssumption == \A s \in Shapes : s \in ShapeType
ASSUME FaultsAssumption == Faults \subseteq FaultKinds
ASSUME BoundsAssumption == StartTimeoutIters \in Nat \ {0} /\ MaxCalls \in Nat

NoShape == [lens |-> <<>>, end |-> FALSE, good |-> FALSE]

\* What travels: a command being received, a command being handled, a reply.
Item(kind, id, cmd, shape) == [kind |-> kind, id |-> id, cmd |-> cmd, shape |-> shape]

Nothing == Item("none", 0, 0, NoShape)

VARIABLES
    hpc,       \* where the host is
    call,      \* the exchange in progress, or the last one
    calls,     \* how many exchanges were begun; the id of the current one
    polls,     \* DUMMY bytes clocked while waiting for START_CMD
    todo,      \* disconnects init has still to issue
    got,       \* the reply whose START_CMD the host has seen
    result,    \* outcome of the last exchange
    cs, ack,   \* levels of the two pins
    chip,      \* "off", "boot", "cmd": armed for a command, "busy", "rep": armed with a reply, "done"
    engaged,   \* the chip was armed when CS fell: this window is served
    rx,        \* what the chip has received in this window
    job,       \* the command it handles, or the reply it holds
    executed   \* id of the last command the chip carried out

hostVars == <<hpc, call, calls, polls, todo, got, result>>
chipVars == <<chip, engaged, rx, job, executed>>
vars == <<hpc, call, calls, polls, todo, got, result, cs, ack, chip, engaged, rx, job, executed>>

Idle == {"new", "idle", "init.reset", "init.boot"}

\* Where the host is in the middle of a bus transfer.
Transfers == {"send.write", "send.rest", "recv.poll", "recv.header", "recv.body"}

HostStates == Idle \cup Transfers \cup {"send.ack", "send.select", "recv.ack", "recv.select"}

Errors == {"Spi", "Pin", "Framing", "Nina", "Timeout", "BufferTooSmall", "Cancelled"}

\* At power-up, or when the host was flashed while the chip kept running and
\* still holds the reply to a command of the previous program.
Init ==
    /\ hpc = "new"
    /\ call = disconnect
    /\ calls = 0
    /\ polls = 0
    /\ todo = 0
    /\ got = Nothing
    /\ result = [res |-> "none", id |-> 0]
    /\ cs = "high"
    /\ ack = "low"
    /\ \/ chip = "cmd" /\ job = Nothing
       \/ chip = "rep" /\ \E s \in Shapes : job = Item("reply", 0, ReplyByte(disconnect.cmd), s)
    /\ engaged = FALSE
    /\ rx = Nothing
    /\ executed = 0

-----------------------------------------------------------------------------
(* Pins and windows *)

\* cs.set_low(): a falling edge opens a window, which the chip serves if it is
\* armed.  There is no edge when CS was left LOW.
CsFall ==
    /\ cs' = "low"
    /\ engaged' = IF cs = "high" THEN chip \in {"cmd", "rep"} ELSE engaged

\* cs.set_high(): the rising edge ends the window.  A served command window
\* hands what was received to the firmware, a served reply window drops the
\* reply.  r is what the window has brought the chip.
CsRise(r) ==
    /\ cs' = "high"
    /\ engaged' = FALSE
    /\ rx' = Nothing
    /\ \/ /\ ~engaged
          /\ UNCHANGED <<chip, job>>
       \/ /\ engaged /\ chip = "cmd" /\ r # Nothing
          /\ chip' = "busy" /\ job' = r
       \/ /\ engaged /\ (chip = "rep" \/ r = Nothing)
          /\ chip' = "done" /\ job' = Nothing

\* A reply that the host does not read is clocked out all the same.
Held == IF engaged /\ chip = "rep" THEN Nothing ELSE job

\* `let _ = self.cs.set_high()`: an error of the pin is ignored and CS stays LOW.
EndWindow(r) ==
    \/ CsRise(r)
    \/ /\ "pin" \in Faults
       /\ rx' = r
       /\ job' = Held
       /\ UNCHANGED <<cs, engaged, chip>>

\* The exchange returns to its caller.
Return(res, id) ==
    /\ hpc' = "idle"
    /\ result' = [res |-> res, id |-> id]
    /\ UNCHANGED <<call, calls, polls, todo>>

\* An error return taken before a window is open.
FailEarly(res) ==
    /\ Return(res, 0)
    /\ UNCHANGED <<got, cs, ack>>
    /\ UNCHANGED chipVars

\* Faulty variant: `?` inside the window skips cs.set_high().
FailInWindow_NoRaise(res, r) ==
    /\ Return(res, 0)
    /\ rx' = r
    /\ job' = Held
    /\ UNCHANGED <<got, cs, ack, chip, engaged, executed>>

\* A return from inside a window, by way of cs.set_high().
FailInWindow(res, r) ==
    /\ Return(res, 0)
    /\ EndWindow(r)
    /\ UNCHANGED <<got, ack, executed>>

-----------------------------------------------------------------------------
(* The host: a command exchange *)

\* An exchange begins.
Begin(c) ==
    /\ hpc = "idle"
    /\ hpc' = "send.ack"
    /\ call' = c
    /\ calls' = calls + 1
    /\ result' = [res |-> "none", id |-> 0]
    /\ UNCHANGED <<polls, got, cs, ack>>
    /\ UNCHANGED chipVars

\* A caller asks for one.
Call(c) ==
    /\ todo = 0
    /\ calls < MaxCalls
    /\ Begin(c)
    /\ UNCHANGED todo

\* send_cmd_mixed builds the frame before it touches a pin.
MixedOverflow ==
    /\ hpc = "send.ack"
    /\ call.mixed /\ ~MixedFits(call)
    /\ FailEarly("BufferTooSmall")

\* Faulty variant: CS falls without ack.wait_for_low().
OpenWindow_NoWait(from, to) ==
    /\ hpc = from
    /\ hpc' = to
    /\ CsFall
    /\ UNCHANGED <<call, calls, polls, todo, got, result, ack, chip, rx, job, executed>>

\* ack.wait_for_low() and cs.set_low(), at the head of every window.
OpenWindow(from, to) ==
    /\ hpc = from
    /\ ack = "low"
    /\ hpc' = to
    /\ CsFall
    /\ UNCHANGED <<call, calls, polls, todo, got, result, ack, chip, rx, job, executed>>

SendOpen ==
    /\ call.mixed => MixedFits(call)
    /\ OpenWindow("send.ack", "send.select")

RecvOpen == OpenWindow("recv.ack", "recv.select")

\* A pin error in wait_for_low or set_low returns at once.
OpenError ==
    /\ "pin" \in Faults
    /\ hpc = "recv.ack" \/ (hpc = "send.ack" /\ (call.mixed => MixedFits(call)))
    /\ FailEarly("Pin")

\* let _ = select(ack.wait_for_high(), 5 ms): either ends the wait, and so does an
\* error of the pin, which is dropped with the result.  A chip that serves the
\* window raises ACK in time unless it lags.
Select ==
    /\ hpc \in {"send.select", "recv.select"}
    /\ ack = "high" \/ ~engaged \/ Faults \cap {"lag", "high"} # {}
    /\ hpc' = IF hpc = "send.select" THEN "send.write" ELSE "recv.poll"
    /\ polls' = 0
    /\ UNCHANGED <<call, calls, todo, got, result, cs, ack>>
    /\ UNCHANGED chipVars

\* What the chip has received once the host has clocked item r into the window:
\* only a command window listens, and a second command in it makes garbage.
Received(r) ==
    IF ~engaged \/ chip # "cmd" THEN rx
    ELSE IF rx = Nothing \/ (rx.kind = "part" /\ rx.id = r.id) THEN r
    ELSE Item("junk", 0, 0, NoShape)

Part == Item("part", calls, CmdByte(call.cmd), NoShape)
Whole == IF Intact(call) THEN Item("whole", calls, CmdByte(call.cmd), NoShape) ELSE Part

\* send_cmd writes the header, the parameters, END_CMD and the padding with a
\* bus.write each; the frame is incomplete in between.
SendHeader ==
    /\ hpc = "send.write" /\ ~call.mixed
    /\ hpc' = "send.rest"
    /\ rx' = Received(Part)
    /\ job' = Held
    /\ UNCHANGED <<call, calls, polls, todo, got, result, cs, ack, chip, engaged, executed>>

\* Faulty variant: a command whose answer does not matter is sent and left alone.
SendEnd_NoReply(from) ==
    /\ hpc = from
    /\ Return("none", 0)
    /\ EndWindow(Received(Whole))
    /\ UNCHANGED <<got, ack, executed>>

\* Faulty variant: CS is not raised between the command and the wait for its reply.
SendEnd_NoRaise(from) ==
    /\ hpc = from
    /\ hpc' = "recv.ack"
    /\ rx' = Received(Whole)
    /\ job' = Held
    /\ UNCHANGED <<call, calls, polls, todo, got, result, cs, ack, chip, engaged, executed>>

\* The last write, and cs.set_high(); the exchange goes on to the reply.
SendEnd(from) ==
    /\ hpc = from
    /\ hpc' = "recv.ack"
    /\ EndWindow(Received(Whole))
    /\ UNCHANGED <<call, calls, polls, todo, got, result, ack, executed>>

SendRest == SendEnd("send.rest")

\* send_cmd_mixed clocks the frame out with a single bus.write.
SendMixed == call.mixed /\ SendEnd("send.write")

\* The host's own DUMMY bytes are garbage to a chip that is armed for a command.
Dummies == Received(Item("junk", 0, 0, NoShape))

\* What the window may hold when a transfer stops anywhere: nothing new, part of a
\* frame, or all of it but the padding.
Clocked ==
    CASE hpc \in {"send.write", "send.rest"} -> {rx, Received(Part), Received(Whole)}
      [] hpc = "recv.poll" -> {rx, Dummies}
      [] OTHER -> {rx}

\* Faulty variant: the error of a bus.write is returned at once, CS still LOW.
SendError_NoRaise ==
    /\ "spi" \in Faults
    /\ hpc \in {"send.write", "send.rest"}
    /\ Return("Spi", 0)
    /\ job' = Held
    /\ UNCHANGED <<got, cs, ack, chip, engaged, rx, executed>>

\* A bus error ends the frame early (or only its padding) and the exchange.
SendError ==
    /\ "spi" \in Faults
    /\ hpc \in {"send.write", "send.rest"}
    /\ \E r \in Clocked : FailInWindow("Spi", r)

\* One transfer of the START_CMD loop.
PollStart ==
    /\ hpc = "recv.poll"
    /\ engaged /\ chip = "rep" /\ job.kind = "reply"
    /\ hpc' = "recv.header"
    /\ got' = job
    /\ job' = Nothing
    /\ UNCHANGED <<call, calls, polls, todo, result, cs, ack, chip, engaged, rx, executed>>

PollErrCmd ==
    /\ hpc = "recv.poll"
    /\ engaged /\ chip = "rep" /\ job.kind = "err"
    /\ FailInWindow("Nina", rx)

\* Faulty variant: one transfer too many.
PollDummy_OneMore ==
    /\ hpc = "recv.poll"
    /\ polls + 1 <= StartTimeoutIters
    /\ polls' = polls + 1
    /\ rx' = Dummies
    /\ UNCHANGED <<hpc, call, calls, todo, got, result, cs, ack, chip, engaged, job, executed>>

\* Faulty variant: the transfers are not counted.
PollDummy_Endless ==
    /\ hpc = "recv.poll"
    /\ rx' = Dummies
    /\ UNCHANGED <<hpc, call, calls, polls, todo, got, result, cs, ack, chip, engaged, job,
                   executed>>

PollDummy ==
    /\ hpc = "recv.poll"
    /\ polls + 1 < StartTimeoutIters
    /\ polls' = polls + 1
    /\ rx' = Dummies
    /\ UNCHANGED <<hpc, call, calls, todo, got, result, cs, ack, chip, engaged, job, executed>>

\* Faulty variant: no START_CMD is taken for an empty answer.
PollTimeout_Ok ==
    /\ hpc = "recv.poll"
    /\ polls + 1 = StartTimeoutIters
    /\ FailInWindow("Ok", Dummies)

PollTimeout ==
    /\ hpc = "recv.poll"
    /\ polls + 1 = StartTimeoutIters
    /\ FailInWindow("Timeout", Dummies)

\* The reply header decides: go on to the payload, or return with the rest of
\* the frame unread.
RecvHeader ==
    /\ hpc = "recv.header"
    /\ \/ /\ Header(call, got) = "body"
          /\ hpc' = "recv.body"
          /\ UNCHANGED <<call, calls, polls, todo, got, result, cs, ack>>
          /\ UNCHANGED chipVars
       \/ /\ Header(call, got) # "body"
          /\ FailInWindow(Header(call, got), rx)

\* Payload and END_CMD; the method then looks at what it was given.
RecvBody ==
    /\ hpc = "recv.body"
    /\ Return(Decode(call, got.shape), got.id)
    /\ EndWindow(rx)
    /\ UNCHANGED <<got, ack, executed>>

RecvError ==
    /\ "spi" \in Faults
    /\ hpc \in {"recv.poll", "recv.header", "recv.body"}
    /\ \E r \in Clocked : FailInWindow("Spi", r)

\* The caller drops the future: nothing runs after the await, CS stays as it is.
\* A transfer that was under way may have clocked its bytes or not.
Cancel ==
    /\ "cancel" \in Faults
    /\ hpc \notin {"new", "idle"} \/ (hpc = "idle" /\ todo > 0)
    /\ hpc' = "idle"
    /\ todo' = 0
    /\ result' = IF hpc \in Idle THEN result ELSE [res |-> "Cancelled", id |-> 0]
    /\ \/ UNCHANGED <<rx, job>>
       \/ hpc \in Transfers /\ rx' \in Clocked /\ job' = Held
    /\ UNCHANGED <<call, calls, polls, got, cs, ack, chip, engaged, executed>>

-----------------------------------------------------------------------------
(* The host: init *)

\* GPIO0 and CS HIGH, RESETN LOW: the chip loses what it was doing, and nothing
\* drives ACK until it has booted.
InitReset ==
    /\ hpc \in {"new", "idle"} /\ todo = 0
    /\ calls + 3 <= MaxCalls
    /\ hpc' = "init.reset"
    /\ cs' = "high"
    /\ chip' = "off"
    /\ engaged' = FALSE
    /\ rx' = Nothing
    /\ job' = Nothing
    /\ ack' \in {"low", "high"}
    /\ UNCHANGED <<call, calls, polls, todo, got, result, executed>>

\* RESETN HIGH after RESET_LOW_MS: the chip boots.
InitRelease ==
    /\ hpc = "init.reset"
    /\ hpc' = "init.boot"
    /\ chip' = "boot"
    /\ UNCHANGED <<call, calls, polls, todo, got, result, cs, ack, engaged, rx, job, executed>>

\* GPIO0 LOW after RESET_BOOT_MS, which the chip boots within; three disconnects
\* are still to come.
InitBoot ==
    /\ hpc = "init.boot"
    /\ chip # "boot"
    /\ hpc' = "idle"
    /\ todo' = 3
    /\ UNCHANGED <<call, calls, polls, got, result, cs, ack>>
    /\ UNCHANGED chipVars

\* One of the disconnects; init ignores how it ends.
InitDisconnect ==
    /\ todo > 0
    /\ todo' = todo - 1
    /\ Begin(disconnect)

\* GPIO0, CS or RESETN cannot be driven: init returns Error::Pin before the
\* pulse, with CS raised if only RESETN failed.
InitRefused ==
    /\ "pin" \in Faults
    /\ hpc \in {"new", "idle"} /\ todo = 0
    /\ hpc' = "idle"
    /\ \/ CsRise(rx)
       \/ UNCHANGED <<cs, engaged, rx, chip, job>>
    /\ UNCHANGED <<call, calls, polls, todo, got, result, ack, executed>>

\* RESETN cannot be driven HIGH, and the chip is held in reset, or GPIO0 cannot be
\* driven LOW once it has booted: init returns Error::Pin.
InitPinError ==
    /\ "pin" \in Faults
    /\ hpc = "init.reset" \/ (hpc = "init.boot" /\ chip # "boot")
    /\ hpc' = "idle"
    /\ UNCHANGED <<call, calls, polls, todo, got, result, cs, ack>>
    /\ UNCHANGED chipVars

-----------------------------------------------------------------------------
(* The chip *)

\* The firmware notices the window and turns ACK to busy.
ChipBusy ==
    /\ ack = "low"
    /\ engaged \/ chip \in {"busy", "done"}
    /\ ack' = "high"
    /\ UNCHANGED <<cs>>
    /\ UNCHANGED hostVars
    /\ UNCHANGED chipVars

ArmReply(r) ==
    /\ chip' = "rep"
    /\ job' = r

\* It carries the command out and arms the reply.  A truncated frame may be
\* carried out as well.
ChipExecute ==
    /\ chip = "busy" /\ job.kind \in {"part", "whole"}
    /\ executed' = job.id
    /\ \/ \E s \in Shapes : ArmReply(Item("reply", job.id, ReplyByte(job.cmd), s))
       \/ ArmReply(Item("err", job.id, 0, NoShape))
    /\ ack' = "low"
    /\ UNCHANGED <<cs, engaged, rx>>
    /\ UNCHANGED hostVars

\* What is not a command is answered by an ERR_CMD frame or ignored.
ChipReject ==
    /\ chip = "busy" /\ job.kind \in {"junk", "part"}
    /\ \/ ArmReply(Item("err", job.id, 0, NoShape))
       \/ chip' = "cmd" /\ job' = Nothing
    /\ ack' = "low"
    /\ UNCHANGED <<cs, engaged, rx, executed>>
    /\ UNCHANGED hostVars

\* After a reply window it arms for the next command.
ChipRearm ==
    /\ chip = "done"
    /\ chip' = "cmd"
    /\ ack' = "low"
    /\ UNCHANGED <<cs, engaged, rx, job, executed>>
    /\ UNCHANGED hostVars

\* The chip has booted, whether or not init still waits for it.
ChipBoot ==
    /\ chip = "boot"
    /\ chip' = "cmd"
    /\ ack' = "low"
    /\ UNCHANGED <<cs, engaged, rx, job, executed>>
    /\ UNCHANGED hostVars

-----------------------------------------------------------------------------
HostStep ==
    \/ MixedOverflow \/ SendOpen \/ Select \/ SendHeader \/ SendRest \/ SendMixed
    \/ RecvOpen \/ PollStart \/ PollErrCmd \/ PollDummy \/ PollTimeout
    \/ RecvHeader \/ RecvBody \/ InitRelease \/ InitBoot \/ InitDisconnect

Fault == OpenError \/ SendError \/ RecvError \/ Cancel \/ InitRefused \/ InitPinError

ChipStep == ChipBusy \/ ChipExecute \/ ChipReject \/ ChipRearm \/ ChipBoot

Next ==
    \/ \E c \in Calls : Call(c)
    \/ InitReset
    \/ HostStep
    \/ Fault
    \/ ChipStep

Spec == Init /\ [][Next]_vars

\* The executor polls a future that can go on, and the firmware finishes what
\* it does.  Nothing makes a caller start or drop an operation.
FairSpec ==
    /\ Spec
    /\ WF_vars(HostStep)
    /\ WF_vars(ChipBusy)
    /\ WF_vars(ChipExecute \/ ChipReject \/ ChipRearm \/ ChipBoot)

-----------------------------------------------------------------------------
(* Properties *)

ItemType ==
    [kind : {"none", "part", "whole", "junk", "reply", "err"}, id : Nat, cmd : Nat,
     shape : ShapeType]

TypeOK ==
    /\ hpc \in HostStates
    /\ call \in CallType
    /\ calls \in Nat
    /\ polls \in 0..(StartTimeoutIters - 1)
    /\ todo \in 0..3
    /\ got \in ItemType
    /\ result \in [res : Errors \cup {"none", "Ok"}, id : Nat]
    /\ cs \in {"low", "high"} /\ ack \in {"low", "high"}
    /\ chip \in {"off", "boot", "cmd", "busy", "rep", "done"}
    /\ engaged \in BOOLEAN
    /\ rx \in ItemType
    /\ job \in ItemType
    /\ executed \in Nat

\* The value a method returns as Ok was produced by the chip for this very
\* request, never for an earlier one whose future was dropped or that failed
\* half-way: the host may not send before the chip is done with what came before
\* (wait_for_low before every window), for the reply header only tells apart
\* requests with different opcodes.
ReplyMatchesRequest == result.res = "Ok" => result.id = calls /\ executed = calls

\* A command window always meets a chip that is armed for a command, and a reply
\* window one that holds the reply: whichever way the exchanges before it ended
\* (ERR_CMD, wrong opcode, buffer too small, no START_CMD), they left the two
\* sides in the same phase.
WindowsInPhase ==
    /\ hpc \in {"send.select", "send.write", "send.rest"} => engaged /\ chip = "cmd"
    /\ hpc \in {"recv.select", "recv.poll"} => engaged /\ chip = "rep"

\* Between operations CS is HIGH, as the pin table of Nina says: no error path
\* returns with the window open.
CsIdleHigh == hpc = "idle" => cs = "high"

\* ack.wait_for_low() has no timeout, so it must not be called when nothing makes
\* the pin fall: whenever the host waits and ACK is HIGH, the firmware has a
\* command to handle or a finished reply to clear away, after which it lowers ACK;
\* it does not itself wait for the host to end a window.
AckComesBack ==
    hpc \in {"send.ack", "recv.ack"} /\ ack = "high" =>
        \/ chip = "busy" /\ job.kind \in {"part", "whole", "junk"}
        \/ chip = "done"

\* Every operation the caller waits for returns, init with its disconnects
\* included: neither the wait for ACK nor the search for START_CMD is endless as
\* long as the firmware finishes what it has begun.
OperationsReturn == (hpc \notin {"new", "idle"} \/ todo > 0) ~> (hpc = "idle" /\ todo = 0)

\* The exchanges implement the remote procedure calls of NinaRpc.
Rpc == INSTANCE NinaRpc WITH
           status <- IF hpc \in Idle THEN "idle" ELSE "pending",
           outcome <- result.res

\* Every request returns once, as Ok only when the chip has carried it out after
\* all the earlier ones it carried out at all, and the chip carries out no
\* request twice, whatever errors, cancellations and resets come in between.
ImplementsRpc == Rpc!Spec

=============================================================================
