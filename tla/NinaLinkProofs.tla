--------------------------- MODULE NinaLinkProofs ---------------------------
(***************************************************************************)
(* Proofs about NinaLink, for every set of calls, reply shapes and faults  *)
(* and for every bound: types, that every return of an exchange raises CS, *)
(* and that without faults host and chip stay in phase whatever the chip   *)
(* answers.                                                                *)
(***************************************************************************)
EXTENDS NinaLink, TLAPS

-----------------------------------------------------------------------------
(* Types *)

Kinds == {"none", "part", "whole", "junk", "reply", "err"}

LEMMA ItemInType ==
    ASSUME NEW kind \in Kinds, NEW id \in Nat, NEW cmd \in Nat, NEW shape \in ShapeType
    PROVE  Item(kind, id, cmd, shape) \in ItemType
BY DEF Item, ItemType, Kinds

LEMMA NoShapeInType == NoShape \in ShapeType
BY DEF NoShape, ShapeType

LEMMA NothingInType == Nothing \in ItemType
BY ItemInType, NoShapeInType DEF Nothing, Kinds

LEMMA JunkInType == Item("junk", 0, 0, NoShape) \in ItemType
BY ItemInType, NoShapeInType DEF Kinds

LEMMA DisconnectInType == disconnect \in CallType
<1>1. 0..1 \in SUBSET Nat
  OBVIOUS
<1>2. <<1>> \in Seq(Nat)
  OBVIOUS
<1>3. Opcode.DISCONNECT = 48
  BY DEF Opcode
<1> QED
  BY <1>1, <1>2, <1>3 DEF disconnect, Get, Exchange, CallType, RecvKinds, Values

LEMMA BytesInNat ==
    ASSUME NEW cmd \in Nat
    PROVE  CmdByte(cmd) \in Nat /\ ReplyByte(cmd) \in Nat
BY DEF CmdByte, ReplyByte

LEMMA SentInType ==
    ASSUME TypeOK
    PROVE  Part \in ItemType /\ Whole \in ItemType
<1>0. call \in CallType /\ calls \in Nat
  BY DEF TypeOK
<1>1. call.cmd \in Nat /\ calls \in Nat
  <2>1. call.cmd \in 1..127
    BY <1>0, Zenon DEF CallType
  <2> QED
    BY <1>0, <2>1
<1>2. CmdByte(call.cmd) \in Nat
  BY <1>1, BytesInNat
<1> QED
  BY <1>1, <1>2, ItemInType, NoShapeInType DEF Part, Whole, Kinds

LEMMA ReceivedInType ==
    ASSUME TypeOK, NEW r \in ItemType
    PROVE  Received(r) \in ItemType
BY JunkInType DEF Received, TypeOK

LEMMA HeldInType ==
    ASSUME TypeOK
    PROVE  Held \in ItemType
BY NothingInType DEF Held, TypeOK

LEMMA CsRiseType ==
    ASSUME TypeOK, NEW r \in ItemType, CsRise(r)
    PROVE  /\ cs' \in {"low", "high"} /\ engaged' \in BOOLEAN /\ rx' \in ItemType
           /\ chip' \in {"off", "boot", "cmd", "busy", "rep", "done"} /\ job' \in ItemType
BY NothingInType DEF CsRise, TypeOK

LEMMA EndWindowType ==
    ASSUME TypeOK, NEW r \in ItemType, EndWindow(r)
    PROVE  /\ cs' \in {"low", "high"} /\ engaged' \in BOOLEAN /\ rx' \in ItemType
           /\ chip' \in {"off", "boot", "cmd", "busy", "rep", "done"} /\ job' \in ItemType
<1>1. CASE CsRise(r)
  BY <1>1, CsRiseType
<1>2. CASE "pin" \in Faults /\ rx' = r /\ job' = Held /\ UNCHANGED <<cs, engaged, chip>>
  BY <1>2, HeldInType DEF TypeOK
<1> QED
  BY <1>1, <1>2 DEF EndWindow

LEMMA ClockedInType ==
    ASSUME TypeOK
    PROVE  \A r \in Clocked : r \in ItemType
<1>1. /\ rx \in ItemType /\ Received(Part) \in ItemType /\ Received(Whole) \in ItemType
      /\ Dummies \in ItemType
  BY SentInType, ReceivedInType, JunkInType DEF TypeOK, Dummies
<1> QED
  BY <1>1 DEF Clocked

Outcomes == Errors \cup {"none", "Ok"}

LEMMA ReturnType ==
    ASSUME TypeOK, NEW res \in Outcomes, NEW id \in Nat, Return(res, id)
    PROVE  /\ hpc' \in HostStates /\ call' \in CallType /\ calls' \in Nat
           /\ polls' \in 0..(StartTimeoutIters - 1) /\ todo' \in 0..3
           /\ result' \in [res : Outcomes, id : Nat]
BY DEF Return, TypeOK, HostStates, Idle

LEMMA FailEarlyType ==
    ASSUME TypeOK, NEW res \in Outcomes, FailEarly(res)
    PROVE  TypeOK'
BY ReturnType DEF FailEarly, TypeOK, chipVars, Outcomes

LEMMA FailInWindowType ==
    ASSUME TypeOK, NEW res \in Outcomes, NEW r \in ItemType, FailInWindow(res, r)
    PROVE  TypeOK'
BY ReturnType, EndWindowType DEF FailInWindow, TypeOK, Outcomes

LEMMA BeginType ==
    ASSUME TypeOK, NEW c \in CallType, Begin(c), todo' \in 0..3
    PROVE  TypeOK'
BY DEF Begin, TypeOK, chipVars, HostStates

LEMMA OpenWindowType ==
    ASSUME TypeOK, NEW from, NEW to \in HostStates, OpenWindow(from, to)
    PROVE  TypeOK'
<1>1. engaged' \in BOOLEAN
  <2>1. engaged' = IF cs = "high" THEN chip \in {"cmd", "rep"} ELSE engaged
    BY DEF OpenWindow, CsFall
  <2>2. engaged \in BOOLEAN
    BY DEF TypeOK
  <2>3. (chip \in {"cmd", "rep"}) \in BOOLEAN
    OBVIOUS
  <2>4. CASE cs = "high"
    BY <2>1, <2>3, <2>4, Zenon
  <2>5. CASE cs # "high"
    BY <2>1, <2>2, <2>5, Zenon
  <2> QED
    BY <2>4, <2>5
<1>2. cs' = "low"
  BY DEF OpenWindow, CsFall
<1> QED
  BY <1>1, <1>2 DEF OpenWindow, TypeOK

\* What the header check and the method decide are outcomes of an exchange.
LEMMA HeaderOutcome ==
    ASSUME NEW c \in CallType, NEW r
    PROVE  Header(c, r) \in {"Framing", "BufferTooSmall", "body"}
BY DEF Header, OneParam, OneParam16, IntoScratch, CallType, RecvKinds

LEMMA DecodeOutcome ==
    ASSUME NEW c, NEW s
    PROVE  Decode(c, s) \in {"Framing", "Nina", "Ok"}
BY DEF Decode

LEMMA ReplyInType ==
    ASSUME TypeOK, NEW s \in Shapes
    PROVE  /\ Item("reply", job.id, ReplyByte(job.cmd), s) \in ItemType
           /\ Item("err", job.id, 0, NoShape) \in ItemType
<1>1. job.id \in Nat /\ job.cmd \in Nat
  BY DEF TypeOK, ItemType
<1>2. ReplyByte(job.cmd) \in Nat
  BY <1>1, BytesInNat
<1> QED
  BY <1>1, <1>2, ItemInType, NoShapeInType, ShapesAssumption DEF Kinds

LEMMA ErrInType ==
    ASSUME TypeOK
    PROVE  Item("err", job.id, 0, NoShape) \in ItemType
BY ItemInType, NoShapeInType DEF TypeOK, ItemType, Kinds

LEMMA InitType == Init => TypeOK
<1> SUFFICES ASSUME Init PROVE TypeOK
  OBVIOUS
<1>1. job \in ItemType
  <2>1. CASE job = Nothing
    BY <2>1, NothingInType
  <2>2. ASSUME NEW s \in Shapes, job = Item("reply", 0, ReplyByte(disconnect.cmd), s)
        PROVE  job \in ItemType
    <3>1. disconnect.cmd = 48
      BY DEF disconnect, Get, Exchange, Opcode
    <3>2. ReplyByte(disconnect.cmd) \in Nat
      BY <3>1, BytesInNat
    <3> QED
      BY <2>2, <3>2, ItemInType, ShapesAssumption DEF Kinds
  <2> QED
    BY <2>1, <2>2 DEF Init
<1>2. 0 \in 0..(StartTimeoutIters - 1)
  BY BoundsAssumption
<1>3. hpc \in HostStates /\ result \in [res : Errors \cup {"none", "Ok"}, id : Nat]
  BY DEF Init, HostStates, Idle
<1>4. chip \in {"off", "boot", "cmd", "busy", "rep", "done"} /\ engaged \in BOOLEAN
  BY DEF Init
<1>5. call \in CallType /\ got \in ItemType /\ rx \in ItemType
  BY DisconnectInType, NothingInType DEF Init
<1>6. /\ calls \in Nat /\ executed \in Nat
      /\ polls \in 0..(StartTimeoutIters - 1) /\ todo \in 0..3
      /\ cs \in {"low", "high"} /\ ack \in {"low", "high"}
  BY <1>2 DEF Init
<1> QED
  BY <1>1, <1>3, <1>4, <1>5, <1>6 DEF TypeOK

\* Every action keeps every variable in its type.
LEMMA NextType == TypeOK /\ [Next]_vars => TypeOK'
<1> SUFFICES ASSUME TypeOK, [Next]_vars PROVE TypeOK'
  OBVIOUS
<1> USE DEF TypeOK
<1>1. ASSUME NEW c \in Calls, Call(c) PROVE TypeOK'
  <2>1. c \in CallType
    BY CallsAssumption
  <2>2. Begin(c) /\ todo' = todo
    BY <1>1 DEF Call
  <2> QED
    BY <2>1, <2>2, BeginType
<1>2. CASE InitReset
  <2>1. hpc' \in HostStates
    BY <1>2 DEF InitReset, HostStates, Idle
  <2> QED
    BY <1>2, <2>1, NothingInType DEF InitReset
<1>3. CASE MixedOverflow
  BY <1>3, FailEarlyType DEF MixedOverflow, Outcomes, Errors
<1>4. CASE SendOpen
  <2>1. "send.select" \in HostStates
    BY DEF HostStates
  <2> QED
    BY <1>4, <2>1, OpenWindowType DEF SendOpen
<1>5. CASE RecvOpen
  <2>1. "recv.select" \in HostStates
    BY DEF HostStates
  <2> QED
    BY <1>5, <2>1, OpenWindowType DEF RecvOpen
<1>6. CASE Select
  BY <1>6, BoundsAssumption DEF Select, chipVars, HostStates, Transfers
<1>7. CASE SendHeader
  <2>1. Received(Part) \in ItemType /\ Held \in ItemType
    BY SentInType, ReceivedInType, HeldInType
  <2> QED
    BY <1>7, <2>1 DEF SendHeader, HostStates, Transfers
<1>8. ASSUME NEW from, SendEnd(from) PROVE TypeOK'
  <2>1. Received(Whole) \in ItemType
    BY SentInType, ReceivedInType
  <2> QED
    BY <1>8, <2>1, EndWindowType DEF SendEnd, HostStates
<1>9. CASE PollStart
  BY <1>9, NothingInType DEF PollStart, HostStates, Transfers
<1>10. CASE PollErrCmd
  BY <1>10, FailInWindowType DEF PollErrCmd, Outcomes, Errors
<1>11. Dummies \in ItemType
  BY JunkInType, ReceivedInType DEF Dummies
<1>12. CASE PollDummy
  BY <1>11, <1>12, BoundsAssumption DEF PollDummy
<1>13. CASE PollTimeout
  BY <1>11, <1>13, FailInWindowType DEF PollTimeout, Outcomes, Errors
<1>14. CASE RecvHeader
  <2>1. Header(call, got) \in {"Framing", "BufferTooSmall", "body"}
    BY HeaderOutcome
  <2>2. CASE Header(call, got) = "body"
    BY <1>14, <2>2 DEF RecvHeader, chipVars, HostStates, Transfers
  <2>3. CASE Header(call, got) # "body"
    <3>1. Header(call, got) \in Outcomes
      BY <2>1, <2>3 DEF Outcomes, Errors
    <3> QED
      BY <1>14, <2>3, <3>1, FailInWindowType DEF RecvHeader
  <2> QED
    BY <2>2, <2>3
<1>15. CASE RecvBody
  <2>1. Decode(call, got.shape) \in Outcomes
    BY DecodeOutcome DEF Outcomes, Errors
  <2>2. got.id \in Nat
    BY DEF ItemType
  <2> QED
    BY <1>15, <2>1, <2>2, ReturnType, EndWindowType DEF RecvBody, Outcomes
<1>16. CASE InitRelease \/ InitBoot
  BY <1>16 DEF InitRelease, InitBoot, chipVars, HostStates, Idle
<1>17. CASE InitDisconnect
  BY <1>17, BeginType, DisconnectInType DEF InitDisconnect
<1>18. CASE OpenError
  BY <1>18, FailEarlyType DEF OpenError, Outcomes, Errors
<1>19. CASE SendError
  <2>1. PICK r \in Clocked : FailInWindow("Spi", r)
    BY <1>19 DEF SendError
  <2> QED
    BY <2>1, ClockedInType, FailInWindowType DEF Outcomes, Errors
<1>20. CASE RecvError
  <2>1. PICK r \in Clocked : FailInWindow("Spi", r)
    BY <1>20 DEF RecvError
  <2> QED
    BY <2>1, ClockedInType, FailInWindowType DEF Outcomes, Errors
<1>21. CASE Cancel
  <2>1. rx' \in ItemType /\ job' \in ItemType
    BY <1>21, ClockedInType, HeldInType DEF Cancel
  <2> QED
    BY <1>21, <2>1 DEF Cancel, HostStates, Idle, Errors
<1>22. CASE InitRefused
  BY <1>22, CsRiseType DEF InitRefused, HostStates, Idle
<1>23. CASE InitPinError
  BY <1>23 DEF InitPinError, chipVars, HostStates, Idle
<1>24. CASE ChipBusy
  BY <1>24 DEF ChipBusy, hostVars, chipVars
<1>25. CASE ChipExecute
  <2>1. job.id \in Nat
    BY DEF ItemType
  <2>2. job' \in ItemType /\ chip' = "rep"
    BY <1>25, ReplyInType, ErrInType DEF ChipExecute, ArmReply
  <2> QED
    BY <1>25, <2>1, <2>2 DEF ChipExecute, hostVars
<1>26. CASE ChipReject
  BY <1>26, ErrInType, NothingInType DEF ChipReject, ArmReply, hostVars
<1>27. CASE ChipRearm \/ ChipBoot
  BY <1>27 DEF ChipRearm, ChipBoot, hostVars
<1>28. CASE UNCHANGED vars
  BY <1>28 DEF vars
<1> QED
  BY <1>1, <1>2, <1>3, <1>4, <1>5, <1>6, <1>7, <1>8, <1>9, <1>10, <1>12, <1>13, <1>14, <1>15,
     <1>16, <1>17, <1>18, <1>19, <1>20, <1>21, <1>22, <1>23, <1>24, <1>25, <1>26, <1>27, <1>28
     DEF Next, HostStep, Fault, ChipStep, SendRest, SendMixed

\* The pins, the chip and the host always are in one of the states the model
\* names, and items and counters in their range.
THEOREM TypeCorrect == Spec => []TypeOK
  BY InitType, NextType, PTL DEF Spec

-----------------------------------------------------------------------------
(* CS between operations *)

\* Between two windows of an exchange CS is HIGH as well.
CsInv == hpc \in {"idle", "init.reset", "init.boot", "send.ack", "recv.ack"} => cs = "high"

LEMMA EndWindowRaises ==
    ASSUME "pin" \notin Faults, NEW r, EndWindow(r)
    PROVE  cs' = "high"
BY DEF EndWindow, CsRise

LEMMA CsNext ==
    ASSUME "pin" \notin Faults, "cancel" \notin Faults, CsInv, [Next]_vars
    PROVE  CsInv'
<1>1. ASSUME NEW c, Begin(c) PROVE CsInv'
  BY <1>1 DEF Begin, CsInv
<1>2. CASE InitReset
  BY <1>2 DEF InitReset, CsInv
<1>3. CASE MixedOverflow
  BY <1>3 DEF MixedOverflow, FailEarly, Return, CsInv
<1>4. CASE SendOpen \/ RecvOpen
  BY <1>4 DEF SendOpen, RecvOpen, OpenWindow, CsInv
<1>5. CASE Select
  BY <1>5 DEF Select, CsInv
<1>6. CASE SendHeader
  BY <1>6 DEF SendHeader, CsInv
<1>7. CASE SendRest \/ SendMixed
  BY <1>7, EndWindowRaises DEF SendRest, SendMixed, SendEnd, CsInv
<1>8. ASSUME NEW res, NEW r, FailInWindow(res, r) PROVE CsInv'
  BY <1>8, EndWindowRaises DEF FailInWindow, CsInv
<1>9. CASE PollStart \/ PollDummy
  BY <1>9 DEF PollStart, PollDummy, CsInv
<1>10. CASE RecvHeader
  BY <1>8, <1>10 DEF RecvHeader, CsInv
<1>11. CASE RecvBody
  BY <1>11, EndWindowRaises DEF RecvBody, CsInv
<1>12. CASE InitRelease \/ InitBoot
  BY <1>12 DEF InitRelease, InitBoot, CsInv
<1>13. CASE ChipStep
  BY <1>13 DEF ChipStep, ChipBusy, ChipExecute, ChipReject, ChipRearm, ChipBoot, hostVars, CsInv
<1>14. CASE UNCHANGED vars
  BY <1>14 DEF vars, CsInv
<1> QED
  BY <1>1, <1>2, <1>3, <1>4, <1>5, <1>6, <1>7, <1>8, <1>9, <1>10, <1>11, <1>12, <1>13, <1>14
     DEF Next, HostStep, Fault, Call, InitDisconnect, PollErrCmd, PollTimeout, SendError, RecvError,
         OpenError, Cancel, InitRefused, InitPinError

\* When no future is dropped and no pin fails, or only ack.wait_for_high does, every
\* path out of an exchange, bus errors included, leaves CS HIGH: the idle level.
THEOREM CsIdlesHigh ==
    ASSUME "pin" \notin Faults, "cancel" \notin Faults
    PROVE  Spec => []CsIdleHigh
<1>1. Init => CsInv
  BY DEF Init, CsInv
<1>2. CsInv /\ [Next]_vars => CsInv'
  BY CsNext
<1>3. CsInv => CsIdleHigh
  BY DEF CsInv, CsIdleHigh
<1> QED
  BY <1>1, <1>2, <1>3, PTL DEF Spec

-----------------------------------------------------------------------------
(* The wait for ACK *)

\* What the chip may take a window's content for.
Garbled(r) == r = Nothing \/ r.kind \in {"part", "whole", "junk"}

\* ACK is HIGH while the chip serves a window, works or is off, and a chip that
\* serves a window is armed.
ServesInv ==
    /\ engaged => chip \in {"cmd", "rep"} /\ cs = "low"
    /\ ack = "high" => engaged \/ chip \in {"busy", "done", "off", "boot"}
    /\ chip = "busy" => job.kind \in {"part", "whole", "junk"}
    /\ Garbled(rx)

LEMMA ReceivedGarbled ==
    ASSUME Garbled(rx), NEW r, Garbled(r)
    PROVE  Garbled(Received(r))
BY DEF Garbled, Received, Item

LEMMA SentGarbled ==
    Garbled(rx) => Garbled(Received(Part)) /\ Garbled(Received(Whole)) /\ Garbled(Dummies)
<1>1. Garbled(Part) /\ Garbled(Whole) /\ Garbled(Item("junk", 0, 0, NoShape))
  BY DEF Garbled, Part, Whole, Item
<1> QED
  BY <1>1, ReceivedGarbled DEF Dummies

LEMMA ClockedGarbled == Garbled(rx) => \A r \in Clocked : Garbled(r)
BY SentGarbled DEF Clocked

LEMMA CsRiseServes ==
    ASSUME ServesInv, NEW r, Garbled(r), CsRise(r), ack' = ack
    PROVE  ServesInv'
BY DEF ServesInv, CsRise, Garbled, Nothing

LEMMA EndWindowServes ==
    ASSUME ServesInv, NEW r, Garbled(r), EndWindow(r), ack' = ack
    PROVE  ServesInv'
<1>1. CASE CsRise(r)
  BY <1>1, CsRiseServes
<1>2. CASE rx' = r /\ job' = Held /\ UNCHANGED <<cs, engaged, chip>>
  BY <1>2 DEF ServesInv, Held, Garbled, Nothing
<1> QED
  BY <1>1, <1>2 DEF EndWindow

\* The host waits with RESETN LOW for a chip that is held in reset.
ResetInv == hpc = "init.reset" => chip = "off"

LEMMA ResetNext == ResetInv /\ [Next]_vars => ResetInv'
<1> SUFFICES ASSUME ResetInv, [Next]_vars PROVE ResetInv'
  OBVIOUS
<1>1. ASSUME hpc' # "init.reset" PROVE ResetInv'
  BY <1>1 DEF ResetInv
<1>2. CASE InitReset
  BY <1>2 DEF InitReset, ResetInv
<1>3. CASE ChipStep \/ UNCHANGED vars
  BY <1>3 DEF ChipStep, ChipBusy, ChipExecute, ChipReject, ChipRearm, ChipBoot, hostVars, chipVars,
     vars, ResetInv
<1>4. ASSUME NEW c, Begin(c) PROVE ResetInv'
  BY <1>1, <1>4 DEF Begin
<1>5. ASSUME NEW res, NEW id, Return(res, id) PROVE ResetInv'
  BY <1>1, <1>5 DEF Return
<1>6. CASE SendOpen \/ RecvOpen \/ Select \/ SendHeader \/ SendRest \/ SendMixed \/ PollStart
  BY <1>1, <1>6 DEF SendOpen, RecvOpen, OpenWindow, Select, SendHeader, SendRest, SendMixed, SendEnd,
     PollStart
<1>7. CASE PollDummy
  BY <1>1, <1>7 DEF PollDummy
<1>8. CASE RecvHeader
  BY <1>1, <1>5, <1>8 DEF RecvHeader, FailInWindow
<1>9. CASE MixedOverflow \/ OpenError \/ PollErrCmd \/ PollTimeout \/ RecvBody \/ SendError \/ RecvError
  BY <1>5, <1>9 DEF MixedOverflow, OpenError, FailEarly, PollErrCmd, PollTimeout, RecvBody, SendError,
     RecvError, FailInWindow
<1>10. CASE InitRelease \/ InitBoot \/ Cancel \/ InitRefused \/ InitPinError
  BY <1>1, <1>10 DEF InitRelease, InitBoot, Cancel, InitRefused, InitPinError
<1> QED
  BY <1>2, <1>3, <1>4, <1>6, <1>7, <1>8, <1>9, <1>10
     DEF Next, HostStep, Fault, Call, InitDisconnect

LEMMA ServesNext == ResetInv /\ ServesInv /\ [Next]_vars => ServesInv'
<1> SUFFICES ASSUME ResetInv, ServesInv, [Next]_vars PROVE ServesInv'
  OBVIOUS
<1>g. Garbled(rx) /\ Garbled(Nothing)
  BY DEF ServesInv, Garbled
<1>0. ASSUME UNCHANGED <<cs, ack, chip, engaged, rx, job>> PROVE ServesInv'
  BY <1>0 DEF ServesInv, Garbled, Nothing
<1>1. ASSUME NEW c, Begin(c) PROVE ServesInv'
  BY <1>0, <1>1 DEF Begin, chipVars
<1>2. CASE InitReset
  BY <1>2, <1>g DEF InitReset, ServesInv, Garbled
<1>3. CASE MixedOverflow \/ OpenError
  BY <1>0, <1>3 DEF MixedOverflow, OpenError, FailEarly, chipVars
<1>4. CASE SendOpen \/ RecvOpen
  <2>1. CsFall /\ ack = "low" /\ UNCHANGED <<ack, chip, rx, job>>
    BY <1>4 DEF SendOpen, RecvOpen, OpenWindow
  <2> QED
    BY <2>1 DEF ServesInv, CsFall, Garbled, Nothing
<1>5. CASE Select
  BY <1>0, <1>5 DEF Select, chipVars
<1>21. CASE Cancel
  <2>1. Garbled(rx') /\ job' \in {job, Held}
    BY <1>21, <1>g, ClockedGarbled DEF Cancel
  <2> QED
    BY <1>21, <2>1 DEF Cancel, ServesInv, Held
<1>6. CASE SendHeader
  <2>1. rx' = Received(Part) /\ job' = Held /\ UNCHANGED <<cs, ack, chip, engaged>>
    BY <1>6 DEF SendHeader
  <2>2. Garbled(rx')
    BY <1>g, <2>1, SentGarbled
  <2> QED
    BY <2>1, <2>2 DEF ServesInv, Held, Garbled, Nothing
<1>7. CASE SendRest \/ SendMixed
  BY <1>7, <1>g, SentGarbled, EndWindowServes DEF SendRest, SendMixed, SendEnd
<1>8. ASSUME NEW res, NEW r, Garbled(r), FailInWindow(res, r) PROVE ServesInv'
  BY <1>8, EndWindowServes DEF FailInWindow
<1>9. CASE SendError
  <2>1. PICK r \in Clocked : FailInWindow("Spi", r)
    BY <1>9 DEF SendError
  <2>2. Garbled(r)
    BY <1>g, ClockedGarbled
  <2> QED
    BY <1>8, <2>1, <2>2
<1>10. CASE PollStart
  BY <1>10 DEF PollStart, ServesInv, Garbled, Nothing
<1>11. CASE PollDummy
  <2>1. rx' = Dummies /\ UNCHANGED <<cs, ack, chip, engaged, job>>
    BY <1>11 DEF PollDummy
  <2>2. Garbled(rx')
    BY <1>g, <2>1, SentGarbled
  <2> QED
    BY <2>1, <2>2 DEF ServesInv, Garbled, Nothing
<1>12. CASE PollErrCmd \/ PollTimeout
  BY <1>8, <1>12, <1>g, SentGarbled DEF PollErrCmd, PollTimeout
<1>13. CASE RecvHeader
  BY <1>0, <1>8, <1>13, <1>g DEF RecvHeader, chipVars
<1>14. CASE RecvBody
  BY <1>14, <1>g, EndWindowServes DEF RecvBody
<1>15. CASE RecvError
  <2>1. PICK r \in Clocked : FailInWindow("Spi", r)
    BY <1>15 DEF RecvError
  <2>2. Garbled(r)
    BY <1>g, ClockedGarbled
  <2> QED
    BY <1>8, <2>1, <2>2
<1>22. CASE InitRelease
  BY <1>22, <1>g DEF InitRelease, ServesInv, ResetInv, Garbled
<1>16. CASE InitBoot \/ InitPinError
  BY <1>0, <1>16 DEF InitBoot, InitPinError, chipVars
<1>17. CASE InitRefused
  BY <1>0, <1>17, <1>g, CsRiseServes DEF InitRefused
<1>18. CASE ChipBusy
  BY <1>18 DEF ChipBusy, hostVars, chipVars, ServesInv, Garbled, Nothing
<1>19. CASE ChipExecute \/ ChipReject \/ ChipRearm \/ ChipBoot
  <2>1. /\ ack' = "low" /\ ~engaged /\ UNCHANGED <<engaged, rx>> /\ chip' \in {"rep", "cmd"}
    BY <1>19 DEF ChipExecute, ChipReject, ChipRearm, ChipBoot, ArmReply, ServesInv
  <2> QED
    BY <2>1 DEF ServesInv, Garbled, Nothing
<1>20. CASE UNCHANGED vars
  BY <1>0, <1>20 DEF vars
<1> QED
  BY <1>1, <1>2, <1>3, <1>4, <1>5, <1>6, <1>7, <1>9, <1>10, <1>11, <1>12, <1>13, <1>14, <1>15,
     <1>16, <1>17, <1>18, <1>19, <1>20, <1>21, <1>22
     DEF Next, HostStep, Fault, ChipStep, Call, InitDisconnect

\* init holds the chip in reset, and waits for it to boot, no longer than it runs.
OffInv ==
    /\ chip = "off" => hpc = "init.reset"
    /\ chip = "boot" => hpc = "init.boot"

LEMMA OffNext ==
    ASSUME "pin" \notin Faults, "cancel" \notin Faults, OffInv, [Next]_vars
    PROVE  OffInv'
<1>1. ASSUME hpc \notin {"init.reset", "init.boot"}, UNCHANGED chip PROVE OffInv'
  BY <1>1 DEF OffInv
<1>2. ASSUME NEW c, Begin(c) PROVE OffInv'
  BY <1>2 DEF Begin, chipVars, OffInv
<1>3. CASE InitReset \/ InitRelease \/ InitBoot
  BY <1>3 DEF InitReset, InitRelease, InitBoot, chipVars, OffInv
<1>4. CASE MixedOverflow \/ SendOpen \/ RecvOpen \/ Select \/ SendHeader \/ PollStart \/ PollDummy
  BY <1>4 DEF MixedOverflow, FailEarly, SendOpen, RecvOpen, OpenWindow, Select, SendHeader,
     PollStart, PollDummy, chipVars, OffInv
<1>5. ASSUME NEW r, EndWindow(r), hpc \notin {"init.reset", "init.boot"} PROVE OffInv'
  BY <1>5 DEF EndWindow, CsRise, OffInv
<1>6. CASE SendRest \/ SendMixed \/ RecvBody
  BY <1>5, <1>6 DEF SendRest, SendMixed, SendEnd, RecvBody
<1>7. ASSUME NEW res, NEW r, FailInWindow(res, r), hpc \notin {"init.reset", "init.boot"}
      PROVE  OffInv'
  BY <1>5, <1>7 DEF FailInWindow
<1>8. CASE PollErrCmd \/ PollTimeout \/ SendError \/ RecvError
  BY <1>7, <1>8 DEF PollErrCmd, PollTimeout, SendError, RecvError
<1>9. CASE RecvHeader
  BY <1>1, <1>7, <1>9 DEF RecvHeader, chipVars
<1>10. CASE ChipStep
  BY <1>10 DEF ChipStep, ChipBusy, ChipExecute, ChipReject, ChipRearm, ChipBoot, ArmReply,
     hostVars, chipVars, OffInv
<1>11. CASE UNCHANGED vars
  BY <1>11 DEF vars, OffInv
<1> QED
  BY <1>2, <1>3, <1>4, <1>6, <1>8, <1>9, <1>10, <1>11
     DEF Next, HostStep, Fault, Call, InitDisconnect, OpenError, Cancel, InitRefused, InitPinError

\* The wait for ACK, which has no timeout, is never entered with nothing left that
\* lowers the pin, as long as callers wait for their operations and the pins of the
\* host work; bus errors, a chip that lags behind and an ack.wait_for_high that fails
\* are allowed.
THEOREM AckWaitsEnd ==
    ASSUME "pin" \notin Faults, "cancel" \notin Faults
    PROVE  Spec => []AckComesBack
<1>1. Init => CsInv /\ ResetInv /\ ServesInv /\ OffInv
  BY DEF Init, CsInv, ResetInv, ServesInv, OffInv, Garbled
<1>2. CsInv /\ [Next]_vars => CsInv'
  BY CsNext
<1>3. OffInv /\ [Next]_vars => OffInv'
  BY OffNext
<1>4. CsInv /\ ServesInv /\ OffInv => AckComesBack
  BY DEF CsInv, ServesInv, OffInv, AckComesBack
<1> QED
  BY <1>1, <1>2, <1>3, <1>4, ResetNext, ServesNext, PTL DEF Spec

-----------------------------------------------------------------------------
(* Phases *)

Closed == cs = "high" /\ ~engaged /\ rx = Nothing

\* Where the chip is, by where the host is. ACK is HIGH whenever the chip is not
\* armed, so the host opens no window then.
PhaseInv ==
    /\ hpc \in {"idle", "send.ack"} => Closed /\ (chip = "cmd" \/ (chip = "done" /\ ack = "high"))
    /\ hpc = "init.reset" => Closed /\ chip = "off"
    /\ hpc = "init.boot" => Closed /\ chip \in {"boot", "cmd"}
    /\ hpc \in {"send.select", "send.write", "send.rest"} => cs = "low" /\ engaged /\ chip = "cmd"
    /\ hpc \in {"send.select", "send.write"} => rx = Nothing
    /\ hpc = "send.rest" => rx = Part
    /\ hpc = "recv.ack" => Closed /\ (chip = "rep" \/ (chip = "busy" /\ ack = "high" /\ job.kind = "whole"))
    /\ hpc \in {"recv.select", "recv.poll", "recv.header", "recv.body"} =>
         cs = "low" /\ engaged /\ chip = "rep" /\ rx = Nothing
    /\ hpc \in {"send.write", "send.rest", "recv.poll", "recv.header", "recv.body"} => ack = "high"
    /\ hpc \in {"send.ack", "send.select", "send.write", "send.rest"} => Intact(call)

LEMMA DisconnectIntact == Intact(disconnect)
BY DEF disconnect, Get, Exchange, Intact

\* The end of a reply window.
LEMMA ReplyWindowEnds ==
    ASSUME Faults = {}, PhaseInv, NEW r, EndWindow(r), ack' = ack, hpc' = "idle",
           hpc \in {"recv.poll", "recv.header", "recv.body"}
    PROVE  PhaseInv'
<1>1. CsRise(r) /\ engaged /\ chip = "rep" /\ ack = "high"
  BY DEF EndWindow, PhaseInv
<1> QED
  BY <1>1 DEF CsRise, PhaseInv, Closed

LEMMA PhaseNext ==
    ASSUME Faults = {}, \A c \in Calls : Intact(c), TypeOK, PhaseInv, [Next]_vars
    PROVE  PhaseInv'
<1>1. ASSUME NEW c, Intact(c), Begin(c) PROVE PhaseInv'
  <2>1. Intact(call')
    BY <1>1 DEF Begin
  <2>2. Intact(call)' <=> Intact(call')
    OBVIOUS
  <2> QED
    BY <1>1, <2>1, <2>2 DEF Begin, chipVars, PhaseInv, Closed
<1>2. CASE InitReset
  BY <1>2 DEF InitReset, PhaseInv, Closed
<1>3. CASE MixedOverflow
  BY <1>3 DEF MixedOverflow, FailEarly, Return, chipVars, PhaseInv, Closed
<1>4. CASE SendOpen
  <2>1. chip = "cmd" /\ cs = "high" /\ rx = Nothing /\ Intact(call)
    BY <1>4 DEF SendOpen, OpenWindow, PhaseInv, Closed
  <2>2. /\ hpc' = "send.select" /\ cs' = "low" /\ engaged'
        /\ UNCHANGED <<call, ack, chip, rx, job>>
    BY <1>4, <2>1 DEF SendOpen, OpenWindow, CsFall
  <2> QED
    BY <2>1, <2>2 DEF PhaseInv
<1>5. CASE RecvOpen
  <2>1. chip = "rep" /\ cs = "high" /\ rx = Nothing
    BY <1>5 DEF RecvOpen, OpenWindow, PhaseInv, Closed
  <2>2. /\ hpc' = "recv.select" /\ cs' = "low" /\ engaged'
        /\ UNCHANGED <<call, ack, chip, rx, job>>
    BY <1>5, <2>1 DEF RecvOpen, OpenWindow, CsFall
  <2> QED
    BY <2>1, <2>2 DEF PhaseInv
<1>6. CASE Select
  BY <1>6 DEF Select, chipVars, PhaseInv
<1>7. CASE SendHeader
  <2>1. Received(Part) = Part
    BY <1>7 DEF SendHeader, PhaseInv, Received
  <2>2. UNCHANGED <<call, calls>> /\ rx' = Part /\ hpc' = "send.rest"
    BY <1>7, <2>1 DEF SendHeader
  <2>3. Part' = Part
    BY <2>2 DEF Part
  <2> QED
    BY <1>7, <2>2, <2>3 DEF SendHeader, PhaseInv
<1>8. ASSUME NEW from, from \in {"send.write", "send.rest"}, SendEnd(from) PROVE PhaseInv'
  <2>1. /\ engaged /\ chip = "cmd" /\ ack = "high" /\ rx \in {Nothing, Part} /\ Intact(call)
        /\ hpc' = "recv.ack" /\ ack' = ack
    BY <1>8 DEF SendEnd, PhaseInv
  <2>2. Whole.kind = "whole" /\ Whole.id = calls /\ Part.kind = "part" /\ Part.id = calls
    BY <2>1 DEF Whole, Part, Item
  <2>3. Received(Whole) = Whole /\ Whole # Nothing
    BY <2>1, <2>2 DEF Received, Nothing, Item
  <2>4. CsRise(Whole)
    BY <1>8, <2>3 DEF SendEnd, EndWindow
  <2>5. chip' = "busy" /\ job' = Whole /\ Closed'
    BY <2>1, <2>3, <2>4 DEF CsRise, Closed
  <2> QED
    BY <2>1, <2>2, <2>5 DEF PhaseInv
<1>9. CASE PollStart
  BY <1>9 DEF PollStart, PhaseInv
<1>10. ASSUME NEW res, NEW r, FailInWindow(res, r), hpc \in {"recv.poll", "recv.header"}
       PROVE  PhaseInv'
  BY <1>10, ReplyWindowEnds DEF FailInWindow, Return
<1>11. CASE PollDummy
  <2>1. Dummies = rx
    BY <1>11 DEF PollDummy, PhaseInv, Dummies, Received
  <2> QED
    BY <1>11, <2>1 DEF PollDummy, PhaseInv
<1>12. CASE RecvHeader
  BY <1>10, <1>12 DEF RecvHeader, chipVars, PhaseInv
<1>13. CASE RecvBody
  BY <1>13, ReplyWindowEnds DEF RecvBody, Return
<1>14. CASE InitRelease \/ InitBoot
  BY <1>14 DEF InitRelease, InitBoot, chipVars, PhaseInv, Closed
<1>15. CASE ChipBusy
  BY <1>15 DEF ChipBusy, hostVars, chipVars, PhaseInv, Closed, Part
<1>16. CASE ChipExecute \/ ChipReject
  <2>1. chip = "busy"
    BY <1>16 DEF ChipExecute, ChipReject
  <2>2. hpc = "recv.ack" \/ hpc = "new"
    BY <2>1 DEF PhaseInv, TypeOK, HostStates, Transfers, Idle
  <2>3. hpc = "recv.ack" => job.kind = "whole" /\ Closed
    BY <2>1 DEF PhaseInv
  <2>4. hpc = "recv.ack" => ChipExecute
    BY <1>16, <2>3 DEF ChipReject
  <2>5. UNCHANGED <<hpc, cs, engaged, rx>>
    BY <1>16 DEF ChipExecute, ChipReject, hostVars
  <2>6. hpc = "recv.ack" => chip' = "rep"
    BY <2>4 DEF ChipExecute, ArmReply
  <2> QED
    BY <2>2, <2>3, <2>5, <2>6 DEF PhaseInv, Closed
<1>17. CASE ChipRearm \/ ChipBoot
  BY <1>17 DEF ChipRearm, ChipBoot, hostVars, PhaseInv, Closed
<1>18. CASE UNCHANGED vars
  BY <1>18 DEF vars, PhaseInv, Closed, Part
<1> QED
  BY <1>1, <1>2, <1>3, <1>4, <1>5, <1>6, <1>7, <1>8, <1>9, <1>10, <1>11, <1>12, <1>13, <1>14,
     <1>15, <1>16, <1>17, <1>18, DisconnectIntact
     DEF Next, HostStep, Fault, ChipStep, Call, InitDisconnect, PollErrCmd, PollTimeout, SendError,
         RecvError, SendRest, SendMixed, OpenError, Cancel, InitRefused, InitPinError

\* Without faults, and with parameters short enough for their length byte, every
\* window finds the chip in the phase the host believes it is in: each answer,
\* the ones the receive functions give up on in the middle included, leaves the
\* two sides ready for the next command.
THEOREM InPhase ==
    ASSUME Faults = {}, \A c \in Calls : Intact(c)
    PROVE  Spec => []WindowsInPhase
<1>1. Init => PhaseInv
  BY DEF Init, PhaseInv
<1>2. TypeOK /\ PhaseInv /\ [Next]_vars => PhaseInv'
  BY PhaseNext
<1>3. PhaseInv => WindowsInPhase
  BY DEF PhaseInv, WindowsInPhase
<1> QED
  BY <1>1, <1>2, <1>3, TypeCorrect, PTL DEF Spec

=============================================================================
