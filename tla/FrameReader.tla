---------------------------- MODULE FrameReader ----------------------------
(***************************************************************************)
(* The three receive functions of driver.rs, byte by byte, on whatever the *)
(* chip clocks out, and the readers of what they leave in the buffer: the  *)
(* iterator over a scan (scan.rs), ip_config, udp_remote, and the methods  *)
(* that take one byte.                                                     *)
(*                                                                         *)
(* A byte is a number below Base.  The framing bytes are numbers too, so a *)
(* length or a byte of the payload may look like one of them.              *)
(***************************************************************************)
EXTENDS Naturals, Sequences

CONSTANTS
    Base,               \* 256
    START, ERR, END,    \* START_CMD, ERR_CMD, END_CMD
    REPLY,              \* cmd | REPLY_FLAG
    Payload,            \* bytes a payload is made of
    Sizes,              \* sizes of the caller's buffer
    Polls,              \* START_TIMEOUT_ITERS
    AddrLen, PortLen    \* 4 and 2: bytes of an address and of a port

Bytes == 0..(Base - 1)

ASSUME BytesAssumption ==
    /\ Base \in Nat \ {0, 1}
    /\ START \in Bytes /\ ERR \in Bytes /\ END \in Bytes /\ REPLY \in Bytes
    /\ START # ERR
    /\ Payload \subseteq Bytes
    /\ Sizes \subseteq Nat /\ Polls \in Nat \ {0}
    /\ AddrLen \in Nat \ {0} /\ PortLen \in Nat \ {0}

VARIABLES
    fn,         \* "one", "one16", "into": the receive function
    buf,        \* the caller's buffer
    pc,         \* "start", "header", "length", "data", "end", "done", "iter", "over"
    polls,      \* bytes clocked in vain while waiting for START_CMD
    num,        \* parameters the header announces
    todo,       \* parameters whose length is not read yet
    left,       \* bytes of this parameter still to read
    written,    \* bytes of buf written
    heard,      \* every byte clocked in from START_CMD on
    res,        \* how the function ended
    rem, at,    \* the iterator: items it still expects, bytes it has passed
    items       \* what it has yielded

readVars == <<polls, num, todo, left, written>>
iterVars == <<rem, at, items>>
vars == <<fn, buf, pc, readVars, heard, res, iterVars>>

\* Faulty variant: the buffer of an acknowledgement is not zeroed either.
Init_Dirty ==
    /\ fn \in {"one", "one16", "into"}
    /\ \E n \in Sizes :
           buf \in {[i \in 1..n |-> b] : b \in {0} \cup Payload}
    /\ pc = "start" /\ polls = 0
    /\ num = 0 /\ todo = 0 /\ left = 0 /\ written = 0
    /\ heard = <<>> /\ res = "none"
    /\ rem = 0 /\ at = 0 /\ items = <<>>

\* A buffer holds zeros, or (tcp_recv, scan_networks) what the caller left in it;
\* current_ssid's caller sees no more of it than the bytes read.
Init ==
    /\ fn \in {"one", "one16", "into"}
    /\ \E n \in Sizes :
           buf \in {[i \in 1..n |-> b] : b \in IF fn = "one" THEN {0} ELSE {0} \cup Payload}
    /\ pc = "start" /\ polls = 0
    /\ num = 0 /\ todo = 0 /\ left = 0 /\ written = 0
    /\ heard = <<>> /\ res = "none"
    /\ rem = 0 /\ at = 0 /\ items = <<>>

\* The function returns: nothing else changes than what was clocked in.
Return(r) ==
    /\ pc' = "done"
    /\ res' = r
    /\ UNCHANGED <<fn, buf, readVars, iterVars>>

\* l bytes are due, then the lengths of t parameters, then END_CMD.
Proceed(l, t) ==
    /\ left' = l /\ todo' = t
    /\ pc' = IF l > 0 THEN "data" ELSE IF t > 0 THEN "length" ELSE "end"
    /\ UNCHANGED <<fn, polls, res, iterVars>>

-----------------------------------------------------------------------------
(* START_CMD *)

Start ==
    /\ pc = "start"
    /\ pc' = "header" /\ heard' = <<START>>
    /\ UNCHANGED <<fn, buf, readVars, res, iterVars>>

ErrCmd ==
    /\ pc = "start"
    /\ Return("Nina")
    /\ UNCHANGED heard

\* Any other byte costs a poll; the last one ends the wait.
Idle ==
    /\ pc = "start"
    /\ IF polls + 1 < Polls
       THEN polls' = polls + 1 /\ UNCHANGED <<fn, buf, pc, num, todo, left, written, res, iterVars>>
       ELSE Return("Timeout")
    /\ UNCHANGED heard

-----------------------------------------------------------------------------
(* The header, in one transfer *)

\* Faulty variant: the parameter count is not looked at.
HeaderOne_AnyCount ==
    /\ pc = "header" /\ fn = "one"
    /\ \E reply, count, len \in Bytes :
           /\ heard' = heard \o <<reply, count, len>>
           /\ IF reply # REPLY THEN Return("Framing")
              ELSE IF len > Len(buf) THEN Return("BufferTooSmall")
              ELSE Proceed(len, 0) /\ num' = 1 /\ UNCHANGED <<buf, written>>

HeaderOne ==
    /\ pc = "header" /\ fn = "one"
    /\ \E reply, count, len \in Bytes :
           /\ heard' = heard \o <<reply, count, len>>
           /\ IF reply # REPLY \/ count # 1 THEN Return("Framing")
              ELSE IF len > Len(buf) THEN Return("BufferTooSmall")
              ELSE Proceed(len, 0) /\ num' = 1 /\ UNCHANGED <<buf, written>>

HeaderOne16 ==
    /\ pc = "header" /\ fn = "one16"
    /\ \E reply, count \in Bytes :
           /\ heard' = heard \o <<reply, count>>
           /\ IF reply # REPLY \/ count # 1 THEN Return("Framing")
              ELSE Proceed(0, 1) /\ num' = 1 /\ UNCHANGED <<buf, written>>

HeaderInto ==
    /\ pc = "header" /\ fn = "into"
    /\ \E reply, count \in Bytes :
           /\ heard' = heard \o <<reply, count>>
           /\ IF reply # REPLY THEN Return("Framing")
              ELSE Proceed(0, count) /\ num' = count /\ UNCHANGED <<buf, written>>

-----------------------------------------------------------------------------
(* Lengths, payload, END_CMD *)

Length16 ==
    /\ pc = "length" /\ fn = "one16"
    /\ \E hi, lo \in Bytes :
           /\ heard' = heard \o <<hi, lo>>
           /\ IF hi * Base + lo > Len(buf) THEN Return("BufferTooSmall")
              ELSE Proceed(hi * Base + lo, 0) /\ UNCHANGED <<buf, num, written>>

\* Faulty variant: the byte of the length itself is not counted.
LengthInto_NoRoomForLength ==
    /\ pc = "length" /\ fn = "into"
    /\ \E len \in Bytes :
           /\ heard' = heard \o <<len>>
           /\ IF written + len > Len(buf) THEN Return("BufferTooSmall")
              ELSE /\ buf' = [buf EXCEPT ![written + 1] = len]
                   /\ written' = written + 1
                   /\ Proceed(len, todo - 1)
                   /\ UNCHANGED num

\* Faulty variant: a parameter that does not fit is clocked in and dropped.
LengthInto_Drains ==
    /\ pc = "length" /\ fn = "into"
    /\ \E len \in Bytes :
           IF written + 1 + len > Len(buf)
           THEN /\ heard' = heard \o <<len>> \o [i \in 1..len |-> 0]
                /\ Proceed(0, todo - 1)
                /\ UNCHANGED <<buf, num, written>>
           ELSE /\ heard' = heard \o <<len>>
                /\ buf' = [buf EXCEPT ![written + 1] = len]
                /\ written' = written + 1
                /\ Proceed(len, todo - 1)
                /\ UNCHANGED num

\* The length is packed in front of the bytes.
LengthInto ==
    /\ pc = "length" /\ fn = "into"
    /\ \E len \in Bytes :
           /\ heard' = heard \o <<len>>
           /\ IF written + 1 + len > Len(buf) THEN Return("BufferTooSmall")
              ELSE /\ buf' = [buf EXCEPT ![written + 1] = len]
                   /\ written' = written + 1
                   /\ Proceed(len, todo - 1)
                   /\ UNCHANGED num

Data ==
    /\ pc = "data"
    /\ \E b \in Payload :
           /\ heard' = heard \o <<b>>
           /\ buf' = [buf EXCEPT ![written + 1] = b]
    /\ written' = written + 1
    /\ Proceed(left - 1, todo)
    /\ UNCHANGED num

End ==
    /\ pc = "end"
    /\ \E b \in Bytes :
           /\ heard' = heard \o <<b>>
           /\ Return(IF b = END THEN "Ok" ELSE "Framing")

\* A transfer fails.
BusFails ==
    /\ pc \in {"start", "header", "length", "data", "end"}
    /\ Return("Spi")
    /\ UNCHANGED heard

-----------------------------------------------------------------------------
(* Scan::iter and ScanIter::next, over the bytes written *)

Iter ==
    /\ pc = "done" /\ res = "Ok" /\ fn = "into"
    /\ pc' = "iter" /\ rem' = num /\ at' = 0
    /\ UNCHANGED <<fn, buf, readVars, heard, res, items>>

\* Faulty variant: an item has to leave a byte behind.
More_Strict == rem > 0 /\ at < written /\ 1 + buf[at + 1] < written - at

\* next() has an item to give.
More == rem > 0 /\ at < written /\ 1 + buf[at + 1] <= written - at

NextItem ==
    /\ pc = "iter" /\ More
    /\ items' = Append(items, SubSeq(buf, at + 2, at + 1 + buf[at + 1]))
    /\ at' = at + 1 + buf[at + 1]
    /\ rem' = rem - 1
    /\ UNCHANGED <<fn, buf, pc, readVars, heard, res>>

NoItem ==
    /\ pc = "iter" /\ ~More
    /\ pc' = "over"
    /\ UNCHANGED <<fn, buf, readVars, heard, res, iterVars>>

Next ==
    \/ Start \/ ErrCmd \/ Idle
    \/ HeaderOne \/ HeaderOne16 \/ HeaderInto
    \/ Length16 \/ LengthInto \/ Data \/ End \/ BusFails
    \/ Iter \/ NextItem \/ NoItem

Spec == Init /\ [][Next]_vars

-----------------------------------------------------------------------------
(* The methods that take numbers out of the buffer *)

NoAddress == <<>>

\* take_v4 with the cursor at cur.
HasV4(cur) ==
    /\ cur + 1 <= written
    /\ buf[cur + 1] = AddrLen
    /\ cur + 1 + AddrLen <= written

V4(cur) == SubSeq(buf, cur + 2, cur + 1 + AddrLen)

ip_config ==
    LET second == 1 + AddrLen
        third == 2 * (1 + AddrLen)
    IN  IF num >= 3 /\ HasV4(0) /\ HasV4(second) /\ HasV4(third)
        THEN <<V4(0), V4(second), V4(third)>>
        ELSE NoAddress

\* Faulty variant: the length of the port is not looked at.
udp_remote_AnyPort ==
    IF written >= 1 + AddrLen + 1 + PortLen /\ buf[1] = AddrLen
    THEN <<V4(0), SubSeq(buf, AddrLen + 3, AddrLen + 2 + PortLen)>>
    ELSE NoAddress

\* The parameter count is not looked at; the length of each parameter is.
udp_remote ==
    IF /\ written >= 1 + AddrLen + 1 + PortLen
       /\ buf[1] = AddrLen
       /\ buf[AddrLen + 2] = PortLen
    THEN <<V4(0), SubSeq(buf, AddrLen + 3, AddrLen + 2 + PortLen)>>
    ELSE NoAddress

\* The methods that want an acknowledgement look at the first byte of a zeroed
\* buffer, however many bytes came.
Acked == fn = "one" /\ res = "Ok" /\ Len(buf) > 0 /\ buf[1] = 1

-----------------------------------------------------------------------------
\* A write never leaves the buffer (the code would panic), and the loops count down.
TypeOK ==
    /\ fn \in {"one", "one16", "into"}
    /\ buf \in Seq(Bytes) /\ heard \in Seq(Bytes)
    /\ pc \in {"start", "header", "length", "data", "end", "done", "iter", "over"}
    /\ res \in {"none", "Ok", "Nina", "Timeout", "Framing", "BufferTooSmall", "Spi"}
    /\ polls \in 0..(Polls - 1) /\ num \in Bytes /\ todo \in 0..num /\ left \in Nat
    /\ written \in 0..Len(buf)
    /\ pc = "data" => left > 0 /\ written + left <= Len(buf)
    /\ pc = "length" => todo > 0
    /\ rem \in 0..num /\ at \in 0..written

\* How the bytes after the reply byte announce len bytes of payload.
Announced(len) ==
    IF fn = "one" THEN <<1, len>>
    ELSE IF fn = "one16" THEN <<1, len \div Base, len % Base>>
    ELSE <<num>>

\* Ok means one whole frame: the bytes clocked in since START_CMD are this
\* reply's header, exactly what the buffer now holds, and END_CMD, even when the
\* payload or a length looks like a framing byte.
OkIsFrame ==
    res = "Ok" =>
        heard = <<START, REPLY>> \o Announced(written) \o SubSeq(buf, 1, written) \o <<END>>

\* Whatever counts and lengths the chip sends, garbage too, no more bytes are clocked
\* in from START_CMD on than the buffer holds and the framing takes: a reply cannot
\* keep the bus, and the mutex with it, busy for longer than its caller asked for.
ReadsBounded == Len(heard) <= Len(buf) + 6

\* The iterator, which stops at the first thing that looks wrong, yields every
\* parameter the reply announced, those of length zero too, and leaves no byte over.
IterComplete ==
    pc = "over" =>
        /\ Len(items) = num
        /\ at = written

\* ip_config and udp_remote return addresses exactly when the parameters of the
\* reply are addresses, and return those.
AddressesRead ==
    pc = "over" =>
        LET Lens(lens) ==
                Len(items) >= Len(lens) /\ \A i \in DOMAIN lens : Len(items[i]) = lens[i]
        IN  /\ ip_config = IF Lens(<<AddrLen, AddrLen, AddrLen>>)
                           THEN SubSeq(items, 1, 3) ELSE NoAddress
            /\ udp_remote = IF Lens(<<AddrLen, PortLen>>)
                            THEN SubSeq(items, 1, 2) ELSE NoAddress

\* What counts as an acknowledgement was said by the chip: a reply whose parameter
\* has no bytes leaves the zero in the buffer and is not taken for one.
AckIsHeard == Acked => Len(heard) > 5 /\ heard[5] = 1

=============================================================================
