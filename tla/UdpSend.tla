------------------------------ MODULE UdpSend ------------------------------
(***************************************************************************)
(* Datagrams: udp_send, udp_begin_packet, udp_write and udp_end_packet of  *)
(* driver.rs, for tasks that share one chip behind a mutex.  udp_send      *)
(* keeps the chip for its three exchanges.  A task that builds a packet    *)
(* step by step has the chip for one exchange at a time.                   *)
(*                                                                         *)
(* The chip has one packet under construction per socket: udp_begin_packet *)
(* starts a new one, udp_write appends, udp_end_packet puts it on the air. *)
(* An exchange (module NinaRpc) succeeds, is refused, or fails before or   *)
(* after it had its effect; a call may be dropped at any await.            *)
(***************************************************************************)
EXTENDS Naturals, Sequences, FiniteSets

CONSTANTS
    Senders,
    Steppers,   \* senders that call the three methods themselves
    Sockets,
    SocketOf,   \* which socket a sender uses
    NoSender,
    Calls,      \* bound on the packets of a sender
    Pieces,     \* udp_writes a stepper makes for a packet
    Mishaps     \* bound on the exchanges that fail, are refused or dropped

ASSUME SendersAssumption ==
    /\ NoSender \notin Senders /\ Steppers \subseteq Senders
    /\ SocketOf \in [Senders -> Sockets]
ASSUME BoundsAssumption ==
    Calls \in Nat /\ Pieces \in Nat \ {0} /\ Mishaps \in Nat

\* The packet under construction on a socket is one task's: udp_send has the chip
\* until it is done, and a stepper shares its socket with nobody.
ASSUME SocketsAssumption ==
    \A t \in Steppers, u \in Senders : SocketOf[t] = SocketOf[u] => t = u

VARIABLES
    pc,       \* "idle", "begin", "write", "end"
    call,     \* packets begun
    piece,    \* udp_writes made for this one
    fits,     \* its payload fits the frame of udp_write
    res,      \* how the last call ended
    lock,     \* the task that has the chip between two exchanges
    packet,   \* the chip's packet under construction: who it is addressed by, its bytes
    air,      \* the datagrams sent
    refused,  \* packets whose udp_begin_packet the chip refused
    mishaps

taskVars == <<pc, call, piece, fits, res, lock>>
vars == <<taskVars, packet, air, refused, mishaps>>

\* A packet stands for its destination and its payload.
Packets == Senders \X (1..Calls)

Current(t) == <<t, call[t]>>

PiecesOf(t) == IF t \in Steppers THEN Pieces ELSE 1

\* What the datagram of packet c carries when nothing is missing or mixed up.
Whole(c) == [i \in 1..PiecesOf(c[1]) |-> <<c, i>>]

NoPacket == [to |-> NoSender, bytes |-> <<>>]

Init ==
    /\ pc = [t \in Senders |-> "idle"]
    /\ call = [t \in Senders |-> 0]
    /\ piece = [t \in Senders |-> 0]
    /\ fits = [t \in Senders |-> TRUE]
    /\ res = [t \in Senders |-> "none"]
    /\ lock = NoSender
    /\ packet = [s \in Sockets |-> NoPacket]
    /\ air = <<>>
    /\ refused = {}
    /\ mishaps = 0

-----------------------------------------------------------------------------
\* The chip is the task's for one exchange.
HasChip(t) == lock = t \/ (t \in Steppers /\ lock = NoSender)

Goto(t, l) ==
    /\ pc' = [pc EXCEPT ![t] = l]
    /\ UNCHANGED <<call, piece, fits, res, lock>>

\* Faulty variant: the chip is not given back.
Return_KeepsLock(t, r) ==
    /\ pc' = [pc EXCEPT ![t] = "idle"]
    /\ res' = [res EXCEPT ![t] = r]
    /\ UNCHANGED <<call, piece, fits, lock>>

\* The call is over; udp_send gives the chip back.
Return(t, r) ==
    /\ pc' = [pc EXCEPT ![t] = "idle"]
    /\ res' = [res EXCEPT ![t] = r]
    /\ lock' = IF lock = t THEN NoSender ELSE lock
    /\ UNCHANGED <<call, piece, fits>>

\* A new packet: udp_send waits for the chip, a stepper asks for it when it needs it.
Send(t) ==
    /\ pc[t] = "idle" /\ call[t] < Calls
    /\ IF t \in Steppers THEN UNCHANGED lock ELSE lock = NoSender /\ lock' = t
    /\ pc' = [pc EXCEPT ![t] = "begin"]
    /\ call' = [call EXCEPT ![t] = @ + 1]
    /\ piece' = [piece EXCEPT ![t] = 0]
    /\ \E f \in BOOLEAN : fits' = [fits EXCEPT ![t] = f]
    /\ res' = [res EXCEPT ![t] = "none"]
    /\ UNCHANGED <<packet, air, refused, mishaps>>

Mishap == mishaps < Mishaps /\ mishaps' = mishaps + 1

\* What the three requests do to the chip.
Begun(t) == packet' = [packet EXCEPT ![SocketOf[t]] = [to |-> t, bytes |-> <<>>]]

Appended(t) ==
    packet' = [packet EXCEPT ![SocketOf[t]].bytes = Append(@, <<Current(t), piece[t] + 1>>)]

\* The bytes may stay in the chip's buffer until the next udp_begin_packet.
Aired(t) ==
    /\ air' = Append(air, packet[SocketOf[t]])
    /\ \/ UNCHANGED packet
       \/ packet' = [packet EXCEPT ![SocketOf[t]] = NoPacket]

-----------------------------------------------------------------------------
(* udp_begin_packet is tcp_start_client with UDP_MODE *)

Begin(t) ==
    /\ pc[t] = "begin" /\ HasChip(t)
    /\ Begun(t)
    /\ Goto(t, "write") /\ UNCHANGED mishaps
    /\ UNCHANGED <<air, refused>>

\* A refusal (no parameter in the reply) is accepted like an acknowledgement.
BeginRefused(t) ==
    /\ pc[t] = "begin" /\ HasChip(t)
    /\ refused' = refused \cup {Current(t)}
    /\ Goto(t, "write") /\ Mishap
    /\ UNCHANGED <<packet, air>>

\* Faulty variant: an error is taken like a refusal.
BeginFails_Ignored(t) ==
    /\ pc[t] = "begin" /\ HasChip(t)
    /\ Begun(t) \/ UNCHANGED packet
    /\ Goto(t, "write") /\ Mishap
    /\ UNCHANGED <<air, refused>>

BeginFails(t) ==
    /\ pc[t] = "begin" /\ HasChip(t)
    /\ Begun(t) \/ UNCHANGED packet
    /\ Return(t, "Err") /\ Mishap
    /\ UNCHANGED <<air, refused>>

-----------------------------------------------------------------------------
(* udp_write *)

\* send_cmd_mixed: BufferTooSmall before anything is sent.
WriteTooBig(t) ==
    /\ pc[t] = "write" /\ HasChip(t) /\ ~fits[t]
    /\ Return(t, "Err") /\ UNCHANGED mishaps
    /\ UNCHANGED <<packet, air, refused>>

Write(t) ==
    /\ pc[t] = "write" /\ HasChip(t) /\ fits[t]
    /\ Appended(t)
    /\ piece' = [piece EXCEPT ![t] = @ + 1]
    /\ pc' = [pc EXCEPT ![t] = IF piece[t] + 1 = PiecesOf(t) THEN "end" ELSE "write"]
    /\ UNCHANGED mishaps
    /\ UNCHANGED <<call, fits, res, lock, air, refused>>

\* Refused, or an error.
WriteFails(t) ==
    /\ pc[t] = "write" /\ HasChip(t) /\ fits[t]
    /\ Appended(t) \/ UNCHANGED packet
    /\ Return(t, "Err") /\ Mishap
    /\ UNCHANGED <<air, refused>>

-----------------------------------------------------------------------------
(* udp_end_packet *)

End(t) ==
    /\ pc[t] = "end" /\ HasChip(t)
    /\ Aired(t)
    /\ Return(t, "Ok") /\ UNCHANGED mishaps
    /\ UNCHANGED refused

\* Faulty variant: a SEND_UDP_DATA that fails is made again.
EndFails_Again(t) ==
    /\ pc[t] = "end" /\ HasChip(t)
    /\ Aired(t) \/ UNCHANGED <<packet, air>>
    /\ Goto(t, "end") /\ Mishap
    /\ UNCHANGED refused

EndFails(t) ==
    /\ pc[t] = "end" /\ HasChip(t)
    /\ Aired(t) \/ UNCHANGED <<packet, air>>
    /\ Return(t, "Err") /\ Mishap
    /\ UNCHANGED refused

-----------------------------------------------------------------------------
\* The call's future is dropped, in the middle of an exchange (which had its effect
\* or not) or between two.
Drop(t) ==
    /\ pc[t] # "idle"
    /\ \/ UNCHANGED <<packet, air>>
       \/ pc[t] = "begin" /\ HasChip(t) /\ Begun(t) /\ UNCHANGED air
       \/ pc[t] = "write" /\ HasChip(t) /\ fits[t] /\ Appended(t) /\ UNCHANGED air
       \/ pc[t] = "end" /\ HasChip(t) /\ Aired(t)
    /\ Return(t, "Dropped") /\ Mishap
    /\ UNCHANGED refused

Next ==
    \E t \in Senders :
        \/ Send(t) \/ Begin(t) \/ BeginRefused(t) \/ BeginFails(t)
        \/ WriteTooBig(t) \/ Write(t) \/ WriteFails(t)
        \/ End(t) \/ EndFails(t) \/ Drop(t)

Spec == Init /\ [][Next]_vars

-----------------------------------------------------------------------------
\* udp_send has the chip from its first exchange to its last.
TypeOK ==
    /\ pc \in [Senders -> {"idle", "begin", "write", "end"}]
    /\ call \in [Senders -> 0..Calls]
    /\ piece \in [Senders -> 0..Pieces]
    /\ fits \in [Senders -> BOOLEAN]
    /\ res \in [Senders -> {"none", "Ok", "Err", "Dropped"}]
    /\ lock \in Senders \cup {NoSender}
    /\ \A t \in Senders : lock = t <=> pc[t] # "idle" /\ t \notin Steppers
    /\ \A s \in Sockets : packet[s].to \in Senders \cup {NoSender}
    /\ refused \subseteq Packets
    /\ mishaps \in 0..Mishaps

Carries(d, c) == \E i \in DOMAIN d.bytes : d.bytes[i][1] = c

\* udp_begin_packet reports a refusal as success: the bytes that follow join the
\* packet that was there before, whoever it was addressed by.
Astray(d) == \E c \in refused : Carries(d, c)

\* Every datagram is one packet, whole and to where it belongs, whatever other tasks,
\* errors and dropped calls left in the chip's buffer.
DatagramWhole ==
    \A i \in DOMAIN air :
        ~Astray(air[i]) =>
            \E c \in Packets : air[i].to = c[1] /\ air[i].bytes = Whole(c)

TimesSent(c) == Cardinality({i \in DOMAIN air : ~Astray(air[i]) /\ Carries(air[i], c)})

\* Ok means sent exactly once; an error or a dropped call, at most once; and nothing
\* of a packet is sent before udp_end_packet. Datagrams that carry bytes of a packet
\* whose beginning was refused are not counted.
SentAsReported ==
    \A t \in Senders :
        /\ \A k \in 1..Calls : TimesSent(<<t, k>>) <= 1
        /\ res[t] = "Ok" /\ Current(t) \notin refused => TimesSent(Current(t)) = 1
        /\ res[t] = "none" /\ call[t] > 0 => TimesSent(Current(t)) = 0

=============================================================================
