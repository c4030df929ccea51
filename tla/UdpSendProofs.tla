--------------------------- MODULE UdpSendProofs ---------------------------
(***************************************************************************)
(* Proofs about UdpSend, for all senders, sockets, packets and numbers of  *)
(* pieces and mishaps: a datagram is one packet, and results tell what was *)
(* sent.                                                                   *)
(***************************************************************************)
EXTENDS UdpSend, FiniteSetTheorems, SequenceTheorems, TLAPS

Assumptions ==
    /\ NoSender \notin Senders /\ Steppers \subseteq Senders
    /\ SocketOf \in [Senders -> Sockets]
    /\ Calls \in Nat /\ Pieces \in Nat \ {0} /\ Mishaps \in Nat
    /\ \A t \in Steppers, u \in Senders : SocketOf[t] = SocketOf[u] => t = u

LEMMA AssumptionsHold == Assumptions
BY SendersAssumption, BoundsAssumption, SocketsAssumption DEF Assumptions

\* The first n pieces of packet c.
Prefix(c, n) == [i \in 1..n |-> <<c, i>>]

PacketType == [to : Senders \cup {NoSender}, bytes : Seq(Packets \X Nat)]

\* TypeOK without fits and the packets, and where in a packet a task stands.
Places ==
    /\ pc \in [Senders -> {"idle", "begin", "write", "end"}]
    /\ call \in [Senders -> 0..Calls]
    /\ piece \in [Senders -> 0..Pieces]
    /\ res \in [Senders -> {"none", "Ok", "Err", "Dropped"}]
    /\ lock \in Senders \cup {NoSender}
    /\ \A t \in Senders : lock = t <=> pc[t] # "idle" /\ t \notin Steppers
    /\ refused \subseteq Packets
    /\ mishaps \in 0..Mishaps
    /\ \A t \in Senders :
         /\ pc[t] # "idle" => call[t] \in 1..Calls
         /\ pc[t] = "begin" => piece[t] = 0
         /\ pc[t] = "write" => piece[t] < PiecesOf(t)
         /\ pc[t] = "end" => piece[t] = PiecesOf(t)

FitsType == fits \in [Senders -> BOOLEAN]

Buffers == packet \in [Sockets -> PacketType] /\ air \in Seq(PacketType)

\* What the chip holds of the packet a task is building.
Mine(t) ==
    pc[t] \in {"write", "end"} =>
        IF Current(t) \in refused
        THEN piece[t] > 0 => Carries(packet[SocketOf[t]], Current(t))
        ELSE packet[SocketOf[t]] = [to |-> t, bytes |-> Prefix(Current(t), piece[t])]

\* The call that made packet c has returned.
Over(c) ==
    /\ c[2] <= call[c[1]]
    /\ c[2] = call[c[1]] => pc[c[1]] = "idle" /\ res[c[1]] # "none"

AirWhole ==
    \A i \in DOMAIN air : ~Astray(air[i]) =>
        \E c \in Packets : air[i].to = c[1] /\ air[i].bytes = Whole(c) /\ Over(c)

AirOnce ==
    \A i, j \in DOMAIN air, c \in Packets :
        /\ ~Astray(air[i]) /\ Carries(air[i], c)
        /\ ~Astray(air[j]) /\ Carries(air[j], c)
        => i = j

AirReported ==
    \A t \in Senders : res[t] = "Ok" /\ Current(t) \notin refused =>
        \E i \in DOMAIN air : ~Astray(air[i]) /\ Carries(air[i], Current(t))

UdpInv ==
    /\ Places /\ Buffers
    /\ \A t \in Senders : Mine(t)
    /\ AirWhole /\ AirOnce /\ AirReported

-----------------------------------------------------------------------------
(* Places of the tasks.  fits is Boolean-valued and has a lemma of its own. *)

LEMMA FitsNext == FitsType /\ [Next]_vars => FitsType'
<1> SUFFICES ASSUME FitsType, [Next]_vars PROVE FitsType'
  OBVIOUS
<1>1. ASSUME NEW t \in Senders, Send(t) PROVE FitsType'
  BY <1>1, Zenon DEF Send, FitsType
<1>2. ASSUME NEW t \in Senders,
             \/ Begin(t) \/ BeginRefused(t) \/ BeginFails(t)
             \/ WriteTooBig(t) \/ Write(t) \/ WriteFails(t)
             \/ End(t) \/ EndFails(t) \/ Drop(t)
      PROVE  UNCHANGED fits
  BY <1>2, Zenon DEF Begin, BeginRefused, BeginFails, WriteTooBig, Write, WriteFails, End, EndFails,
     Drop, Goto, Return
<1>3. UNCHANGED vars => UNCHANGED fits
  BY Zenon DEF vars, taskVars
<1>4. UNCHANGED fits => FitsType'
  BY Zenon DEF FitsType
<1> QED
  BY <1>1, <1>2, <1>3, <1>4, Zenon DEF Next

LEMMA CurrentIsPacket ==
    ASSUME Places, NEW t \in Senders, pc[t] # "idle"
    PROVE  Current(t) \in Packets
BY DEF Places, Packets, Current

LEMMA PiecesInNat ==
    ASSUME NEW t
    PROVE  PiecesOf(t) \in Nat \ {0} /\ PiecesOf(t) <= Pieces
BY AssumptionsHold DEF PiecesOf, Assumptions

LEMMA PlacesInit == Init => Places /\ FitsType /\ Buffers
<1> SUFFICES ASSUME Init PROVE Places /\ FitsType /\ Buffers
  OBVIOUS
<1>1. FitsType
  BY Zenon DEF Init, FitsType
<1>2. Places
  BY AssumptionsHold DEF Init, Places, Assumptions
<1>3. Buffers
  <2>1. NoPacket \in PacketType
    BY DEF NoPacket, PacketType
  <2> QED
    BY <2>1 DEF Init, Buffers
<1> QED
  BY <1>1, <1>2, <1>3

LEMMA ReturnPlaces ==
    ASSUME Places, NEW t \in Senders, NEW r \in {"Ok", "Err", "Dropped"}, Return(t, r),
           pc[t] # "idle", refused' = refused, mishaps' \in 0..Mishaps
    PROVE  Places'
BY AssumptionsHold DEF Places, Return, PiecesOf, Assumptions

LEMMA MishapPlaces == ASSUME Places, Mishap PROVE mishaps' \in 0..Mishaps
BY AssumptionsHold DEF Places, Mishap, Assumptions

LEMMA PlacesNext == Places /\ [Next]_vars => Places'
<1> SUFFICES ASSUME Places, [Next]_vars PROVE Places'
  OBVIOUS
<1>m. mishaps' = mishaps => mishaps' \in 0..Mishaps
  BY DEF Places
<1>1. ASSUME NEW t \in Senders, Send(t) PROVE Places'
  <2>1. /\ pc[t] = "idle" /\ call[t] < Calls
        /\ IF t \in Steppers THEN UNCHANGED lock ELSE lock = NoSender /\ lock' = t
        /\ pc' = [pc EXCEPT ![t] = "begin"]
        /\ call' = [call EXCEPT ![t] = @ + 1]
        /\ piece' = [piece EXCEPT ![t] = 0]
        /\ res' = [res EXCEPT ![t] = "none"]
        /\ UNCHANGED <<refused, mishaps>>
    BY <1>1 DEF Send
  <2>2. call[t] + 1 \in 1..Calls
    BY <2>1, AssumptionsHold DEF Places, Assumptions
  <2> QED
    BY <2>1, <2>2, AssumptionsHold DEF Places, PiecesOf, Assumptions
<1>2. ASSUME NEW t \in Senders, Begin(t) PROVE Places'
  BY <1>2, PiecesInNat DEF Begin, Goto, Places, PiecesOf
<1>3. ASSUME NEW t \in Senders, BeginRefused(t) PROVE Places'
  BY <1>3, PiecesInNat, MishapPlaces, CurrentIsPacket DEF BeginRefused, Goto, Places, PiecesOf
<1>4. ASSUME NEW t \in Senders, BeginFails(t) PROVE Places'
  BY <1>4, ReturnPlaces, MishapPlaces DEF BeginFails
<1>5. ASSUME NEW t \in Senders, WriteTooBig(t) PROVE Places'
  BY <1>5, <1>m, ReturnPlaces DEF WriteTooBig
<1>6. ASSUME NEW t \in Senders, Write(t) PROVE Places'
  <2>1. /\ pc[t] = "write"
        /\ piece' = [piece EXCEPT ![t] = @ + 1]
        /\ pc' = [pc EXCEPT ![t] = IF piece[t] + 1 = PiecesOf(t) THEN "end" ELSE "write"]
        /\ UNCHANGED <<call, res, lock, refused, mishaps>>
    BY <1>6 DEF Write
  <2>2. /\ piece[t] + 1 \in 0..Pieces /\ piece[t] + 1 <= PiecesOf(t)
        /\ piece[t] + 1 # PiecesOf(t) => piece[t] + 1 < PiecesOf(t)
    BY <2>1, PiecesInNat, AssumptionsHold DEF Places, Assumptions
  <2> QED
    BY <2>1, <2>2 DEF Places, PiecesOf
<1>7. ASSUME NEW t \in Senders, WriteFails(t) PROVE Places'
  BY <1>7, ReturnPlaces, MishapPlaces DEF WriteFails
<1>8. ASSUME NEW t \in Senders, End(t) PROVE Places'
  BY <1>8, <1>m, ReturnPlaces DEF End
<1>9. ASSUME NEW t \in Senders, EndFails(t) PROVE Places'
  BY <1>9, ReturnPlaces, MishapPlaces DEF EndFails
<1>10. ASSUME NEW t \in Senders, Drop(t) PROVE Places'
  BY <1>10, ReturnPlaces, MishapPlaces DEF Drop
<1>11. CASE UNCHANGED vars
  BY <1>11 DEF vars, taskVars, Places, PiecesOf
<1> QED
  BY <1>1, <1>2, <1>3, <1>4, <1>5, <1>6, <1>7, <1>8, <1>9, <1>10, <1>11 DEF Next

-----------------------------------------------------------------------------
(* The chip's packets *)

LEMMA PrefixIsSeq ==
    ASSUME NEW c, NEW n \in Nat
    PROVE  /\ Prefix(c, n) \in Seq({c} \X Nat) /\ Len(Prefix(c, n)) = n
           /\ \A i \in 1..n : Prefix(c, n)[i] = <<c, i>>
<1> DEFINE S == {c} \X Nat
           p == Prefix(c, n)
<1>1. \A i \in 1..n : <<c, i>> \in S
  OBVIOUS
<1> HIDE DEF S
<1>2. p \in [1..n -> S]
  BY <1>1 DEF Prefix
<1>3. \A i \in 1..n : p[i] = <<c, i>>
  BY DEF Prefix
<1> HIDE DEF p
<1>4. p \in Seq(S) /\ Len(p) = n
  BY <1>2
<1> QED
  BY <1>3, <1>4 DEF p, S

LEMMA PrefixGrows ==
    ASSUME NEW c, NEW n \in Nat
    PROVE  Append(Prefix(c, n), <<c, n + 1>>) = Prefix(c, n + 1)
<1> DEFINE S == {c} \X Nat
           p == Prefix(c, n)
           q == Prefix(c, n + 1)
           x == <<c, n + 1>>
<1>1. x \in S /\ n + 1 \in Nat
  OBVIOUS
<1>2. p \in Seq(S) /\ Len(p) = n /\ q \in Seq(S) /\ Len(q) = n + 1
  BY <1>1, PrefixIsSeq
<1>3. q[n + 1] = x /\ \A i \in 1..n : q[i] = p[i]
  <2>1. \A i \in 1..(n + 1) : q[i] = <<c, i>>
    BY <1>1, PrefixIsSeq
  <2>2. \A i \in 1..n : p[i] = <<c, i>>
    BY PrefixIsSeq
  <2> HIDE DEF p, q
  <2> QED
    BY <2>1, <2>2
<1> HIDE DEF S, p, q, x
<1>4. Append(p, x) = q
  BY <1>1, <1>2, <1>3
<1> QED
  BY <1>4 DEF p, q, x

LEMMA BegunBuffers ==
    ASSUME Places, Buffers, NEW t \in Senders, Begun(t)
    PROVE  packet' \in [Sockets -> PacketType]
<1>1. [to |-> t, bytes |-> <<>>] \in PacketType
  BY DEF PacketType
<1> QED
  BY <1>1 DEF Begun, Buffers

LEMMA AppendedBuffers ==
    ASSUME Places, Buffers, NEW t \in Senders, pc[t] # "idle", Appended(t)
    PROVE  packet' \in [Sockets -> PacketType]
<1> DEFINE x == <<Current(t), piece[t] + 1>>
<1>1. x \in Packets \X Nat
  BY CurrentIsPacket DEF Places
<1>2. SocketOf[t] \in Sockets /\ packet[SocketOf[t]] \in PacketType
  BY AssumptionsHold DEF Assumptions, Buffers
<1>3. packet' = [packet EXCEPT ![SocketOf[t]].bytes = Append(@, x)]
  BY DEF Appended
<1> HIDE DEF x
<1>4. Append(packet[SocketOf[t]].bytes, x) \in Seq(Packets \X Nat)
  BY <1>1, <1>2, AppendProperties DEF PacketType
<1> QED
  BY <1>2, <1>3, <1>4 DEF Buffers, PacketType

LEMMA AiredBuffers ==
    ASSUME Places, Buffers, NEW t \in Senders, Aired(t)
    PROVE  Buffers'
<1>1. NoPacket \in PacketType
  BY DEF NoPacket, PacketType
<1>2. packet[SocketOf[t]] \in PacketType
  BY AssumptionsHold DEF Assumptions, Buffers
<1>3. air' \in Seq(PacketType)
  BY <1>2, AppendProperties DEF Aired, Buffers
<1>4. packet' \in [Sockets -> PacketType]
  BY <1>1 DEF Aired, Buffers
<1> QED
  BY <1>3, <1>4 DEF Buffers

LEMMA BuffersNext == Places /\ Buffers /\ [Next]_vars => Buffers'
<1> SUFFICES ASSUME Places, Buffers, [Next]_vars PROVE Buffers'
  OBVIOUS
<1>1. UNCHANGED <<packet, air>> => Buffers'
  BY DEF Buffers
<1>2. ASSUME NEW t \in Senders, Begun(t), UNCHANGED air PROVE Buffers'
  BY <1>2, BegunBuffers DEF Buffers
<1>3. ASSUME NEW t \in Senders, pc[t] # "idle", Appended(t), UNCHANGED air PROVE Buffers'
  BY <1>3, AppendedBuffers DEF Buffers
<1>4. ASSUME NEW t \in Senders,
             Send(t) \/ BeginRefused(t) \/ WriteTooBig(t)
      PROVE  Buffers'
  BY <1>1, <1>4 DEF Send, BeginRefused, WriteTooBig
<1>5. ASSUME NEW t \in Senders, Begin(t) \/ BeginFails(t) PROVE Buffers'
  BY <1>1, <1>2, <1>5 DEF Begin, BeginFails
<1>6. ASSUME NEW t \in Senders, Write(t) \/ WriteFails(t) PROVE Buffers'
  BY <1>1, <1>3, <1>6 DEF Write, WriteFails
<1>7. ASSUME NEW t \in Senders, End(t) \/ EndFails(t) PROVE Buffers'
  BY <1>1, <1>7, AiredBuffers DEF End, EndFails
<1>8. ASSUME NEW t \in Senders, Drop(t) PROVE Buffers'
  BY <1>1, <1>2, <1>3, <1>8, AiredBuffers DEF Drop
<1>9. CASE UNCHANGED vars
  BY <1>1, <1>9 DEF vars
<1> QED
  BY <1>4, <1>5, <1>6, <1>7, <1>8, <1>9 DEF Next

\* Two tasks in the middle of a packet that both may talk to the chip have sockets of
\* their own.
LEMMA Alone ==
    ASSUME Places, NEW t \in Senders, NEW u \in Senders, pc[t] # "idle", pc[u] # "idle",
           HasChip(u), SocketOf[t] = SocketOf[u]
    PROVE  t = u
<1>1. CASE t \in Steppers
  BY <1>1, AssumptionsHold DEF Assumptions
<1>2. CASE t \notin Steppers /\ lock = u
  BY <1>2 DEF Places
<1>3. CASE t \notin Steppers /\ u \in Steppers
  BY <1>3, AssumptionsHold DEF Assumptions
<1> QED
  BY <1>1, <1>2, <1>3 DEF HasChip

\* A step of t changes no more than t's own place and the packet on its socket.
OnlyOf(t) ==
    /\ \A s \in Sockets : s # SocketOf[t] => packet'[s] = packet[s]
    /\ \A u \in Senders : u # t =>
           pc'[u] = pc[u] /\ call'[u] = call[u] /\ piece'[u] = piece[u]
    /\ refused \subseteq refused' /\ refused' \subseteq refused \cup {Current(t)}

LEMMA OthersMine ==
    ASSUME Places, NEW t \in Senders, NEW u \in Senders, u # t, Mine(u), OnlyOf(t),
           \/ packet' = packet
           \/ pc[t] # "idle" /\ HasChip(t)
    PROVE  Mine(u)'
<1> SUFFICES ASSUME pc'[u] \in {"write", "end"}
             PROVE  IF Current(u)' \in refused'
                    THEN piece'[u] > 0 => Carries(packet'[SocketOf[u]], Current(u)')
                    ELSE packet'[SocketOf[u]] = [to |-> u, bytes |-> Prefix(Current(u)', piece'[u])]
  BY DEF Mine, Carries, Prefix
<1>1. pc[u] \in {"write", "end"} /\ piece'[u] = piece[u] /\ Current(u)' = Current(u)
  BY DEF OnlyOf, Current
<1>2. Current(u) # Current(t)
  BY DEF Current
<1>3. Current(u)' \in refused' <=> Current(u) \in refused
  BY <1>1, <1>2 DEF OnlyOf
<1>4. packet'[SocketOf[u]] = packet[SocketOf[u]]
  <2>1. CASE packet' = packet
    BY <2>1
  <2>2. CASE pc[t] # "idle" /\ HasChip(t)
    <3>1. SocketOf[u] # SocketOf[t]
      BY <1>1, <2>2, Alone
    <3> QED
      BY <3>1, AssumptionsHold DEF OnlyOf, Assumptions
  <2> QED
    BY <2>1, <2>2
<1> QED
  BY <1>1, <1>3, <1>4 DEF Mine

LEMMA OthersPackets ==
    ASSUME Buffers, NEW t \in Senders,
           UNCHANGED packet \/ Begun(t) \/ Appended(t) \/ Aired(t)
    PROVE  \A s \in Sockets : s # SocketOf[t] => packet'[s] = packet[s]
BY DEF Buffers, Begun, Appended, Aired

LEMMA ReturnOnly ==
    ASSUME Places, NEW t \in Senders, NEW r, Return(t, r)
    PROVE  \A u \in Senders : u # t =>
               pc'[u] = pc[u] /\ call'[u] = call[u] /\ piece'[u] = piece[u]
BY DEF Places, Return

\* A step of a task, other than the beginning of a call.
Steps(t) ==
    \/ Begin(t) \/ BeginRefused(t) \/ BeginFails(t)
    \/ WriteTooBig(t) \/ Write(t) \/ WriteFails(t)
    \/ End(t) \/ EndFails(t) \/ Drop(t)

LEMMA StepsReturn ==
    ASSUME NEW t \in Senders, Steps(t)
    PROVE  \/ Begin(t) \/ BeginRefused(t) \/ Write(t)
           \/ \E r : Return(t, r)
BY DEF Steps, BeginFails, WriteTooBig, WriteFails, End, EndFails, Drop

LEMMA StepsChip ==
    ASSUME NEW t \in Senders, Steps(t)
    PROVE  /\ UNCHANGED packet \/ Begun(t) \/ Appended(t) \/ Aired(t)
           /\ UNCHANGED packet \/ (pc[t] # "idle" /\ HasChip(t))
           /\ refused' = refused \/ refused' = refused \cup {Current(t)}
<1>1. CASE Begin(t) \/ BeginRefused(t) \/ BeginFails(t)
  BY <1>1, Zenon DEF Begin, BeginRefused, BeginFails
<1>2. CASE WriteTooBig(t) \/ Write(t) \/ WriteFails(t)
  BY <1>2, Zenon DEF WriteTooBig, Write, WriteFails
<1>3. CASE End(t) \/ EndFails(t) \/ Drop(t)
  BY <1>3, Zenon DEF End, EndFails, Drop
<1> QED
  BY <1>1, <1>2, <1>3, Zenon DEF Steps

LEMMA StepsOnlyOf ==
    ASSUME Places, Buffers, NEW t \in Senders, Steps(t)
    PROVE  OnlyOf(t)
<1> DEFINE Kept == \A u \in Senders : u # t =>
                       pc'[u] = pc[u] /\ call'[u] = call[u] /\ piece'[u] = piece[u]
<1>1. \A s \in Sockets : s # SocketOf[t] => packet'[s] = packet[s]
  BY OthersPackets, StepsChip
<1>2. Kept
  <2>1. CASE Begin(t) \/ BeginRefused(t)
    BY <2>1 DEF Begin, BeginRefused, Goto, Places
  <2>2. CASE Write(t)
    BY <2>2 DEF Write, Places
  <2>3. CASE \E r : Return(t, r)
    BY <2>3, ReturnOnly
  <2> HIDE DEF Kept
  <2> QED
    BY <2>1, <2>2, <2>3, StepsReturn
<1>3. refused \subseteq refused' /\ refused' \subseteq refused \cup {Current(t)}
  BY StepsChip
<1> QED
  BY <1>1, <1>2, <1>3 DEF OnlyOf

LEMMA OwnMine ==
    ASSUME Places, Buffers, NEW t \in Senders, Mine(t), Steps(t)
    PROVE  Mine(t)'
<1>t. SocketOf[t] \in Sockets /\ packet[SocketOf[t]] \in PacketType
  BY AssumptionsHold DEF Assumptions, Buffers
<1>p. packet \in [Sockets -> PacketType] /\ pc[t] \in {"idle", "begin", "write", "end"}
  BY DEF Buffers, Places
<1> SUFFICES ASSUME pc'[t] \in {"write", "end"}
             PROVE  IF Current(t)' \in refused'
                    THEN piece'[t] > 0 => Carries(packet'[SocketOf[t]], Current(t)')
                    ELSE packet'[SocketOf[t]] = [to |-> t, bytes |-> Prefix(Current(t)', piece'[t])]
  BY DEF Mine, Carries, Prefix
<1>1. CASE Begin(t)
  <2>1. /\ packet'[SocketOf[t]] = [to |-> t, bytes |-> <<>>]
        /\ piece'[t] = 0 /\ Current(t)' = Current(t)
    BY <1>1, <1>t, <1>p DEF Begin, Begun, Goto, Places, Current
  <2>2. Prefix(Current(t), 0) = <<>>
    BY DEF Prefix
  <2> QED
    BY <2>1, <2>2
<1>2. CASE BeginRefused(t)
  <2>1. piece'[t] = 0 /\ Current(t)' \in refused'
    BY <1>2 DEF BeginRefused, Goto, Places, Current
  <2> QED
    BY <2>1
<1>3. CASE Write(t)
  <2> DEFINE x == <<Current(t), piece[t] + 1>>
             d == packet[SocketOf[t]]
             e == packet'[SocketOf[t]]
  <2>1. /\ piece[t] \in Nat /\ piece'[t] = piece[t] + 1
        /\ pc[t] = "write"
        /\ refused' = refused
        /\ Current(t)' = Current(t)
    BY <1>3, <1>p DEF Write, Places, Current
  <2>2. e = [d EXCEPT !.bytes = Append(@, x)]
    BY <1>3, <1>t, <1>p DEF Write, Appended
  <2>3. d.bytes \in Seq(Packets \X Nat) /\ x \in Packets \X Nat
    BY <1>t, <2>1, CurrentIsPacket DEF PacketType
  <2>4. e.bytes = Append(d.bytes, x) /\ e.to = d.to
    BY <1>t, <2>2 DEF PacketType
  <2>5. CASE Current(t) \in refused
    <3>1. e.bytes[Len(d.bytes) + 1] = x /\ Len(d.bytes) + 1 \in DOMAIN e.bytes
      <4> HIDE DEF x, e, d
      <4> QED
        BY <2>3, <2>4
    <3>2. Carries(e, Current(t))
      BY <3>1 DEF Carries
    <3> QED
      BY <2>1, <2>5, <3>2
  <2>6. CASE Current(t) \notin refused
    <3>1. d = [to |-> t, bytes |-> Prefix(Current(t), piece[t])]
      BY <2>1, <2>6 DEF Mine
    <3>2. e = [to |-> t, bytes |-> Append(Prefix(Current(t), piece[t]), x)]
      BY <2>2, <3>1
    <3> QED
      BY <2>1, <2>6, <3>2, PrefixGrows
  <2> QED
    BY <2>5, <2>6
<1>4. CASE \E r : Return(t, r)
  BY <1>4 DEF Return, Places
<1> QED
  BY <1>1, <1>2, <1>3, <1>4, StepsReturn

LEMMA MineNext ==
    ASSUME Places, Buffers, \A t \in Senders : Mine(t), [Next]_vars
    PROVE  (\A t \in Senders : Mine(t))'
<1>1. ASSUME NEW t \in Senders, Send(t), NEW u \in Senders PROVE Mine(u)'
  <2>1. CASE u = t
    BY <1>1, <2>1 DEF Send, Places, Mine
  <2>2. CASE u # t
    <3>1. OnlyOf(t) /\ packet' = packet
      BY <1>1 DEF Send, OnlyOf, Places
    <3> QED
      BY <2>2, <3>1, OthersMine
  <2> QED
    BY <2>1, <2>2
<1>2. ASSUME NEW t \in Senders, Steps(t), NEW u \in Senders PROVE Mine(u)'
  BY <1>2, StepsOnlyOf, StepsChip, OwnMine, OthersMine
<1>3. UNCHANGED vars => \A u \in Senders : Mine(u)'
  BY DEF vars, taskVars, Mine, Current, Carries, Prefix
<1> QED
  BY <1>1, <1>2, <1>3 DEF Next, Steps

-----------------------------------------------------------------------------
(* What was sent *)

AirInv == AirWhole /\ AirOnce /\ AirReported

LEMMA WholeCarries ==
    ASSUME NEW c, NEW d, d.bytes = Whole(c)
    PROVE  Carries(d, c) /\ \A e : Carries(d, e) => e = c
<1>1. Whole(c) = Prefix(c, PiecesOf(c[1])) /\ PiecesOf(c[1]) \in Nat \ {0}
  BY PiecesInNat DEF Whole, Prefix
<1>2. DOMAIN d.bytes = 1..PiecesOf(c[1]) /\ \A i \in 1..PiecesOf(c[1]) : d.bytes[i] = <<c, i>>
  BY DEF Whole
<1>3. 1 \in 1..PiecesOf(c[1])
  BY <1>1
<1> QED
  BY <1>2, <1>3 DEF Carries

\* A datagram that carries a packet, and no refused one, is that packet.
LEMMA CarriedIsWhole ==
    ASSUME AirWhole, NEW i \in DOMAIN air, ~Astray(air[i]), NEW c, Carries(air[i], c)
    PROVE  air[i].bytes = Whole(c) /\ c \in Packets /\ Over(c)
<1>1. PICK e \in Packets : air[i].bytes = Whole(e) /\ Over(e)
  BY DEF AirWhole
<1>2. c = e
  BY <1>1, WholeCarries
<1> QED
  BY <1>1, <1>2

LEMMA OverStays ==
    ASSUME Places, [Next]_vars, NEW c \in Packets, Over(c)
    PROVE  Over(c)'
<1>c. c[1] \in Senders /\ c[2] \in Nat /\ call[c[1]] \in Nat
  BY AssumptionsHold DEF Packets, Places, Assumptions
<1>1. ASSUME NEW t \in Senders, Send(t) PROVE Over(c)'
  BY <1>1, <1>c DEF Send, Places, Over
<1>2. ASSUME NEW t \in Senders, Steps(t) PROVE Over(c)'
  <2>1. pc[t] # "idle"
    BY <1>2 DEF Steps, Begin, BeginRefused, BeginFails, WriteTooBig, Write, WriteFails, End,
       EndFails, Drop
  <2>2. call' = call
    BY <1>2, StepsReturn DEF Begin, BeginRefused, Write, Return, Goto
  <2>3. \A u \in Senders : u # t => pc'[u] = pc[u] /\ res'[u] = res[u]
    BY <1>2, StepsReturn DEF Begin, BeginRefused, Write, Return, Goto, Places
  <2>4. CASE c[1] = t
    BY <1>c, <2>1, <2>2, <2>4 DEF Over
  <2>5. CASE c[1] # t
    BY <1>c, <2>2, <2>3, <2>5 DEF Over
  <2> QED
    BY <2>4, <2>5
<1>3. UNCHANGED vars => Over(c)'
  BY DEF vars, taskVars, Over
<1> QED
  BY <1>1, <1>2, <1>3 DEF Next, Steps

\* A step that sends nothing.
LEMMA AirKept ==
    ASSUME Places, [Next]_vars, AirInv, air' = air, refused \subseteq refused',
           \A u \in Senders : res'[u] = "Ok" /\ Current(u)' \notin refused' =>
               res[u] = "Ok" /\ Current(u)' = Current(u)
    PROVE  AirInv'
<1>1. \A d : Astray(d) => \E c \in refused' : Carries(d, c)
  BY DEF Astray
<1>2. AirWhole'
  <2> SUFFICES ASSUME NEW i \in DOMAIN air, ~Astray(air[i])
               PROVE  \E c \in Packets : air[i].to = c[1] /\ air[i].bytes = Whole(c) /\ Over(c)'
    BY <1>1 DEF AirWhole, Astray
  <2>1. PICK c \in Packets : air[i].to = c[1] /\ air[i].bytes = Whole(c) /\ Over(c)
    BY DEF AirInv, AirWhole
  <2> QED
    BY <2>1, OverStays
<1>3. AirOnce'
  BY <1>1 DEF AirInv, AirOnce, Astray
<1>4. AirReported'
  <2> SUFFICES ASSUME NEW u \in Senders, res'[u] = "Ok", Current(u)' \notin refused'
               PROVE  \E i \in DOMAIN air : /\ ~\E c \in refused' : Carries(air[i], c)
                                            /\ Carries(air[i], Current(u)')
    BY DEF AirReported, Astray
  <2>1. res[u] = "Ok" /\ Current(u)' = Current(u) /\ Current(u) \notin refused
    OBVIOUS
  <2>2. PICK i \in DOMAIN air : ~Astray(air[i]) /\ Carries(air[i], Current(u))
    BY <2>1 DEF AirInv, AirReported
  <2>3. air[i].bytes = Whole(Current(u))
    BY <2>2, CarriedIsWhole DEF AirInv
  <2>4. \A c : Carries(air[i], c) => c = Current(u)
    BY <2>3, WholeCarries
  <2> QED
    BY <2>1, <2>2, <2>4
<1> QED
  BY <1>2, <1>3, <1>4 DEF AirInv

\* A step that sends the packet of a socket.
LEMMA AirGrown ==
    ASSUME Places, Buffers, [Next]_vars, AirInv, NEW t \in Senders, Mine(t), pc[t] = "end",
           Aired(t), NEW r \in {"Ok", "Err", "Dropped"}, Return(t, r), refused' = refused
    PROVE  AirInv'
<1> DEFINE d == packet[SocketOf[t]]
           n == Len(air) + 1
<1>1. air' = Append(air, d) /\ air \in Seq(PacketType) /\ d \in PacketType
  BY AssumptionsHold DEF Aired, Buffers, Assumptions
<1>2. /\ DOMAIN air = 1..Len(air) /\ DOMAIN air' = 1..n /\ Len(air) \in Nat
      /\ air'[n] = d /\ \A i \in DOMAIN air : air'[i] = air[i]
  BY <1>1
<1>3. DOMAIN air' = DOMAIN air \cup {n} /\ n \notin DOMAIN air
  BY <1>2
<1>4. \A e : Astray(e) <=> \E c \in refused' : Carries(e, c)
  BY DEF Astray
<1>5. /\ pc'[t] = "idle" /\ res'[t] = r /\ call' = call
      /\ \A u \in Senders : u # t => res'[u] = res[u]
      /\ \A u : Current(u)' = Current(u)
  BY DEF Return, Places, Current
<1>6. piece[t] = PiecesOf(t) /\ Current(t) \in Packets
  BY CurrentIsPacket DEF Places
<1>d. HIDE DEF d, n
<1>7. \A i \in DOMAIN air : ~Astray(air[i]) =>
          \E c \in Packets : air'[i].to = c[1] /\ air'[i].bytes = Whole(c) /\ Over(c)'
  BY <1>2, OverStays DEF AirInv, AirWhole
<1>8. ASSUME NEW u \in Senders, u # t, res'[u] = "Ok", Current(u) \notin refused
      PROVE  \E i \in DOMAIN air' : ~Astray(air'[i]) /\ Carries(air'[i], Current(u))
  BY <1>2, <1>3, <1>5, <1>8 DEF AirInv, AirReported
<1>9. CASE Current(t) \in refused
  <2>1. Astray(d)
    BY <1>6, <1>9, PiecesInNat DEF Mine, Astray, d
  <2>2. \A i \in DOMAIN air' : ~Astray(air'[i]) => i \in DOMAIN air /\ air'[i] = air[i]
    BY <1>2, <1>3, <2>1
  <2>3. AirWhole'
    BY <1>4, <1>7, <2>2 DEF AirWhole, Astray
  <2>4. AirOnce'
    BY <1>4, <2>2 DEF AirInv, AirOnce, Astray
  <2>5. AirReported'
    BY <1>4, <1>5, <1>8, <1>9 DEF AirReported, Astray
  <2> QED
    BY <2>3, <2>4, <2>5 DEF AirInv
<1>10. CASE Current(t) \notin refused
  <2>1. d.to = t /\ d.bytes = Whole(Current(t))
    <3>1. d = [to |-> t, bytes |-> Prefix(Current(t), PiecesOf(t))]
      BY <1>6, <1>10 DEF Mine, d
    <3>2. Current(t)[1] = t
      BY DEF Current
    <3>3. Whole(Current(t)) = Prefix(Current(t), PiecesOf(t))
      BY <3>2 DEF Whole, Prefix
    <3> QED
      BY <3>1, <3>3
  <2>2. Carries(d, Current(t)) /\ \A c : Carries(d, c) => c = Current(t)
    BY <2>1, WholeCarries
  <2>3. ~Astray(d)
    BY <1>10, <2>2 DEF Astray
  <2>4. \A c \in Packets : c = Current(t) => Over(c)'
    BY <1>5 DEF Over, Current, Places
  <2>5. ~Over(Current(t))
    BY DEF Over, Current, Places
  <2>6. \A i \in DOMAIN air : ~Astray(air[i]) => ~Carries(air[i], Current(t))
    BY <2>5, CarriedIsWhole DEF AirInv
  <2>7. AirWhole'
    <3>1. air'[n].to = Current(t)[1] /\ air'[n].bytes = Whole(Current(t))
      BY <1>2, <2>1 DEF Current
    <3>2. \A i \in DOMAIN air' : ~Astray(air'[i]) =>
              \E c \in Packets : air'[i].to = c[1] /\ air'[i].bytes = Whole(c) /\ Over(c)'
      <4> SUFFICES ASSUME NEW i \in DOMAIN air', ~Astray(air'[i])
                   PROVE  \E c \in Packets : air'[i].to = c[1] /\ air'[i].bytes = Whole(c) /\ Over(c)'
        OBVIOUS
      <4>1. CASE i = n
        BY <1>6, <2>4, <3>1, <4>1
      <4>2. CASE i \in DOMAIN air
        BY <1>2, <1>7, <4>2
      <4> QED
        BY <1>3, <4>1, <4>2
    <3> QED
      BY <1>4, <3>2 DEF AirWhole, Astray
  <2>8. AirOnce'
    <3> SUFFICES ASSUME NEW i \in DOMAIN air', NEW j \in DOMAIN air', NEW c \in Packets,
                        ~Astray(air'[i]), Carries(air'[i], c), ~Astray(air'[j]), Carries(air'[j], c)
                 PROVE  i = j
      BY <1>4 DEF AirOnce, Astray
    <3>1. CASE i \in DOMAIN air /\ j \in DOMAIN air
      BY <1>2, <3>1 DEF AirInv, AirOnce
    <3>2. CASE i = n \/ j = n
      BY <1>2, <1>3, <2>2, <2>6, <3>2
    <3> QED
      BY <1>3, <3>1, <3>2
  <2>9. AirReported'
    <3> SUFFICES ASSUME NEW u \in Senders, res'[u] = "Ok", Current(u)' \notin refused'
                 PROVE  \E i \in DOMAIN air' : ~Astray(air'[i]) /\ Carries(air'[i], Current(u))
      BY <1>4, <1>5 DEF AirReported, Astray
    <3>1. CASE u = t
      BY <1>2, <1>3, <2>2, <2>3, <3>1
    <3>2. CASE u # t
      BY <1>5, <1>8, <3>2
    <3> QED
      BY <3>1, <3>2
  <2> QED
    BY <2>7, <2>8, <2>9 DEF AirInv
<1> QED
  BY <1>9, <1>10

LEMMA StepsAir ==
    ASSUME Places, NEW t \in Senders, Steps(t), air' # air
    PROVE  /\ pc[t] = "end" /\ Aired(t) /\ refused' = refused
           /\ \E r \in {"Ok", "Err", "Dropped"} : Return(t, r)
<1>1. CASE Begin(t) \/ BeginRefused(t) \/ BeginFails(t) \/ WriteTooBig(t) \/ Write(t) \/ WriteFails(t)
  BY <1>1 DEF Begin, BeginRefused, BeginFails, WriteTooBig, Write, WriteFails
<1>2. CASE End(t) \/ EndFails(t)
  BY <1>2 DEF End, EndFails
<1>3. CASE Drop(t)
  <2>1. pc[t] = "end" /\ Aired(t) /\ Return(t, "Dropped") /\ refused' = refused
    BY <1>3, Zenon DEF Drop
  <2> QED
    BY <2>1
<1> QED
  BY <1>1, <1>2, <1>3 DEF Steps

LEMMA AirNext ==
    ASSUME Places, Buffers, \A t \in Senders : Mine(t), AirInv, [Next]_vars
    PROVE  AirInv'
<1> DEFINE Quiet ==
        /\ refused \subseteq refused'
        /\ \A u \in Senders : res'[u] = "Ok" /\ Current(u)' \notin refused' =>
               res[u] = "Ok" /\ Current(u)' = Current(u)
<1>1. ASSUME NEW t \in Senders, Send(t) PROVE AirInv'
  <2>1. air' = air /\ Quiet
    BY <1>1 DEF Send, Places, Current
  <2> QED
    BY <2>1, AirKept
<1>2. ASSUME NEW t \in Senders, Steps(t), air' = air PROVE AirInv'
  <2>1. refused \subseteq refused'
    BY <1>2, StepsChip
  <2>2. CASE Begin(t) \/ BeginRefused(t) \/ Write(t)
    <3>1. UNCHANGED <<res, call>>
      BY <2>2 DEF Begin, BeginRefused, Write, Goto
    <3>2. Quiet
      BY <2>1, <3>1 DEF Current
    <3> QED
      BY <1>2, <3>2, AirKept
  <2>3. ASSUME NEW r \in {"Err", "Dropped"}, Return(t, r) PROVE AirInv'
    <3>1. Quiet
      BY <2>1, <2>3 DEF Return, Current, Places
    <3> QED
      BY <1>2, <3>1, AirKept
  <2>4. CASE BeginFails(t) \/ WriteTooBig(t) \/ WriteFails(t) \/ EndFails(t)
    BY <2>3, <2>4 DEF BeginFails, WriteTooBig, WriteFails, EndFails
  <2>5. CASE Drop(t)
    BY <2>3, <2>5, Zenon DEF Drop
  <2>6. CASE End(t)
    <3>1. air' = Append(air, packet[SocketOf[t]]) /\ air \in Seq(PacketType)
      BY <2>6 DEF End, Aired, Buffers
    <3>2. Len(air') = Len(air) + 1 /\ Len(air) \in Nat
      BY <3>1
    <3> QED
      BY <1>2, <3>2
  <2> QED
    BY <1>2, <2>2, <2>4, <2>5, <2>6 DEF Steps
<1>3. ASSUME NEW t \in Senders, Steps(t), air' # air PROVE AirInv'
  BY <1>3, StepsAir, AirGrown
<1>4. CASE UNCHANGED vars
  <2>1. air' = air /\ Quiet
    BY <1>4 DEF vars, taskVars, Current
  <2> QED
    BY <2>1, AirKept
<1> QED
  BY <1>1, <1>2, <1>3, <1>4 DEF Next, Steps

-----------------------------------------------------------------------------
LEMMA UdpInvInit == Init => UdpInv
<1> SUFFICES ASSUME Init PROVE UdpInv
  OBVIOUS
<1>1. Places /\ Buffers
  BY PlacesInit
<1>2. \A t \in Senders : Mine(t)
  BY DEF Init, Mine
<1>3. AirWhole /\ AirOnce /\ AirReported
  BY DEF Init, AirWhole, AirOnce, AirReported
<1> QED
  BY <1>1, <1>2, <1>3 DEF UdpInv

LEMMA UdpInvNext == UdpInv /\ [Next]_vars => UdpInv'
BY PlacesNext, BuffersNext, MineNext, AirNext DEF UdpInv, AirInv

LEMMA UdpAlways == Spec => []UdpInv
BY UdpInvInit, UdpInvNext, PTL DEF Spec

\* udp_send has the chip from its first exchange to its last, a task that steps
\* through a packet never keeps it between two, and every packet is of a sender.
THEOREM UdpTypes == Spec => []TypeOK
<1>1. Init => FitsType
  BY PlacesInit
<1>2. Spec => []FitsType
  BY <1>1, FitsNext, PTL DEF Spec
<1>3. UdpInv /\ FitsType => TypeOK
  <2> SUFFICES ASSUME UdpInv, FitsType PROVE TypeOK
    OBVIOUS
  <2>1. \A s \in Sockets : packet[s].to \in Senders \cup {NoSender}
    BY DEF UdpInv, Buffers, PacketType
  <2>2. /\ pc \in [Senders -> {"idle", "begin", "write", "end"}]
        /\ call \in [Senders -> 0..Calls]
        /\ piece \in [Senders -> 0..Pieces]
        /\ res \in [Senders -> {"none", "Ok", "Err", "Dropped"}]
        /\ lock \in Senders \cup {NoSender}
        /\ \A t \in Senders : lock = t <=> pc[t] # "idle" /\ t \notin Steppers
        /\ refused \subseteq Packets
        /\ mishaps \in 0..Mishaps
    BY DEF UdpInv, Places
  <2>3. fits \in [Senders -> BOOLEAN]
    BY Zenon DEF FitsType
  <2> QED
    BY <2>1, <2>2, <2>3, Zenon DEF TypeOK
<1> QED
  BY <1>2, <1>3, UdpAlways, PTL

\* Every datagram that leaves the chip is one packet of one task, complete and to where
\* that task addressed it, unless it carries bytes of a packet whose beginning the chip
\* refused: whatever errors, dropped calls and other tasks left in the chip's buffer,
\* udp_begin_packet starts from nothing.
THEOREM DatagramsAreWhole == Spec => []DatagramWhole
<1>1. UdpInv => DatagramWhole
  BY DEF UdpInv, AirWhole, DatagramWhole
<1> QED
  BY <1>1, UdpAlways, PTL

\* Ok of udp_send or udp_end_packet means that the packet went out exactly once, an
\* error or a dropped call that it went out at most once, and before the last
\* exchange it has not gone out at all.
THEOREM ResultsTellWhatWasSent == Spec => []SentAsReported
<1>1. UdpInv => SentAsReported
  <2> SUFFICES ASSUME UdpInv, NEW t \in Senders
               PROVE  /\ \A k \in 1..Calls : TimesSent(<<t, k>>) <= 1
                      /\ res[t] = "Ok" /\ Current(t) \notin refused => TimesSent(Current(t)) = 1
                      /\ res[t] = "none" /\ call[t] > 0 => TimesSent(Current(t)) = 0
    BY DEF SentAsReported
  <2> DEFINE Sent(c) == {i \in DOMAIN air : ~Astray(air[i]) /\ Carries(air[i], c)}
  <2>1. ASSUME NEW c \in Packets, Sent(c) # {} PROVE \E i : Sent(c) = {i}
    BY <2>1 DEF UdpInv, AirOnce
  <2>2. \A c : TimesSent(c) = Cardinality(Sent(c))
    BY DEF TimesSent
  <2>3. ASSUME NEW c PROVE Sent(c) = {} => TimesSent(c) = 0
    BY <2>2, FS_EmptySet
  <2>4. ASSUME NEW c \in Packets PROVE Sent(c) # {} => TimesSent(c) = 1
    BY <2>1, <2>2, FS_Singleton
  <2>5. ASSUME NEW k \in 1..Calls PROVE TimesSent(<<t, k>>) <= 1
    <3>1. <<t, k>> \in Packets
      BY DEF Packets
    <3> HIDE DEF Sent
    <3> QED
      BY <2>3, <2>4, <3>1
  <2>6. ASSUME res[t] = "Ok", Current(t) \notin refused PROVE TimesSent(Current(t)) = 1
    <3>1. PICK i \in DOMAIN air : ~Astray(air[i]) /\ Carries(air[i], Current(t))
      BY <2>6 DEF UdpInv, AirReported
    <3>2. Current(t) \in Packets
      BY <3>1, CarriedIsWhole DEF UdpInv
    <3>3. Sent(Current(t)) # {}
      BY <3>1
    <3> HIDE DEF Sent
    <3> QED
      BY <2>4, <3>2, <3>3
  <2>7. ASSUME res[t] = "none" PROVE TimesSent(Current(t)) = 0
    <3>1. ~Over(Current(t))
      BY <2>7 DEF UdpInv, Places, Over, Current
    <3>2. Sent(Current(t)) = {}
      BY <3>1, CarriedIsWhole DEF UdpInv
    <3> QED
      BY <2>3, <3>2
  <2> QED
    BY <2>5, <2>6, <2>7
<1> QED
  BY <1>1, UdpAlways, PTL

=============================================================================
