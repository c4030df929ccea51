------------------------- MODULE FrameReaderProofs -------------------------
(***************************************************************************)
(* Proofs about FrameReader, for every byte width, every choice of the     *)
(* framing bytes and every size of the caller's buffer.                    *)
(***************************************************************************)
EXTENDS FrameReader, SequenceTheorems, TLAPS

LEMMA BytesAreNats ==
    /\ Base \in Nat /\ Base > 1 /\ Bytes \subseteq Nat
    /\ 0 \in Bytes /\ 1 \in Bytes
    /\ START \in Bytes /\ ERR \in Bytes /\ END \in Bytes /\ REPLY \in Bytes
    /\ Payload \subseteq Bytes /\ Sizes \subseteq Nat
    /\ Polls \in Nat /\ Polls > 0
BY BytesAssumption DEF Bytes

LEMMA TwoBytesAreNat ==
    ASSUME NEW hi \in Bytes, NEW lo \in Bytes
    PROVE  hi * Base + lo \in Nat
<1>1. hi \in Nat /\ lo \in Nat /\ Base \in Nat
  BY BytesAreNats
<1>2. hi * Base \in Nat
  BY <1>1
<1> QED
  BY <1>1, <1>2

\* The part of a buffer that is written is a sequence of bytes.
LEMMA PartOfBuffer ==
    ASSUME NEW b \in Seq(Bytes), NEW w \in 0..Len(b)
    PROVE  /\ SubSeq(b, 1, w) \in Seq(Bytes)
           /\ Len(SubSeq(b, 1, w)) = w
           /\ \A i \in 1..w : SubSeq(b, 1, w)[i] = b[i]
<1>1. w \in Int /\ \A i \in 1..w : b[i] \in Bytes
  BY ElementOfSeq, LenProperties
<1>2. /\ SubSeq(b, 1, w) \in Seq(Bytes)
      /\ Len(SubSeq(b, 1, w)) = IF 1 <= w THEN w - 1 + 1 ELSE 0
      /\ \A i \in 1..(w - 1 + 1) : SubSeq(b, 1, w)[i] = b[1 + i - 1]
  BY <1>1, SubSeqProperties
<1> QED
  BY <1>1, <1>2, LenProperties

\* A write right after the bytes written so far extends them by one.
LEMMA WriteExtends ==
    ASSUME NEW b \in Seq(Bytes), NEW w \in Nat, w < Len(b), NEW x \in Bytes
    PROVE  LET c == [b EXCEPT ![w + 1] = x]
           IN  /\ c \in Seq(Bytes) /\ Len(c) = Len(b)
               /\ c[w + 1] = x
               /\ \A i \in 1..Len(b) : i # w + 1 => c[i] = b[i]
               /\ SubSeq(c, 1, w + 1) = SubSeq(b, 1, w) \o <<x>>
<1> DEFINE c == [b EXCEPT ![w + 1] = x]
<1>1. w + 1 \in 1..Len(b) /\ Len(b) \in Nat /\ w \in 0..Len(b)
  BY LenProperties
<1>2. c \in Seq(Bytes) /\ Len(c) = Len(b)
      /\ \A i \in 1..Len(b) : c[i] = IF i = w + 1 THEN x ELSE b[i]
  BY <1>1, ExceptSeq
<1> HIDE DEF c
<1>3. SubSeq(c, 1, w + 1) = SubSeq(c, 1, w) \o <<c[w + 1]>>
  <2>1. 1 \in 1..Len(c) /\ w + 1 \in 1..Len(c) /\ (w + 1) - 1 = w
    BY <1>1, <1>2
  <2> QED
    BY <1>2, <2>1, SubSeqRecursiveSecond
<1>4. SubSeq(c, 1, w) = SubSeq(b, 1, w)
  <2>1. /\ SubSeq(c, 1, w) \in Seq(Bytes) /\ Len(SubSeq(c, 1, w)) = w
        /\ \A i \in 1..w : SubSeq(c, 1, w)[i] = c[i]
    BY <1>1, <1>2, PartOfBuffer
  <2>2. /\ SubSeq(b, 1, w) \in Seq(Bytes) /\ Len(SubSeq(b, 1, w)) = w
        /\ \A i \in 1..w : SubSeq(b, 1, w)[i] = b[i]
    BY <1>1, PartOfBuffer
  <2>3. \A i \in 1..w : c[i] = b[i]
    BY <1>1, <1>2
  <2> HIDE DEF c
  <2> QED
    BY <2>1, <2>2, <2>3, SeqEqual
<1>5. c[w + 1] = x
  BY <1>1, <1>2
<1> QED
  BY <1>1, <1>2, <1>3, <1>4, <1>5 DEF c

-----------------------------------------------------------------------------
(* Types: no write leaves the buffer *)

LEMMA InitType == Init => TypeOK
<1> SUFFICES ASSUME Init PROVE TypeOK
  OBVIOUS
<1>1. PICK n \in Sizes, b \in {0} \cup Payload : buf = [i \in 1..n |-> b]
  BY Zenon DEF Init
<1>2. n \in Nat /\ b \in Bytes
  BY BytesAreNats
<1>3. buf \in Seq(Bytes) /\ Len(buf) \in Nat
  BY <1>1, <1>2, IsASeq, LenProperties
<1>4. heard \in Seq(Bytes)
  BY EmptySeq DEF Init
<1> QED
  BY <1>3, <1>4, BytesAreNats DEF Init, TypeOK

\* What the receive functions do to the counters keeps their types.
LEMMA ProceedType ==
    ASSUME TypeOK, NEW l \in Nat, NEW t \in Nat, Proceed(l, t),
           num' \in Bytes, t <= num', res = "none", rem = 0, at = 0,
           buf' \in Seq(Bytes), heard' \in Seq(Bytes),
           written' \in Nat, written' + l <= Len(buf')
    PROVE  TypeOK'
<1>1. Len(buf') \in Nat
  BY LenProperties
<1>2. num' \in Nat
  BY BytesAreNats
<1>3. rem' = 0 /\ at' = 0 /\ res' = "none" /\ fn' = fn /\ polls' = polls
      /\ left' = l /\ todo' = t
      /\ pc' = IF l > 0 THEN "data" ELSE IF t > 0 THEN "length" ELSE "end"
  BY DEF Proceed, iterVars
<1>4. /\ pc' \in {"data", "length", "end"}
      /\ pc' = "data" => l > 0
      /\ pc' = "length" => t > 0
  BY <1>3
<1>5. polls \in 0..(Polls - 1) /\ fn \in {"one", "one16", "into"}
  BY DEF TypeOK
<1> QED
  BY <1>1, <1>2, <1>3, <1>4, <1>5 DEF TypeOK

LEMMA ReturnType ==
    ASSUME TypeOK, NEW r \in {"Ok", "Nina", "Timeout", "Framing", "BufferTooSmall", "Spi"},
           Return(r), heard' \in Seq(Bytes)
    PROVE  TypeOK'
BY DEF TypeOK, Return, readVars, iterVars

\* While a function is reading, nothing is returned or iterated over yet.
Quiet ==
    pc \in {"start", "header", "length", "data", "end"} => res = "none" /\ rem = 0 /\ at = 0

\* What is known where the function is about to read.
AtHeader ==
    /\ pc \in {"start", "header"} => written = 0
    /\ pc \in {"length", "end"} => left = 0
    /\ pc = "length" => fn # "one"
    /\ fn = "one16" /\ pc = "length" => written = 0 /\ num = 1 /\ todo = 1
    /\ fn # "into" /\ pc \in {"data", "end"} => todo = 0
    /\ pc \in {"done", "iter", "over"} => res # "none"

TypeInv == TypeOK /\ Quiet /\ AtHeader

\* Bytes heard are bytes.
LEMMA HeardGrows ==
    ASSUME heard \in Seq(Bytes)
    PROVE  /\ \A x \in Bytes : heard \o <<x>> \in Seq(Bytes)
           /\ \A x, y \in Bytes : heard \o <<x, y>> \in Seq(Bytes)
           /\ \A x, y, z \in Bytes : heard \o <<x, y, z>> \in Seq(Bytes)
<1>1. ASSUME NEW x \in Bytes PROVE <<x>> \in Seq(Bytes)
  BY <1>1
<1>2. ASSUME NEW x \in Bytes, NEW y \in Bytes PROVE <<x, y>> \in Seq(Bytes)
  BY <1>2
<1>3. ASSUME NEW x \in Bytes, NEW y \in Bytes, NEW z \in Bytes PROVE <<x, y, z>> \in Seq(Bytes)
  BY <1>3
<1> QED
  BY <1>1, <1>2, <1>3, ConcatProperties

LEMMA TypeNext == TypeInv /\ [Next]_vars => TypeInv'
<1> SUFFICES ASSUME TypeInv, [Next]_vars PROVE TypeInv'
  OBVIOUS
<1>t. TypeOK /\ Quiet /\ AtHeader
  BY DEF TypeInv
<1>b. /\ buf \in Seq(Bytes) /\ heard \in Seq(Bytes)
      /\ Len(buf) \in Nat /\ written \in Nat /\ written <= Len(buf)
      /\ num \in Nat /\ num \in Bytes /\ todo \in Nat /\ todo <= num /\ left \in Nat
  BY <1>t, LenProperties, BytesAreNats DEF TypeOK
<1>p. ASSUME NEW l \in Nat, NEW t \in Nat, Proceed(l, t), res = "none", rem = 0, at = 0,
             (l > 0 /\ fn # "into") => t = 0,
             (~(l > 0) /\ t > 0) => fn # "one" /\ (fn = "one16" => written' = 0 /\ num' = 1 /\ t = 1),
             (~(l > 0) /\ ~(t > 0)) => t = 0
      PROVE  Quiet' /\ AtHeader'
  BY <1>p DEF Quiet, AtHeader, Proceed, iterVars
<1>r. ASSUME NEW r \in {"Ok", "Nina", "Timeout", "Framing", "BufferTooSmall", "Spi"}, Return(r)
      PROVE  Quiet' /\ AtHeader'
  BY <1>r DEF Quiet, AtHeader, Return, readVars, iterVars
<1>1. CASE Start
  <2>1. heard' \in Seq(Bytes)
    BY <1>1, BytesAreNats DEF Start
  <2> QED
    BY <1>1, <1>t, <1>b, <2>1 DEF Start, TypeInv, TypeOK, Quiet, AtHeader, readVars, iterVars
<1>2. CASE ErrCmd
  <2>1. Return("Nina") /\ heard' \in Seq(Bytes)
    BY <1>2, <1>b DEF ErrCmd
  <2> QED
    BY <2>1, <1>t, <1>r, ReturnType DEF TypeInv
<1>3. CASE Idle
  <2>1. heard' \in Seq(Bytes)
    BY <1>3, <1>b DEF Idle
  <2>2. CASE polls + 1 < Polls
    BY <1>3, <2>1, <2>2, <1>t, <1>b, BytesAreNats
       DEF Idle, TypeInv, TypeOK, Quiet, AtHeader, iterVars
  <2>3. CASE ~(polls + 1 < Polls)
    <3>1. Return("Timeout")
      BY <1>3, <2>3 DEF Idle
    <3> QED
      BY <2>1, <3>1, <1>t, <1>r, ReturnType DEF TypeInv
  <2> QED
    BY <2>2, <2>3
<1>4. CASE HeaderOne
  <2>0. res = "none" /\ rem = 0 /\ at = 0 /\ written = 0 /\ fn = "one"
    BY <1>4, <1>t DEF HeaderOne, Quiet, AtHeader
  <2>1. PICK reply \in Bytes, count \in Bytes, len \in Bytes :
           /\ heard' = heard \o <<reply, count, len>>
           /\ IF reply # REPLY \/ count # 1 THEN Return("Framing")
              ELSE IF len > Len(buf) THEN Return("BufferTooSmall")
              ELSE Proceed(len, 0) /\ num' = 1 /\ UNCHANGED <<buf, written>>
    BY <1>4, Zenon DEF HeaderOne
  <2>2. heard' \in Seq(Bytes)
    BY <2>1, <1>b, HeardGrows
  <2>3. CASE Return("Framing")
    BY <2>2, <2>3, <1>t, <1>r, ReturnType DEF TypeInv
  <2>4. CASE Return("BufferTooSmall")
    BY <2>2, <2>4, <1>t, <1>r, ReturnType DEF TypeInv
  <2>5. CASE ~(len > Len(buf)) /\ Proceed(len, 0) /\ num' = 1 /\ UNCHANGED <<buf, written>>
    <3>1. len \in Nat /\ num' \in Bytes /\ 0 \in Nat /\ 0 <= num' /\ written' \in Nat
          /\ written' + len <= Len(buf') /\ buf' \in Seq(Bytes)
      BY <2>0, <2>5, <1>b, BytesAreNats
    <3>2. TypeOK'
      BY <2>0, <2>2, <2>5, <3>1, <1>t, ProceedType
    <3> QED
      BY <2>0, <2>5, <3>1, <3>2, <1>p DEF TypeInv
  <2> QED
    BY <2>1, <2>3, <2>4, <2>5
<1>5. CASE HeaderOne16
  <2>0. res = "none" /\ rem = 0 /\ at = 0 /\ written = 0 /\ fn = "one16"
    BY <1>5, <1>t DEF HeaderOne16, Quiet, AtHeader
  <2>1. PICK reply \in Bytes, count \in Bytes :
           /\ heard' = heard \o <<reply, count>>
           /\ IF reply # REPLY \/ count # 1 THEN Return("Framing")
              ELSE Proceed(0, 1) /\ num' = 1 /\ UNCHANGED <<buf, written>>
    BY <1>5, Zenon DEF HeaderOne16
  <2>2. heard' \in Seq(Bytes)
    BY <2>1, <1>b, HeardGrows
  <2>3. CASE Return("Framing")
    BY <2>2, <2>3, <1>t, <1>r, ReturnType DEF TypeInv
  <2>4. CASE Proceed(0, 1) /\ num' = 1 /\ UNCHANGED <<buf, written>>
    <3>1. num' \in Bytes /\ 0 \in Nat /\ 1 \in Nat /\ 1 <= num' /\ written' = 0 /\ written' \in Nat
          /\ written' + 0 <= Len(buf') /\ buf' \in Seq(Bytes)
      BY <2>0, <2>4, <1>b, BytesAreNats
    <3>2. TypeOK'
      BY <2>0, <2>2, <2>4, <3>1, <1>t, ProceedType
    <3> QED
      BY <2>0, <2>4, <3>1, <3>2, <1>p DEF TypeInv
  <2> QED
    BY <2>1, <2>3, <2>4
<1>6. CASE HeaderInto
  <2>0. res = "none" /\ rem = 0 /\ at = 0 /\ written = 0 /\ fn = "into"
    BY <1>6, <1>t DEF HeaderInto, Quiet, AtHeader
  <2>1. PICK reply \in Bytes, count \in Bytes :
           /\ heard' = heard \o <<reply, count>>
           /\ IF reply # REPLY THEN Return("Framing")
              ELSE Proceed(0, count) /\ num' = count /\ UNCHANGED <<buf, written>>
    BY <1>6, Zenon DEF HeaderInto
  <2>2. heard' \in Seq(Bytes)
    BY <2>1, <1>b, HeardGrows
  <2>3. CASE Return("Framing")
    BY <2>2, <2>3, <1>t, <1>r, ReturnType DEF TypeInv
  <2>4. CASE Proceed(0, count) /\ num' = count /\ UNCHANGED <<buf, written>>
    <3>1. num' \in Bytes /\ 0 \in Nat /\ count \in Nat /\ count <= num' /\ written' \in Nat
          /\ written' + 0 <= Len(buf') /\ buf' \in Seq(Bytes)
      BY <2>0, <2>4, <1>b, BytesAreNats
    <3>2. TypeOK'
      BY <2>0, <2>2, <2>4, <3>1, <1>t, ProceedType
    <3> QED
      BY <2>0, <2>4, <3>1, <3>2, <1>p DEF TypeInv
  <2> QED
    BY <2>1, <2>3, <2>4
<1>7. CASE Length16
  <2>0. res = "none" /\ rem = 0 /\ at = 0 /\ written = 0 /\ num = 1 /\ fn = "one16"
    BY <1>7, <1>t DEF Length16, Quiet, AtHeader
  <2>1. PICK hi \in Bytes, lo \in Bytes :
           /\ heard' = heard \o <<hi, lo>>
           /\ IF hi * Base + lo > Len(buf) THEN Return("BufferTooSmall")
              ELSE Proceed(hi * Base + lo, 0) /\ UNCHANGED <<buf, num, written>>
    BY <1>7, Zenon DEF Length16
  <2>2. heard' \in Seq(Bytes)
    BY <2>1, <1>b, HeardGrows
  <2>3. CASE Return("BufferTooSmall")
    BY <2>2, <2>3, <1>t, <1>r, ReturnType DEF TypeInv
  <2>4. CASE ~(hi * Base + lo > Len(buf)) /\ Proceed(hi * Base + lo, 0) /\ UNCHANGED <<buf, num, written>>
    <3> DEFINE len == hi * Base + lo
    <3>0. len \in Nat
      BY BytesAreNats
    <3> HIDE DEF len
    <3>1. num' \in Bytes /\ 0 \in Nat /\ 0 <= num' /\ written' \in Nat
          /\ written' + len <= Len(buf') /\ buf' \in Seq(Bytes) /\ Proceed(len, 0)
      BY <2>0, <2>4, <3>0, <1>b, BytesAreNats DEF len
    <3>2. TypeOK'
      BY <2>0, <2>2, <3>0, <3>1, <1>t, ProceedType
    <3> QED
      BY <2>0, <3>0, <3>1, <3>2, <1>p DEF TypeInv
  <2> QED
    BY <2>1, <2>3, <2>4
<1>8. CASE LengthInto
  <2>0. res = "none" /\ rem = 0 /\ at = 0 /\ todo > 0 /\ fn = "into"
    BY <1>8, <1>t DEF LengthInto, Quiet, TypeOK
  <2>1. PICK len \in Bytes :
           /\ heard' = heard \o <<len>>
           /\ IF written + 1 + len > Len(buf) THEN Return("BufferTooSmall")
              ELSE /\ buf' = [buf EXCEPT ![written + 1] = len]
                   /\ written' = written + 1
                   /\ Proceed(len, todo - 1)
                   /\ UNCHANGED num
    BY <1>8, Zenon DEF LengthInto
  <2>2. heard' \in Seq(Bytes)
    BY <2>1, <1>b, HeardGrows
  <2>3. CASE Return("BufferTooSmall")
    BY <2>2, <2>3, <1>t, <1>r, ReturnType DEF TypeInv
  <2>4. CASE /\ ~(written + 1 + len > Len(buf))
             /\ buf' = [buf EXCEPT ![written + 1] = len]
             /\ written' = written + 1
             /\ Proceed(len, todo - 1)
             /\ UNCHANGED num
    <3>0. len \in Nat /\ written < Len(buf) /\ todo - 1 \in Nat /\ todo - 1 <= num'
      BY <2>0, <2>4, <1>b, BytesAreNats
    <3>1. buf' \in Seq(Bytes) /\ Len(buf') = Len(buf)
      BY <2>4, <3>0, <1>b, WriteExtends
    <3>2. written' \in Nat /\ written' + len <= Len(buf') /\ num' \in Bytes
      BY <2>4, <3>0, <3>1, <1>b
    <3>3. TypeOK'
      BY <2>0, <2>2, <2>4, <3>0, <3>1, <3>2, <1>t, ProceedType
    <3> QED
      BY <2>0, <2>4, <3>0, <3>3, <1>p DEF TypeInv
  <2> QED
    BY <2>1, <2>3, <2>4
<1>9. CASE Data
  <2>0. res = "none" /\ rem = 0 /\ at = 0 /\ left > 0 /\ written + left <= Len(buf)
        /\ (fn # "into" => todo = 0)
    BY <1>9, <1>t DEF Data, Quiet, TypeOK, AtHeader
  <2>1. PICK x \in Payload : heard' = heard \o <<x>> /\ buf' = [buf EXCEPT ![written + 1] = x]
    BY <1>9, Zenon DEF Data
  <2>2. x \in Bytes /\ heard' \in Seq(Bytes)
    BY <2>1, <1>b, HeardGrows, BytesAreNats
  <2>3. written' = written + 1 /\ Proceed(left - 1, todo) /\ num' = num
    BY <1>9 DEF Data
  <2>4. buf' \in Seq(Bytes) /\ Len(buf') = Len(buf)
    BY <2>0, <2>1, <2>2, <1>b, WriteExtends
  <2>5. left - 1 \in Nat /\ written' \in Nat /\ written' + (left - 1) <= Len(buf')
        /\ num' \in Bytes /\ todo <= num'
    BY <2>0, <2>3, <2>4, <1>b
  <2>6. TypeOK'
    BY <2>0, <2>2, <2>3, <2>4, <2>5, <1>b, <1>t, ProceedType
  <2>7. /\ ((left - 1 > 0 /\ fn # "into") => todo = 0)
        /\ ((~(left - 1 > 0) /\ todo > 0) => fn # "one" /\ fn # "one16")
        /\ ~(todo > 0) => todo = 0
    BY <2>0, <1>b
  <2> QED
    BY <2>0, <2>3, <2>5, <2>6, <2>7, <1>b, <1>p DEF TypeInv
<1>10. CASE End
  <2>1. PICK x \in Bytes : heard' = heard \o <<x>> /\ Return(IF x = END THEN "Ok" ELSE "Framing")
    BY <1>10, Zenon DEF End
  <2>2. heard' \in Seq(Bytes)
    BY <2>1, <1>b, HeardGrows
  <2>3. CASE Return("Ok")
    BY <2>2, <2>3, <1>t, <1>r, ReturnType DEF TypeInv
  <2>4. CASE Return("Framing")
    BY <2>2, <2>4, <1>t, <1>r, ReturnType DEF TypeInv
  <2> QED
    BY <2>1, <2>3, <2>4
<1>11. CASE BusFails
  <2>1. Return("Spi") /\ heard' \in Seq(Bytes)
    BY <1>11, <1>b DEF BusFails
  <2> QED
    BY <2>1, <1>t, <1>r, ReturnType DEF TypeInv
<1>12. CASE Iter
  BY <1>12, <1>t, <1>b DEF Iter, TypeInv, TypeOK, Quiet, AtHeader, readVars
<1>13. CASE NextItem
  <2>1. rem > 0 /\ at < written /\ 1 + buf[at + 1] <= written - at
        /\ rem \in 0..num /\ at \in 0..written
    BY <1>13, <1>t DEF NextItem, More, TypeOK
  <2>2. buf[at + 1] \in Nat
    <3>1. at + 1 \in 1..Len(buf)
      BY <2>1, <1>b
    <3>2. buf[at + 1] \in Bytes
      BY <3>1, <1>b, ElementOfSeq
    <3> QED
      BY <3>2, BytesAreNats
  <2>3. at + 1 + buf[at + 1] \in 0..written /\ rem - 1 \in 0..num
    BY <2>1, <2>2, <1>b
  <2> QED
    BY <1>13, <2>3, <1>t, <1>b DEF NextItem, TypeInv, TypeOK, Quiet, AtHeader, readVars
<1>14. CASE NoItem
  BY <1>14, <1>t, <1>b DEF NoItem, TypeInv, TypeOK, Quiet, AtHeader, readVars, iterVars
<1>15. CASE UNCHANGED vars
  BY <1>15, <1>t, <1>b DEF vars, TypeInv, TypeOK, Quiet, AtHeader, readVars, iterVars
<1> QED
  BY <1>1, <1>2, <1>3, <1>4, <1>5, <1>6, <1>7, <1>8, <1>9, <1>10, <1>11, <1>12, <1>13, <1>14,
     <1>15 DEF Next

LEMMA TypeInvAlways == Spec => []TypeInv
<1>1. Init => TypeInv
  BY InitType DEF TypeInv, Quiet, AtHeader, Init
<1> QED
  BY <1>1, TypeNext, PTL DEF Spec

\* TypeOK of FrameReader: whatever the chip sends, no length it announces makes a
\* write leave the caller's buffer, and every loop counts down.
THEOREM WritesStayInside == Spec => []TypeOK
<1>1. TypeInv => TypeOK
  BY DEF TypeInv
<1> QED
  BY <1>1, TypeInvAlways, PTL

-----------------------------------------------------------------------------
(* Ok is one whole frame *)

\* Where every byte heard so far is accounted for by the header and the buffer.
InBody == pc \in {"data", "end"} \/ (pc = "length" /\ fn = "into")

Frame ==
    /\ pc = "start" => heard = <<>>
    /\ pc = "header" => heard = <<START>>
    /\ pc = "length" /\ fn = "one16" => heard = <<START, REPLY, 1>>
    /\ InBody =>
           heard = <<START, REPLY>> \o Announced(written + left) \o SubSeq(buf, 1, written)
    /\ OkIsFrame

\* The bytes of a header, in one transfer or in two.
LEMMA HeaderTuples ==
    ASSUME NEW x \in Nat, NEW y \in Nat, NEW z \in Nat
    PROVE  /\ <<START>> \o <<REPLY, x>> = <<START, REPLY, x>>
           /\ <<START>> \o <<REPLY, x>> = <<START, REPLY>> \o <<x>>
           /\ <<START>> \o <<REPLY, 1, x>> = <<START, REPLY>> \o <<1, x>>
           /\ <<START, REPLY, 1>> \o <<y, z>> = <<START, REPLY>> \o <<1, y, z>>
<1> DEFINE joined == <<START>> \o <<REPLY, x>>
           whole == <<START, REPLY, x>>
<1>1. <<START>> \in Seq(Nat) /\ <<REPLY, x>> \in Seq(Nat) /\ whole \in Seq(Nat)
  BY BytesAreNats
<1>2. Len(<<START>>) = 1 /\ Len(<<REPLY, x>>) = 2 /\ Len(whole) = 3
  OBVIOUS
<1>3. joined \in Seq(Nat) /\ Len(joined) = 3
  BY <1>1, <1>2, ConcatProperties
<1>4. \A i \in 1..3 : joined[i] = IF i <= 1 THEN <<START>>[i] ELSE <<REPLY, x>>[i - 1]
  BY <1>1, <1>2, ConcatProperties
<1>5. \A i \in 1..3 : joined[i] = whole[i]
  BY <1>4
<1>6. joined = whole
  BY <1>1, <1>2, <1>3, <1>5, SeqEqual
<1>7. <<START>> \o <<REPLY, x>> = <<START, REPLY>> \o <<x>>
  OBVIOUS
<1>8. <<START>> \o <<REPLY, 1, x>> = <<START, REPLY>> \o <<1, x>>
  OBVIOUS
<1>9. <<START, REPLY, 1>> \o <<y, z>> = <<START, REPLY>> \o <<1, y, z>>
  OBVIOUS
<1> QED
  BY <1>6, <1>7, <1>8, <1>9

LEMMA DivMod ==
    ASSUME NEW x \in Nat, NEW b \in Nat, b > 0
    PROVE  x \div b \in Nat /\ x % b \in 0..(b - 1) /\ x = b * (x \div b) + (x % b)
OBVIOUS

LEMMA TimesAtLeast ==
    ASSUME NEW b \in Nat, NEW d \in Int, d >= 1
    PROVE  b * d >= b
OBVIOUS

\* A 16-bit length is read back as the two bytes it came in.
LEMMA TwoDigits ==
    ASSUME NEW b \in Nat, b > 0, NEW hi \in Nat, NEW lo \in 0..(b - 1)
    PROVE  /\ hi * b + lo \in Nat
           /\ (hi * b + lo) \div b = hi
           /\ (hi * b + lo) % b = lo
<1> DEFINE x == hi * b + lo
           q == x \div b
           r == x % b
<1>1. x \in Nat
  OBVIOUS
<1>2. q \in Nat /\ r \in 0..(b - 1) /\ x = b * q + r
  <2> HIDE DEF x
  <2> QED
    BY <1>1, DivMod
<1>3. hi * b = b * hi /\ b * hi \in Int /\ x = hi * b + lo
  OBVIOUS
<1> HIDE DEF x, q, r
<1>4. b * (q - hi) = b * q - b * hi /\ b * (hi - q) = b * hi - b * q /\ b * q \in Int
  BY <1>2
<1>5. b * (q - hi) = lo - r
  BY <1>2, <1>3, <1>4
<1>6. ~(q - hi >= 1)
  BY <1>2, <1>5, TimesAtLeast
<1>7. ~(hi - q >= 1)
  BY <1>2, <1>3, <1>4, <1>5, TimesAtLeast
<1>8. q = hi
  BY <1>2, <1>6, <1>7
<1>9. r = lo
  BY <1>2, <1>5, <1>8
<1> QED
  BY <1>1, <1>8, <1>9 DEF q, r, x

\* What was announced is a sequence of numbers, as is what the buffer holds.
\* What was announced is a sequence of numbers, as is what the buffer holds.
LEMMA FrameParts ==
    ASSUME TypeInv
    PROVE  /\ <<START, REPLY>> \o Announced(written + left) \in Seq(Nat)
           /\ SubSeq(buf, 1, written) \in Seq(Nat)
           /\ \A x \in Bytes : <<x>> \in Seq(Nat)
<1>1. written \in Nat /\ left \in Nat /\ num \in Nat
  BY BytesAreNats, LenProperties DEF TypeInv, TypeOK
<1>2. Announced(written + left) \in Seq(Nat)
  <2>1. CASE fn = "one"
    BY <1>1, <2>1 DEF Announced
  <2>2. CASE fn = "one16"
    <3>1. (written + left) \div Base \in Nat /\ (written + left) % Base \in Nat
      BY <1>1, DivMod, BytesAreNats
    <3> QED
      BY <2>2, <3>1 DEF Announced
  <2>3. CASE fn # "one" /\ fn # "one16"
    BY <1>1, <2>3 DEF Announced
  <2> QED
    BY <2>1, <2>2, <2>3
<1>3. <<START, REPLY>> \in Seq(Nat)
  BY BytesAreNats
<1>4. SubSeq(buf, 1, written) \in Seq(Bytes)
  BY PartOfBuffer DEF TypeInv, TypeOK
<1>5. SubSeq(buf, 1, written) \in Seq(Nat)
  BY <1>4, SeqMonotonic, BytesAreNats
<1>6. <<START, REPLY>> \o Announced(written + left) \in Seq(Nat)
  BY <1>2, <1>3, ConcatProperties
<1>7. ASSUME NEW x \in Bytes PROVE <<x>> \in Seq(Nat)
  BY BytesAreNats
<1> QED
  BY <1>5, <1>6, <1>7

LEMMA FrameReturns ==
    ASSUME Frame, NEW r \in {"Nina", "Timeout", "Framing", "BufferTooSmall", "Spi"}, Return(r)
    PROVE  Frame'
BY DEF Return, Frame, InBody, OkIsFrame

\* A function that has read everything up to the payload.
LEMMA FrameBegins ==
    ASSUME NEW l \in Nat, NEW t \in Nat, Proceed(l, t), res = "none", written' = 0,
           fn = "one16" => ~(pc' = "length"),
           heard' \in Seq(Bytes), heard' = <<START, REPLY>> \o Announced(l)'
    PROVE  Frame'
<1>1. SubSeq(buf', 1, 0) = <<>>
  BY SubSeqEmpty
<1>2. heard' \o <<>> = heard'
  BY ConcatEmptySeq
<1>3. heard' = <<START, REPLY>> \o Announced(written + left)' \o SubSeq(buf', 1, written')
  <2>1. written' + left' = l
    BY DEF Proceed
  <2> QED
    BY <1>1, <1>2, <2>1 DEF Announced
<1>4. pc' \in {"data", "length", "end"} /\ res' = "none" /\ fn' = fn
  BY DEF Proceed
<1> QED
  BY <1>3, <1>4 DEF Frame, InBody, OkIsFrame

LEMMA JoinAssociative ==
    ASSUME NEW h \in Seq(Nat), NEW s \in Seq(Nat), NEW u \in Seq(Nat)
    PROVE  (h \o s) \o u = h \o (s \o u)
OBVIOUS

\* One more byte that is both heard and written.
LEMMA FrameExtends ==
    ASSUME TypeInv, InBody, Frame, NEW x \in Bytes, written < Len(buf),
           heard' = heard \o <<x>>, buf' = [buf EXCEPT ![written + 1] = x],
           written' = written + 1, NEW l \in Nat, NEW t \in Nat, Proceed(l, t), num' = num,
           fn = "into" \/ l = left - 1, res = "none",
           fn = "one16" => ~(pc' = "length")
    PROVE  Frame'
<1> DEFINE h == <<START, REPLY>> \o Announced(written + left)
           s == SubSeq(buf, 1, written)
<1>1. h \in Seq(Nat) /\ s \in Seq(Nat) /\ <<x>> \in Seq(Nat)
  BY FrameParts
<1>2. buf \in Seq(Bytes) /\ written \in Nat /\ left \in Nat
  BY DEF TypeInv, TypeOK
<1>3. SubSeq(buf', 1, written') = s \o <<x>>
  BY <1>2, WriteExtends
<1>4. heard = h \o s
  BY DEF Frame
<1>5. Announced(written + left)' = Announced(written + left)
  <2>1. fn' = fn /\ left' = l
    BY DEF Proceed
  <2>2. fn = "into" \/ written' + left' = written + left
    BY <1>2, <2>1
  <2> QED
    BY <2>1, <2>2 DEF Announced
<1>6. heard' = h \o SubSeq(buf', 1, written')
  <2> DEFINE u == <<x>>
  <2> HIDE DEF h, s, u
  <2>1. u \in Seq(Nat)
    BY <1>1 DEF u
  <2>2. (h \o s) \o u = h \o (s \o u)
    BY <1>1, <2>1, JoinAssociative
  <2> QED
    <3>1. heard' = heard \o u /\ SubSeq(buf', 1, written') = s \o u
      BY <1>3 DEF u
    <3>2. heard' = (h \o s) \o u
      BY <3>1, <1>4
    <3> QED
      BY <3>1, <3>2, <2>2
<1>7. heard' = <<START, REPLY>> \o Announced(written + left)' \o SubSeq(buf', 1, written')
  BY <1>5, <1>6
<1>8. pc' \in {"data", "length", "end"} /\ res' = "none" /\ fn' = fn
  BY DEF Proceed
<1> QED
  BY <1>7, <1>8 DEF Frame, InBody, OkIsFrame

LEMMA FrameNext == TypeInv /\ TypeInv' /\ Frame /\ [Next]_vars => Frame'
<1> SUFFICES ASSUME TypeInv, TypeInv', Frame, [Next]_vars PROVE Frame'
  OBVIOUS
<1>b. /\ buf \in Seq(Bytes) /\ heard' \in Seq(Bytes) /\ Len(buf) \in Nat /\ written \in Nat
      /\ num \in Nat /\ todo \in Nat /\ left \in Nat /\ Quiet /\ AtHeader
      /\ (pc = "data" => left > 0 /\ written + left <= Len(buf)) /\ (pc = "length" => todo > 0)
  BY LenProperties, BytesAreNats DEF TypeInv, TypeOK
<1>1. CASE Start
  BY <1>1, <1>b DEF Start, Quiet, Frame, InBody, OkIsFrame
<1>2. CASE ErrCmd
  BY <1>2, FrameReturns DEF ErrCmd
<1>3. CASE Idle
  <2>1. CASE Return("Timeout")
    BY <2>1, FrameReturns
  <2>2. CASE UNCHANGED <<fn, buf, pc, num, todo, left, written, res, heard>>
    BY <2>2 DEF Frame, InBody, OkIsFrame, Announced
  <2> QED
    BY <1>3, <2>1, <2>2 DEF Idle
<1>4. CASE HeaderOne
  <2>0. res = "none" /\ written = 0 /\ heard = <<START>> /\ fn = "one"
    BY <1>4, <1>b DEF HeaderOne, Quiet, AtHeader, Frame
  <2>1. PICK reply \in Bytes, count \in Bytes, len \in Bytes :
           /\ heard' = heard \o <<reply, count, len>>
           /\ IF reply # REPLY \/ count # 1 THEN Return("Framing")
              ELSE IF len > Len(buf) THEN Return("BufferTooSmall")
              ELSE Proceed(len, 0) /\ num' = 1 /\ UNCHANGED <<buf, written>>
    BY <1>4, Zenon DEF HeaderOne
  <2>2. CASE Return("Framing") \/ Return("BufferTooSmall")
    BY <2>2, FrameReturns
  <2>3. CASE /\ reply = REPLY /\ count = 1
             /\ Proceed(len, 0) /\ num' = 1 /\ UNCHANGED <<buf, written>>
    <3>1. len \in Nat /\ 0 \in Nat
      BY BytesAreNats
    <3>2. heard' = <<START, REPLY>> \o <<1, len>>
      BY <2>0, <2>1, <2>3, <3>1, HeaderTuples
    <3>3. Announced(len)' = <<1, len>> /\ fn' = fn
      BY <2>0, <2>3 DEF Proceed, Announced
    <3> QED
      BY <1>b, <2>0, <2>3, <3>1, <3>2, <3>3, FrameBegins
  <2> QED
    BY <2>1, <2>2, <2>3
<1>5. CASE HeaderOne16
  <2>0. heard = <<START>> /\ fn = "one16" /\ res = "none" /\ written = 0
    BY <1>5, <1>b DEF HeaderOne16, Frame, Quiet, AtHeader
  <2>1. PICK reply \in Bytes, count \in Bytes :
           /\ heard' = heard \o <<reply, count>>
           /\ IF reply # REPLY \/ count # 1 THEN Return("Framing")
              ELSE Proceed(0, 1) /\ num' = 1 /\ UNCHANGED <<buf, written>>
    BY <1>5, Zenon DEF HeaderOne16
  <2>2. CASE Return("Framing")
    BY <2>2, FrameReturns
  <2>3. CASE reply = REPLY /\ count = 1 /\ Proceed(0, 1)
    <3>1. heard' = <<START, REPLY, 1>>
      BY <2>0, <2>1, <2>3, HeaderTuples
    <3>2. pc' = "length" /\ res' = "none" /\ fn' = "one16"
      BY <2>0, <2>3 DEF Proceed
    <3> QED
      BY <3>1, <3>2 DEF Frame, InBody, OkIsFrame
  <2> QED
    BY <2>1, <2>2, <2>3
<1>6. CASE HeaderInto
  <2>0. res = "none" /\ written = 0 /\ heard = <<START>> /\ fn = "into"
    BY <1>6, <1>b DEF HeaderInto, Quiet, AtHeader, Frame
  <2>1. PICK reply \in Bytes, count \in Bytes :
           /\ heard' = heard \o <<reply, count>>
           /\ IF reply # REPLY THEN Return("Framing")
              ELSE Proceed(0, count) /\ num' = count /\ UNCHANGED <<buf, written>>
    BY <1>6, Zenon DEF HeaderInto
  <2>2. CASE Return("Framing")
    BY <2>2, FrameReturns
  <2>3. CASE reply = REPLY /\ Proceed(0, count) /\ num' = count /\ UNCHANGED <<buf, written>>
    <3>1. count \in Nat /\ 0 \in Nat
      BY BytesAreNats
    <3>2. heard' = <<START, REPLY>> \o <<count>>
      BY <2>0, <2>1, <2>3, <3>1, HeaderTuples
    <3>3. Announced(0)' = <<count>> /\ fn' = fn
      BY <2>0, <2>3 DEF Proceed, Announced
    <3> QED
      BY <1>b, <2>0, <2>3, <3>1, <3>2, <3>3, FrameBegins
  <2> QED
    BY <2>1, <2>2, <2>3
<1>7. CASE Length16
  <2>0. res = "none" /\ written = 0 /\ heard = <<START, REPLY, 1>> /\ fn = "one16"
    BY <1>7, <1>b DEF Length16, Quiet, AtHeader, Frame
  <2>1. PICK hi \in Bytes, lo \in Bytes :
           /\ heard' = heard \o <<hi, lo>>
           /\ IF hi * Base + lo > Len(buf) THEN Return("BufferTooSmall")
              ELSE Proceed(hi * Base + lo, 0) /\ UNCHANGED <<buf, num, written>>
    BY <1>7, Zenon DEF Length16
  <2>2. CASE Return("BufferTooSmall")
    BY <2>2, FrameReturns
  <2>3. CASE Proceed(hi * Base + lo, 0) /\ UNCHANGED <<buf, num, written>>
    <3> DEFINE len == hi * Base + lo
    <3>1. len \in Nat /\ len \div Base = hi /\ len % Base = lo /\ hi \in Nat /\ lo \in Nat
      <4>1. hi \in Nat /\ lo \in 0..(Base - 1) /\ Base \in Nat /\ Base > 0
        BY BytesAreNats DEF Bytes
      <4> QED
        BY <4>1, TwoDigits
    <3> HIDE DEF len
    <3>2. heard' = <<START, REPLY>> \o <<1, hi, lo>>
      BY <2>0, <2>1, <3>1, HeaderTuples
    <3>3. Proceed(len, 0)
      BY <2>3 DEF len
    <3>4. Announced(len)' = <<1, hi, lo>> /\ pc' \in {"data", "end"}
      BY <2>0, <3>1, <3>3 DEF Proceed, Announced
    <3> QED
      BY <1>b, <2>0, <2>3, <3>1, <3>2, <3>3, <3>4, FrameBegins
  <2> QED
    BY <2>1, <2>2, <2>3
<1>8. CASE LengthInto
  <2>0. res = "none" /\ fn = "into" /\ todo > 0 /\ InBody
    BY <1>8, <1>b DEF LengthInto, Quiet, InBody
  <2>1. PICK len \in Bytes :
           /\ heard' = heard \o <<len>>
           /\ IF written + 1 + len > Len(buf) THEN Return("BufferTooSmall")
              ELSE /\ buf' = [buf EXCEPT ![written + 1] = len]
                   /\ written' = written + 1
                   /\ Proceed(len, todo - 1)
                   /\ UNCHANGED num
    BY <1>8, Zenon DEF LengthInto
  <2>2. CASE Return("BufferTooSmall")
    BY <2>2, FrameReturns
  <2>3. CASE /\ ~(written + 1 + len > Len(buf))
             /\ buf' = [buf EXCEPT ![written + 1] = len]
             /\ written' = written + 1
             /\ Proceed(len, todo - 1)
             /\ UNCHANGED num
    <3>1. len \in Nat /\ todo - 1 \in Nat /\ written < Len(buf)
      BY <1>b, <2>0, <2>3, BytesAreNats
    <3> QED
      BY <2>0, <2>1, <2>3, <3>1, FrameExtends
  <2> QED
    BY <2>1, <2>2, <2>3
<1>9. CASE Data
  <2>0. /\ res = "none" /\ InBody /\ (fn # "into" => todo = 0) /\ left > 0
        /\ written' = written + 1 /\ Proceed(left - 1, todo) /\ num' = num
    <3>1. /\ pc = "data"
          /\ written' = written + 1 /\ Proceed(left - 1, todo) /\ num' = num
      BY <1>9 DEF Data
    <3> QED
      BY <3>1, <1>b DEF Quiet, AtHeader, InBody
  <2>1. PICK x \in Payload : heard' = heard \o <<x>> /\ buf' = [buf EXCEPT ![written + 1] = x]
    BY <1>9, Zenon DEF Data
  <2>2. x \in Bytes /\ left - 1 \in Nat /\ written < Len(buf)
    BY <1>9, <1>b, <2>0, BytesAreNats DEF Data
  <2>3. fn = "one16" => ~(pc' = "length")
    BY <2>0 DEF Proceed
  <2> QED
    BY <1>b, <2>0, <2>1, <2>2, <2>3, FrameExtends
<1>10. CASE End
  <2>1. PICK x \in Bytes : heard' = heard \o <<x>> /\ Return(IF x = END THEN "Ok" ELSE "Framing")
    BY <1>10, Zenon DEF End
  <2>2. CASE Return("Framing")
    BY <2>2, FrameReturns
  <2>3. CASE x = END /\ Return("Ok")
    <3>1. heard = <<START, REPLY>> \o Announced(written + left) \o SubSeq(buf, 1, written)
          /\ left = 0 /\ written + left = written
      <4>1. pc = "end" /\ InBody
        BY <1>10 DEF End, InBody
      <4>2. left = 0 /\ written + left = written
        BY <1>b, <4>1 DEF AtHeader
      <4> QED
        BY <4>1, <4>2, Zenon DEF Frame
    <3>2. pc' = "done" /\ fn' = fn /\ buf' = buf /\ written' = written /\ num' = num
      BY <2>3 DEF Return, readVars
    <3>3. heard' = <<START, REPLY>> \o Announced(written)' \o SubSeq(buf', 1, written') \o <<END>>
      BY <2>1, <2>3, <3>1, <3>2 DEF Announced
    <3> QED
      BY <3>2, <3>3 DEF Frame, InBody, OkIsFrame
  <2> QED
    BY <2>1, <2>2, <2>3
<1>11. CASE BusFails
  BY <1>11, FrameReturns DEF BusFails
<1>12. CASE Iter
  BY <1>12 DEF Iter, readVars, Frame, InBody, OkIsFrame, Announced
<1>13. CASE NextItem
  BY <1>13 DEF NextItem, readVars, Frame, InBody, OkIsFrame, Announced
<1>14. CASE NoItem
  BY <1>14 DEF NoItem, readVars, Frame, InBody, OkIsFrame, Announced
<1>15. CASE UNCHANGED vars
  BY <1>15 DEF vars, readVars, Frame, InBody, OkIsFrame, Announced
<1> QED
  BY <1>1, <1>2, <1>3, <1>4, <1>5, <1>6, <1>7, <1>8, <1>9, <1>10, <1>11, <1>12, <1>13, <1>14,
     <1>15 DEF Next

\* OkIsFrame of FrameReader: a receive function that returns Ok has read one whole
\* reply to its own command, and the buffer holds exactly the bytes of it.
THEOREM OkIsOneFrame == Spec => []OkIsFrame
<1>1. Init => Frame
  BY DEF Init, Frame, InBody, OkIsFrame
<1>2. Frame => OkIsFrame
  BY DEF Frame
<1> QED
  BY <1>1, <1>2, FrameNext, TypeInvAlways, PTL DEF Spec

-----------------------------------------------------------------------------
(* An acknowledgement is heard *)

\* What a function that reads one byte has not written is still zero.
Zeros == fn = "one" => \A i \in (written + 1)..Len(buf) : buf[i] = 0

LEMMA ZerosInit == Init => Zeros
<1> SUFFICES ASSUME Init, fn = "one" PROVE \A i \in (written + 1)..Len(buf) : buf[i] = 0
  BY DEF Zeros
<1>1. PICK n \in Sizes, b \in {0} : buf = [i \in 1..n |-> b]
  BY Zenon DEF Init
<1>2. n \in Nat /\ b = 0 /\ written = 0 /\ 0 \in Nat
  BY BytesAreNats DEF Init
<1>3. buf \in Seq(Nat)
  BY <1>1, <1>2, IsASeq
<1>4. DOMAIN buf = 1..Len(buf) /\ DOMAIN buf = 1..n
  BY <1>1, <1>3, LenProperties
<1> QED
  BY <1>1, <1>2, <1>4

LEMMA ZerosNext == TypeInv /\ Zeros /\ [Next]_vars => Zeros'
<1> SUFFICES ASSUME TypeInv, Zeros, [Next]_vars, fn' = "one"
             PROVE  \A i \in (written' + 1)..Len(buf') : buf'[i] = 0
  BY DEF Zeros
<1>1. fn' = fn
  BY DEF Next, Start, ErrCmd, Idle, HeaderOne, HeaderOne16, HeaderInto, Length16, LengthInto,
         Data, End, BusFails, Iter, NextItem, NoItem, Return, Proceed, vars
<1>2. \A i \in (written + 1)..Len(buf) : buf[i] = 0
  BY <1>1 DEF Zeros
<1>3. CASE Data
  <2>1. buf \in Seq(Bytes) /\ written \in Nat /\ written < Len(buf) /\ Len(buf) \in Nat
    BY <1>3, LenProperties DEF Data, TypeInv, TypeOK
  <2>2. PICK x \in Payload : buf' = [buf EXCEPT ![written + 1] = x]
    BY <1>3, Zenon DEF Data
  <2>3. Len(buf') = Len(buf) /\ \A i \in 1..Len(buf) : i # written + 1 => buf'[i] = buf[i]
    BY <2>1, <2>2, WriteExtends, BytesAreNats
  <2>4. written' = written + 1
    BY <1>3 DEF Data
  <2> QED
    BY <1>2, <2>1, <2>3, <2>4
<1>4. CASE ~Data
  <2>1. buf' = buf /\ written' = written
    BY <1>1, <1>4 DEF Next, Start, ErrCmd, Idle, HeaderOne, HeaderOne16, HeaderInto, Length16,
       LengthInto, End, BusFails, Iter, NextItem, NoItem, Return, readVars, vars
  <2> QED
    BY <1>2, <2>1
<1> QED
  BY <1>3, <1>4

LEMMA AckedByte == TypeInv /\ OkIsFrame /\ Zeros => AckIsHeard
<1> SUFFICES ASSUME TypeInv, OkIsFrame, Zeros, Acked PROVE Len(heard) > 5 /\ heard[5] = 1
  BY DEF AckIsHeard
<1>1. fn = "one" /\ res = "Ok" /\ Len(buf) > 0 /\ buf[1] = 1
  BY DEF Acked
<1>2. written \in Nat /\ written <= Len(buf) /\ Len(buf) \in Nat /\ buf \in Seq(Bytes)
  BY LenProperties DEF TypeInv, TypeOK
<1>3. written > 0
  BY <1>1, <1>2 DEF Zeros
<1> DEFINE head == <<START, REPLY>> \o <<1, written>>
           s == SubSeq(buf, 1, written)
           tail == <<END>>
<1>4. heard = head \o s \o tail
  BY <1>1 DEF OkIsFrame, Announced
<1>5. s \in Seq(Nat) /\ Len(s) = written /\ s[1] = buf[1]
  <2>1. s \in Seq(Bytes) /\ Len(s) = written /\ \A i \in 1..written : s[i] = buf[i]
    BY <1>2, PartOfBuffer
  <2> HIDE DEF s
  <2>2. s \in Seq(Nat)
    BY <2>1, SeqMonotonic, BytesAreNats
  <2> QED
    BY <1>2, <1>3, <2>1, <2>2
<1>6. head \in Seq(Nat) /\ Len(head) = 4
  <2>1. <<START, REPLY>> \in Seq(Nat) /\ <<1, written>> \in Seq(Nat)
        /\ Len(<<START, REPLY>>) = 2 /\ Len(<<1, written>>) = 2
    BY <1>2, BytesAreNats
  <2> QED
    BY <2>1, ConcatProperties
<1>7. tail \in Seq(Nat) /\ Len(tail) = 1
  BY BytesAreNats
<1> HIDE DEF head, s, tail
<1>8. head \o s \in Seq(Nat) /\ Len(head \o s) = 4 + written /\ (head \o s)[5] = s[1]
  <2>1. \A i \in 1..(Len(head) + Len(s)) : (head \o s)[i] =
            IF i <= Len(head) THEN head[i] ELSE s[i - Len(head)]
    BY <1>5, <1>6, ConcatProperties
  <2>2. 5 \in 1..(Len(head) + Len(s)) /\ 5 - Len(head) = 1 /\ ~(5 <= Len(head))
    BY <1>2, <1>3, <1>5, <1>6
  <2>3. (head \o s)[5] = s[1]
    BY <2>1, <2>2
  <2>4. head \o s \in Seq(Nat) /\ Len(head \o s) = Len(head) + Len(s)
    BY <1>5, <1>6, ConcatProperties
  <2> QED
    BY <1>5, <1>6, <2>3, <2>4
<1>9. Len(heard) = 5 + written /\ heard[5] = (head \o s)[5]
  <2> DEFINE h == head \o s
  <2>1. h \in Seq(Nat) /\ Len(h) = 4 + written /\ heard = h \o tail
    BY <1>4, <1>8
  <2> HIDE DEF h
  <2>2. /\ Len(heard) = Len(h) + Len(tail)
        /\ \A i \in 1..(Len(h) + Len(tail)) : heard[i] =
               IF i <= Len(h) THEN h[i] ELSE tail[i - Len(h)]
    BY <1>7, <2>1, ConcatProperties
  <2>3. 5 \in 1..(Len(h) + Len(tail)) /\ 5 <= Len(h)
    BY <1>2, <1>3, <1>7, <2>1
  <2>4. heard[5] = h[5] /\ Len(heard) = 5 + written
    BY <1>2, <1>7, <2>1, <2>2, <2>3
  <2> QED
    BY <2>4 DEF h
<1> QED
  BY <1>1, <1>2, <1>3, <1>5, <1>8, <1>9

\* AckIsHeard of FrameReader: a method that returns Ok because its one-byte buffer
\* holds 1 has been sent that 1, so a reply without bytes is never an acknowledgement.
THEOREM AcksAreHeard == Spec => []AckIsHeard
<1>1. Init => Frame
  BY DEF Init, Frame, InBody, OkIsFrame
<1>2. Frame => OkIsFrame
  BY DEF Frame
<1> QED
  BY <1>1, <1>2, FrameNext, TypeInvAlways, ZerosInit, ZerosNext, AckedByte, PTL DEF Spec

-----------------------------------------------------------------------------
(* The iterator yields everything *)

\* pos[k] is where parameter k + 1 begins in the buffer.
Marks(pos) ==
    /\ pos[0] = 0 /\ pos[num - todo] = written + left
    /\ \A k \in 0..(num - todo) :
           /\ pos[k] <= written + left
           /\ k < num - todo => pos[k] < written /\ pos[k + 1] = pos[k] + 1 + buf[pos[k] + 1]

Filling == fn = "into" /\ pc \in {"length", "data", "end"}

Walking == pc \in {"iter", "over"}

\* What the iterator has yielded lies between the marks.
Cut(pos) == \A k \in 1..Len(items) : items[k] = SubSeq(buf, pos[k - 1] + 2, pos[k])

\* The packed parameters follow one another up to the end of what is written, and
\* the iterator stands at the beginning of one of them.
Walk ==
    /\ Filling \/ (fn = "into" /\ res = "Ok") =>
           \E pos \in [0..(num - todo) -> Nat] :
               Marks(pos) /\ (Walking => at = pos[num - rem] /\ Cut(pos))
    /\ pc = "end" => todo = 0 /\ left = 0
    /\ res = "Ok" => todo = 0 /\ left = 0
    /\ Walking => fn = "into" /\ res = "Ok"
    /\ items \in Seq(Seq(Bytes))
    /\ ~Walking => items = <<>>
    /\ Walking => Len(items) = num - rem
    /\ pc = "over" => rem = 0

LEMMA WalkReturns ==
    ASSUME TypeInv, Walk, NEW r \in {"Nina", "Timeout", "Framing", "BufferTooSmall", "Spi"},
           Return(r), ~Walking
    PROVE  Walk'
BY DEF Return, iterVars, Walk, Walking, Filling

\* The three functions up to the first length.
LEMMA WalkBegins ==
    ASSUME TypeInv, Walk, ~Walking, res = "none", NEW l \in Nat, NEW t \in Nat, Proceed(l, t),
           fn = "into" => num' = t /\ l = 0 /\ written' = 0
    PROVE  Walk'
<1>1. /\ pc' = IF l > 0 THEN "data" ELSE IF t > 0 THEN "length" ELSE "end"
      /\ fn' = fn /\ res' = "none" /\ left' = l /\ todo' = t /\ items' = items
  BY DEF Proceed, iterVars
<1>2. ~Walking' /\ (pc' = "end" => t = 0 /\ l = 0)
  BY <1>1 DEF Walking
<1>3. fn' = "into" => \E pos \in [0..(num' - todo') -> Nat] : Marks(pos)'
  <2> SUFFICES ASSUME fn' = "into" PROVE \E pos \in [0..(num' - todo') -> Nat] : Marks(pos)'
    OBVIOUS
  <2>1. num' - todo' = 0 /\ written' = 0 /\ left' = 0
    BY <1>1
  <2> DEFINE first == [k \in 0..0 |-> 0]
  <2>2. first \in [0..(num' - todo') -> Nat]
    BY <2>1
  <2>3. Marks(first)'
    BY <2>1 DEF Marks
  <2> QED
    BY <2>2, <2>3
<1>4. items' \in Seq(Seq(Bytes)) /\ items' = <<>>
  BY <1>1 DEF Walk
<1> QED
  BY <1>1, <1>2, <1>3, <1>4 DEF Walk, Filling, Walking

\* Writing behind the marks does not move them.
LEMMA MarksStay ==
    ASSUME NEW pos \in [0..(num - todo) -> Nat], Marks(pos), num \in Nat, todo \in Nat, todo <= num,
           buf \in Seq(Bytes), written \in Nat, left \in Nat, written < Len(buf),
           NEW x \in Bytes, buf' = [buf EXCEPT ![written + 1] = x]
    PROVE  /\ buf'[written + 1] = x
           /\ \A k \in 0..(num - todo) : k < num - todo =>
                  pos[k] < written /\ pos[k + 1] = pos[k] + 1 + buf'[pos[k] + 1]
<1>1. /\ buf'[written + 1] = x
      /\ \A i \in 1..Len(buf) : i # written + 1 => buf'[i] = buf[i]
  BY WriteExtends
<1>2. ASSUME NEW k \in 0..(num - todo), k < num - todo
      PROVE  pos[k] < written /\ pos[k + 1] = pos[k] + 1 + buf'[pos[k] + 1]
  <2>1. pos[k] < written /\ pos[k + 1] = pos[k] + 1 + buf[pos[k] + 1] /\ pos[k] \in Nat
    BY <1>2 DEF Marks
  <2>2. pos[k] + 1 \in 1..Len(buf) /\ pos[k] + 1 # written + 1
    BY <2>1, LenProperties
  <2> QED
    BY <1>1, <2>1, <2>2
<1> QED
  BY <1>1, <1>2

LEMMA WalkNext == TypeInv /\ TypeInv' /\ Walk /\ [Next]_vars => Walk'
<1> SUFFICES ASSUME TypeInv, TypeInv', Walk, [Next]_vars PROVE Walk'
  OBVIOUS
<1>b. /\ buf \in Seq(Bytes) /\ Len(buf) \in Nat /\ written \in Nat /\ written <= Len(buf)
      /\ num \in Nat /\ todo \in Nat /\ todo <= num /\ left \in Nat
      /\ rem \in 0..num /\ at \in 0..written
  BY LenProperties, BytesAreNats DEF TypeInv, TypeOK
<1>q. pc \in {"start", "header", "length", "data", "end"} => res = "none" /\ ~Walking
  BY DEF TypeInv, Quiet, Walking
<1>1. CASE Start
  BY <1>1, <1>q DEF Start, readVars, iterVars, Walk, Walking, Filling
<1>2. CASE ErrCmd
  BY <1>2, <1>q, WalkReturns DEF ErrCmd
<1>3. CASE Idle
  <2>1. CASE Return("Timeout")
    BY <1>3, <1>q, <2>1, WalkReturns DEF Idle
  <2>2. CASE UNCHANGED <<fn, buf, pc, num, todo, left, written, res, iterVars>>
    BY <2>2, <1>3, <1>q DEF Idle, iterVars, Walk, Walking, Filling
  <2> QED
    BY <1>3, <2>1, <2>2 DEF Idle
<1>4. CASE HeaderOne
  <2>1. PICK reply \in Bytes, count \in Bytes, len \in Bytes :
           /\ heard' = heard \o <<reply, count, len>>
           /\ IF reply # REPLY \/ count # 1 THEN Return("Framing")
              ELSE IF len > Len(buf) THEN Return("BufferTooSmall")
              ELSE Proceed(len, 0) /\ num' = 1 /\ UNCHANGED <<buf, written>>
    BY <1>4, Zenon DEF HeaderOne
  <2>2. ~Walking /\ res = "none" /\ fn = "one" /\ len \in Nat /\ 0 \in Nat
    BY <1>4, <1>q, BytesAreNats DEF HeaderOne
  <2> QED
    BY <2>1, <2>2, WalkReturns, WalkBegins
<1>5. CASE HeaderOne16
  <2>1. PICK reply \in Bytes, count \in Bytes :
           /\ heard' = heard \o <<reply, count>>
           /\ IF reply # REPLY \/ count # 1 THEN Return("Framing")
              ELSE Proceed(0, 1) /\ num' = 1 /\ UNCHANGED <<buf, written>>
    BY <1>5, Zenon DEF HeaderOne16
  <2>2. ~Walking /\ res = "none" /\ fn = "one16" /\ 0 \in Nat /\ 1 \in Nat
    BY <1>5, <1>q DEF HeaderOne16
  <2> QED
    BY <2>1, <2>2, WalkReturns, WalkBegins
<1>6. CASE HeaderInto
  <2>1. PICK reply \in Bytes, count \in Bytes :
           /\ heard' = heard \o <<reply, count>>
           /\ IF reply # REPLY THEN Return("Framing")
              ELSE Proceed(0, count) /\ num' = count /\ UNCHANGED <<buf, written>>
    BY <1>6, Zenon DEF HeaderInto
  <2>2. ~Walking /\ res = "none" /\ written = 0 /\ 0 \in Nat /\ count \in Nat
    BY <1>6, <1>q, BytesAreNats DEF HeaderInto, TypeInv, AtHeader
  <2> QED
    BY <2>1, <2>2, WalkReturns, WalkBegins
<1>7. CASE Length16
  <2>1. PICK hi \in Bytes, lo \in Bytes :
           /\ heard' = heard \o <<hi, lo>>
           /\ IF hi * Base + lo > Len(buf) THEN Return("BufferTooSmall")
              ELSE Proceed(hi * Base + lo, 0) /\ UNCHANGED <<buf, num, written>>
    BY <1>7, Zenon DEF Length16
  <2>2. ~Walking /\ res = "none" /\ fn = "one16" /\ 0 \in Nat
    BY <1>7, <1>q DEF Length16
  <2>3. hi * Base + lo \in Nat
    BY TwoBytesAreNat
  <2> QED
    BY <2>1, <2>2, <2>3, WalkReturns, WalkBegins
<1>8. CASE LengthInto
  <2>0. ~Walking /\ res = "none" /\ fn = "into" /\ todo > 0 /\ left = 0 /\ Filling
    BY <1>8, <1>q DEF LengthInto, Filling, TypeInv, TypeOK, AtHeader
  <2>1. PICK len \in Bytes :
           /\ heard' = heard \o <<len>>
           /\ IF written + 1 + len > Len(buf) THEN Return("BufferTooSmall")
              ELSE /\ buf' = [buf EXCEPT ![written + 1] = len]
                   /\ written' = written + 1
                   /\ Proceed(len, todo - 1)
                   /\ UNCHANGED num
    BY <1>8, Zenon DEF LengthInto
  <2>2. CASE Return("BufferTooSmall")
    BY <2>0, <2>2, WalkReturns
  <2>3. CASE /\ ~(written + 1 + len > Len(buf))
             /\ buf' = [buf EXCEPT ![written + 1] = len]
             /\ written' = written + 1
             /\ Proceed(len, todo - 1)
             /\ UNCHANGED num
    <3>1. len \in Nat /\ todo - 1 \in Nat /\ written < Len(buf)
      BY <1>b, <2>0, <2>3, BytesAreNats
    <3>2. PICK pos \in [0..(num - todo) -> Nat] : Marks(pos)
      BY <2>0 DEF Walk
    <3> DEFINE n == num - todo
               longer == [k \in 0..(n + 1) |-> IF k <= n THEN pos[k] ELSE written + 1 + len]
    <3>3. /\ pos[0] = 0 /\ pos[n] = written
          /\ \A k \in 0..n : pos[k] \in Nat /\ pos[k] <= written
          /\ n \in Nat
      BY <1>b, <2>0, <3>2 DEF Marks
    <3>4. /\ buf'[written + 1] = len
          /\ \A k \in 0..n : k < n => pos[k] < written /\ pos[k + 1] = pos[k] + 1 + buf'[pos[k] + 1]
      BY <1>b, <2>3, <3>1, <3>2, MarksStay
    <3>5. num' - todo' = n + 1 /\ written' + left' = written + 1 + len /\ written' = written + 1
      BY <1>b, <2>3, <3>1 DEF Proceed
    <3>6. longer \in [0..(num' - todo') -> Nat]
      BY <1>b, <3>1, <3>3, <3>5
    <3>7. PICK marks \in [0..(num' - todo') -> Nat] : marks = longer
      BY <3>6
    <3>8. Marks(marks)'
      <4>1. longer[0] = 0 /\ longer[n + 1] = written + 1 + len
        BY <3>3
      <4>2. ASSUME NEW k \in 0..(n + 1)
            PROVE  /\ longer[k] <= written + 1 + len
                   /\ k < n + 1 => longer[k] < written + 1
                                   /\ longer[k + 1] = longer[k] + 1 + buf'[longer[k] + 1]
        <5>1. CASE k < n
          BY <1>b, <3>1, <3>3, <3>4, <5>1
        <5>2. CASE k = n
          BY <1>b, <3>1, <3>3, <3>4, <5>2
        <5>3. CASE k = n + 1
          BY <1>b, <3>1, <3>3, <5>3
        <5> QED
          BY <3>3, <5>1, <5>2, <5>3
      <4> HIDE DEF longer, n
      <4> QED
        BY <3>5, <3>7, <4>1, <4>2 DEF Marks
    <3> HIDE DEF longer, n
    <3>9. /\ pc' \in {"length", "data", "end"} /\ res' = "none" /\ fn' = fn /\ items' = items
          /\ pc' = "end" => todo' = 0 /\ left' = 0
      <4>1. /\ pc' = IF len > 0 THEN "data" ELSE IF todo - 1 > 0 THEN "length" ELSE "end"
            /\ left' = len /\ todo' = todo - 1 /\ res' = res /\ fn' = fn /\ items' = items
        BY <2>3 DEF Proceed, iterVars
      <4> QED
        BY <1>b, <2>0, <3>1, <4>1
    <3> QED
      BY <2>0, <3>8, <3>9 DEF Walk, Filling, Walking
  <2> QED
    BY <2>1, <2>2, <2>3
<1>9. CASE Data
  <2>0. pc = "data" /\ written' = written + 1 /\ Proceed(left - 1, todo) /\ num' = num
    BY <1>9 DEF Data
  <2>1. ~Walking /\ res = "none" /\ left > 0 /\ written < Len(buf) /\ left - 1 \in Nat
        /\ (fn # "into" => todo = 0)
    BY <2>0, <1>b, <1>q DEF TypeInv, TypeOK, AtHeader
  <2>2. PICK x \in Payload : buf' = [buf EXCEPT ![written + 1] = x]
    BY <1>9, Zenon DEF Data
  <2>3. /\ pc' \in {"length", "data", "end"} /\ res' = "none" /\ fn' = fn /\ items' = items
        /\ pc' = "end" => todo' = 0 /\ left' = 0
        /\ num' - todo' = num - todo /\ written' + left' = written + left
    BY <2>0, <2>1, <1>b DEF Proceed, iterVars
  <2>4. ASSUME fn = "into"
        PROVE  \E pos \in [0..(num' - todo') -> Nat] : Marks(pos)'
    <3>1. PICK pos \in [0..(num - todo) -> Nat] : Marks(pos)
      BY <2>0, <2>4 DEF Walk, Filling
    <3>2. \A k \in 0..(num - todo) : k < num - todo =>
              pos[k] < written /\ pos[k + 1] = pos[k] + 1 + buf'[pos[k] + 1]
      BY <1>b, <2>1, <2>2, <3>1, MarksStay, BytesAreNats
    <3>3. \A k \in 0..(num - todo) : pos[k] \in Nat
      OBVIOUS
    <3>4. Marks(pos)'
      BY <1>b, <2>0, <2>3, <3>1, <3>2, <3>3 DEF Marks
    <3> QED
      BY <2>3, <3>4
  <2> QED
    BY <2>1, <2>3, <2>4 DEF Walk, Filling, Walking
<1>10. CASE End
  <2>1. PICK x \in Bytes : heard' = heard \o <<x>> /\ Return(IF x = END THEN "Ok" ELSE "Framing")
    BY <1>10, Zenon DEF End
  <2>2. pc = "end" /\ ~Walking
    BY <1>10, <1>q DEF End
  <2>3. CASE Return("Framing")
    BY <2>2, <2>3, WalkReturns
  <2>4. CASE Return("Ok")
    <3>1. /\ pc' = "done" /\ fn' = fn /\ buf' = buf /\ written' = written /\ num' = num
          /\ todo' = todo /\ left' = left /\ items' = items
      BY <2>4 DEF Return, readVars, iterVars
    <3>2. fn = "into" => \E pos \in [0..(num - todo) -> Nat] : Marks(pos)
      BY <2>2 DEF Walk, Filling
    <3>3. fn' = "into" => \E pos \in [0..(num' - todo') -> Nat] : Marks(pos)'
      BY <3>1, <3>2 DEF Marks
    <3> QED
      BY <2>2, <3>1, <3>3 DEF Walk, Filling, Walking
  <2> QED
    BY <2>1, <2>3, <2>4
<1>11. CASE BusFails
  BY <1>11, <1>q, WalkReturns DEF BusFails
<1>12. CASE Iter
  <2>1. /\ fn = "into" /\ res = "Ok" /\ pc' = "iter" /\ rem' = num /\ at' = 0 /\ ~Walking
        /\ UNCHANGED <<fn, buf, num, todo, left, written, res, items>>
    BY <1>12 DEF Iter, readVars, Walking
  <2>2. PICK pos \in [0..(num - todo) -> Nat] : Marks(pos)
    BY <2>1 DEF Walk
  <2>3. Marks(pos)' /\ at' = pos[num' - rem'] /\ Len(items') = num' - rem' /\ Cut(pos)'
    BY <1>b, <2>1, <2>2 DEF Marks, Walk, Cut
  <2>4. pos \in [0..(num' - todo') -> Nat]
    BY <2>1
  <2>5. todo' = 0 /\ left' = 0 /\ items' \in Seq(Seq(Bytes))
    BY <2>1 DEF Walk
  <2> QED
    BY <2>1, <2>3, <2>4, <2>5 DEF Walk, Filling, Walking
<1>13. CASE NextItem
  <2>1. /\ pc = "iter" /\ rem > 0 /\ at < written /\ 1 + buf[at + 1] <= written - at
        /\ items' = Append(items, SubSeq(buf, at + 2, at + 1 + buf[at + 1]))
        /\ at' = at + 1 + buf[at + 1] /\ rem' = rem - 1
        /\ UNCHANGED <<fn, buf, pc, num, todo, left, written, res>>
    BY <1>13 DEF NextItem, More, readVars
  <2>2. fn = "into" /\ res = "Ok" /\ todo = 0 /\ left = 0 /\ Walking
    BY <2>1 DEF Walk, Walking
  <2>3. PICK pos \in [0..(num - todo) -> Nat] : Marks(pos) /\ at = pos[num - rem] /\ Cut(pos)
    BY <2>2 DEF Walk
  <2>4. num - rem \in 0..num /\ num - rem < num /\ num - (rem - 1) = num - rem + 1
    BY <1>b, <2>1
  <2>5. pos[num - rem + 1] = at + 1 + buf[at + 1]
    BY <1>b, <2>2, <2>3, <2>4 DEF Marks
  <2>6. at' = pos[num' - rem']
    BY <2>1, <2>4, <2>5
  <2>7. Marks(pos)'
    BY <2>1, <2>3 DEF Marks
  <2>8. SubSeq(buf, at + 2, at + 1 + buf[at + 1]) \in Seq(Bytes)
    <3>1. buf[at + 1] \in Nat
      <4>1. at + 1 \in 1..Len(buf)
        BY <1>b, <2>1
      <4>2. buf[at + 1] \in Bytes
        BY <1>b, <4>1, ElementOfSeq
      <4> QED
        BY <4>2, BytesAreNats
    <3>2. \A i \in (at + 2)..(at + 1 + buf[at + 1]) : i \in 1..Len(buf)
      BY <1>b, <2>1, <3>1
    <3>3. \A i \in (at + 2)..(at + 1 + buf[at + 1]) : buf[i] \in Bytes
      BY <1>b, <3>2, ElementOfSeq
    <3>4. at + 2 \in Int /\ at + 1 + buf[at + 1] \in Int
      BY <1>b, <3>1
    <3> QED
      BY <3>3, <3>4, SubSeqProperties
  <2>9. items' \in Seq(Seq(Bytes)) /\ Len(items') = num' - rem' /\ Cut(pos)'
    <3>1. items \in Seq(Seq(Bytes)) /\ Len(items) = num - rem
      BY <2>2 DEF Walk
    <3> DEFINE item == SubSeq(buf, at + 2, at + 1 + buf[at + 1])
    <3>0. item \in Seq(Bytes) /\ items' = Append(items, item) /\ buf' = buf
      BY <2>1, <2>8
    <3>s. item = SubSeq(buf, pos[Len(items)] + 2, pos[Len(items) + 1])
      BY <2>3, <2>4, <2>5, <3>1
    <3> HIDE DEF item
    <3>2. /\ items' \in Seq(Seq(Bytes)) /\ Len(items') = Len(items) + 1 /\ Len(items) \in Nat
          /\ items'[Len(items) + 1] = item
          /\ \A k \in 1..Len(items) : items'[k] = items[k]
      BY <3>0, <3>1
    <3>3. ASSUME NEW k \in 1..(Len(items) + 1)
          PROVE  items'[k] = SubSeq(buf', pos[k - 1] + 2, pos[k])
      <4>1. CASE k = Len(items) + 1
        BY <3>0, <3>s, <3>2, <4>1
      <4>2. CASE k \in 1..Len(items)
        BY <2>3, <3>0, <3>2, <4>2 DEF Cut
      <4> QED
        BY <3>2, <4>1, <4>2
    <3>4. Cut(pos)'
      BY <3>2, <3>3 DEF Cut
    <3> QED
      BY <2>1, <2>4, <3>1, <3>2, <3>4
  <2>10. pos \in [0..(num' - todo') -> Nat]
    BY <2>1
  <2> QED
    BY <2>1, <2>2, <2>6, <2>7, <2>9, <2>10 DEF Walk, Filling, Walking
<1>14. CASE NoItem
  <2>1. /\ pc = "iter" /\ ~More /\ pc' = "over"
        /\ UNCHANGED <<fn, buf, num, todo, left, written, res, rem, at, items>>
    BY <1>14 DEF NoItem, readVars, iterVars
  <2>2. fn = "into" /\ res = "Ok" /\ todo = 0 /\ left = 0 /\ Walking /\ Walking'
    BY <2>1 DEF Walk, Walking
  <2>3. PICK pos \in [0..(num - todo) -> Nat] : Marks(pos) /\ at = pos[num - rem] /\ Cut(pos)
    BY <2>2 DEF Walk
  <2>4. rem = 0
    <3> SUFFICES ASSUME rem > 0 PROVE More
      BY <1>b, <2>1
    <3>1. num - rem \in 0..(num - todo) /\ num - rem < num - todo
          /\ num - rem + 1 \in 0..(num - todo)
      BY <1>b, <2>2
    <3>2. at < written /\ pos[num - rem + 1] = at + 1 + buf[at + 1]
      BY <2>3, <3>1 DEF Marks
    <3>3. pos[num - rem + 1] <= written + left
      BY <2>3, <3>1 DEF Marks
    <3>4. buf[at + 1] \in Nat
      <4>1. at + 1 \in 1..Len(buf)
        BY <1>b, <3>2
      <4>2. buf[at + 1] \in Bytes
        BY <1>b, <4>1, ElementOfSeq
      <4> QED
        BY <4>2, BytesAreNats
    <3>5. 1 + buf[at + 1] <= written - at
      BY <1>b, <2>2, <3>2, <3>3, <3>4
    <3> QED
      BY <3>2, <3>5 DEF More
  <2>5. Marks(pos)' /\ at' = pos[num' - rem'] /\ pos \in [0..(num' - todo') -> Nat] /\ Cut(pos)'
    BY <2>1, <2>3 DEF Marks, Cut
  <2>6. items' \in Seq(Seq(Bytes)) /\ Len(items') = num' - rem'
    BY <2>1, <2>2 DEF Walk
  <2> QED
    BY <2>1, <2>2, <2>4, <2>5, <2>6 DEF Walk
<1>15. CASE UNCHANGED vars
  BY <1>15 DEF vars, readVars, iterVars, Walk, Walking, Filling, Marks, Cut
<1> QED
  BY <1>1, <1>2, <1>3, <1>4, <1>5, <1>6, <1>7, <1>8, <1>9, <1>10, <1>11, <1>12, <1>13, <1>14,
     <1>15 DEF Next

LEMMA WalkEnds == TypeInv /\ Walk => IterComplete
<1> SUFFICES ASSUME TypeInv, Walk, pc = "over" PROVE Len(items) = num /\ at = written
  BY DEF IterComplete
<1>1. Walking /\ rem = 0 /\ num \in Nat /\ written \in Nat
  BY LenProperties, BytesAreNats DEF Walk, Walking, TypeInv, TypeOK
<1>2. fn = "into" /\ res = "Ok" /\ todo = 0 /\ left = 0 /\ Len(items) = num - rem
  BY <1>1 DEF Walk
<1>3. PICK pos \in [0..(num - todo) -> Nat] : Marks(pos) /\ at = pos[num - rem]
  BY <1>1, <1>2 DEF Walk
<1> QED
  BY <1>1, <1>2, <1>3 DEF Marks

\* IterComplete of FrameReader: the iterator over a reply that was received yields
\* as many parameters as the reply announced and ends where the reply ends.
THEOREM IterYieldsAll == Spec => []IterComplete
<1>1. Init => Walk
  BY EmptySeq DEF Init, Walk, Walking, Filling
<1> QED
  BY <1>1, WalkNext, WalkEnds, TypeInvAlways, PTL DEF Spec

-----------------------------------------------------------------------------
(* Addresses *)

\* Parameter k lies between the marks p and q.
Laid(k, p, q) ==
    /\ p \in Nat /\ q \in Nat /\ p < written /\ q <= written
    /\ buf[p + 1] \in Nat /\ q = p + 1 + buf[p + 1]
    /\ items[k] = SubSeq(buf, p + 2, q) /\ Len(items[k]) = buf[p + 1]

\* A reply that was received, seen by its marks.
LEMMA Parameters ==
    ASSUME TypeInv, Walk, pc = "over"
    PROVE  \E pos \in [0..num -> Nat] :
               /\ num \in Nat /\ Len(items) = num /\ items \in Seq(Seq(Bytes))
               /\ pos[0] = 0 /\ pos[num] = written /\ written \in Nat
               /\ \A k \in 0..num : k < num => Laid(k + 1, pos[k], pos[k + 1])
<1>1. /\ Walking /\ rem = 0 /\ num \in Nat /\ written \in Nat /\ written <= Len(buf)
      /\ buf \in Seq(Bytes) /\ Len(buf) \in Nat
  BY LenProperties, BytesAreNats DEF Walk, Walking, TypeInv, TypeOK
<1>2. /\ fn = "into" /\ res = "Ok" /\ todo = 0 /\ left = 0 /\ Len(items) = num
      /\ items \in Seq(Seq(Bytes))
  BY <1>1 DEF Walk
<1>3. PICK pos \in [0..(num - todo) -> Nat] : Marks(pos) /\ Cut(pos)
  BY <1>1, <1>2 DEF Walk
<1>4. /\ pos \in [0..num -> Nat] /\ Len(items) = num
      /\ pos[0] = 0 /\ pos[num] = written
      /\ \A k \in 0..num : pos[k] <= written /\ pos[k] \in Nat
      /\ \A k \in 0..num : k < num =>
             pos[k] < written /\ pos[k + 1] = pos[k] + 1 + buf[pos[k] + 1]
  BY <1>1, <1>2, <1>3 DEF Marks
<1>5. ASSUME NEW k \in 0..num, k < num
      PROVE  Laid(k + 1, pos[k], pos[k + 1])
  <2>1. k + 1 \in 1..num /\ (k + 1) - 1 = k /\ k + 1 \in 0..num
    BY <1>1, <1>5
  <2>2. /\ pos[k] < written /\ pos[k + 1] = pos[k] + 1 + buf[pos[k] + 1]
        /\ pos[k] \in Nat /\ pos[k + 1] \in Nat /\ pos[k + 1] <= written
    BY <1>4, <1>5, <2>1
  <2>3. items[k + 1] = SubSeq(buf, pos[k] + 2, pos[k + 1])
    BY <1>3, <1>4, <2>1 DEF Cut
  <2>4. buf[pos[k] + 1] \in Nat
    <3>1. pos[k] + 1 \in 1..Len(buf)
      BY <1>1, <2>2
    <3> QED
      BY <1>1, <3>1, ElementOfSeq, BytesAreNats
  <2>5. \A i \in (pos[k] + 2)..pos[k + 1] : buf[i] \in Bytes
    <3>1. \A i \in (pos[k] + 2)..pos[k + 1] : i \in 1..Len(buf)
      BY <1>1, <2>2
    <3> QED
      BY <1>1, <3>1, ElementOfSeq
  <2>6. Len(SubSeq(buf, pos[k] + 2, pos[k + 1])) =
            IF pos[k] + 2 <= pos[k + 1] THEN pos[k + 1] - (pos[k] + 2) + 1 ELSE 0
    <3>1. pos[k] + 2 \in Int /\ pos[k + 1] \in Int
      BY <2>2
    <3> QED
      BY <2>5, <3>1, SubSeqProperties
  <2>7. Len(items[k + 1]) = buf[pos[k] + 1]
    <3>1. ASSUME NEW m \in Nat, NEW n \in Nat, NEW b \in Nat, n = m + 1 + b
          PROVE  (IF m + 2 <= n THEN n - (m + 2) + 1 ELSE 0) = b
      BY <3>1
    <3>2. (IF pos[k] + 2 <= pos[k + 1] THEN pos[k + 1] - (pos[k] + 2) + 1 ELSE 0) = buf[pos[k] + 1]
      BY <2>2, <2>4, <3>1
    <3> QED
      BY <2>3, <2>6, <3>2
  <2> QED
    BY <2>2, <2>3, <2>4, <2>7 DEF Laid
<1> QED
  BY <1>1, <1>2, <1>4, <1>5

\* The first three parameters, with the numbers at which they end.
LEMMA FirstParameters ==
    ASSUME TypeInv, Walk, pc = "over"
    PROVE  \E p, q, r \in Nat :
               /\ num \in Nat /\ Len(items) = num /\ items \in Seq(Seq(Bytes)) /\ written \in Nat
               /\ num = 0 => written = 0
               /\ num = 1 => written = p
               /\ num >= 1 => Laid(1, 0, p)
               /\ num >= 2 => Laid(2, p, q)
               /\ num >= 3 => Laid(3, q, r)
<1>1. PICK pos \in [0..num -> Nat] :
               /\ num \in Nat /\ Len(items) = num /\ items \in Seq(Seq(Bytes))
               /\ pos[0] = 0 /\ pos[num] = written /\ written \in Nat
               /\ \A k \in 0..num : k < num => Laid(k + 1, pos[k], pos[k + 1])
  BY Parameters
<1> DEFINE end(k) == IF k <= num THEN pos[k] ELSE 0
<1>2. /\ 0 + 1 = 1 /\ 1 + 1 = 2 /\ 2 + 1 = 3
      /\ num >= 1 => 0 \in 0..num /\ 0 < num /\ end(1) = pos[1] /\ end(1) \in Nat
      /\ num >= 2 => 1 \in 0..num /\ 1 < num /\ end(2) = pos[2] /\ end(2) \in Nat
      /\ num >= 3 => 2 \in 0..num /\ 2 < num /\ end(3) = pos[3] /\ end(3) \in Nat
      /\ end(1) \in Nat /\ end(2) \in Nat /\ end(3) \in Nat
  BY <1>1
<1>3. num >= 1 => Laid(1, 0, end(1))
  BY <1>1, <1>2
<1>4. num >= 2 => Laid(2, end(1), end(2))
  <2>1. num >= 2 => num >= 1
    BY <1>1
  <2> QED
    BY <1>1, <1>2, <2>1
<1>5. num >= 3 => Laid(3, end(2), end(3))
  <2>1. num >= 3 => num >= 2
    BY <1>1
  <2> QED
    BY <1>1, <1>2, <2>1
<1>6. num = 1 => written = end(1)
  BY <1>1, <1>2
<1> HIDE DEF end
<1> QED
  BY <1>1, <1>2, <1>3, <1>4, <1>5, <1>6

\* The first elements of a sequence.
LEMMA FirstThree ==
    ASSUME NEW S, NEW s \in Seq(S), 3 <= Len(s)
    PROVE  SubSeq(s, 1, 3) = <<s[1], s[2], s[3]>>
<1>1. \A i \in 1..3 : s[i] \in S
  BY ElementOfSeq, LenProperties
<1>2. /\ SubSeq(s, 1, 3) \in Seq(S) /\ Len(SubSeq(s, 1, 3)) = 3
      /\ SubSeq(s, 1, 3)[1] = s[1] /\ SubSeq(s, 1, 3)[2] = s[2] /\ SubSeq(s, 1, 3)[3] = s[3]
  <2>1. /\ SubSeq(s, 1, 3) \in Seq(S)
        /\ Len(SubSeq(s, 1, 3)) = IF 1 <= 3 THEN 3 - 1 + 1 ELSE 0
        /\ \A i \in 1..(3 - 1 + 1) : SubSeq(s, 1, 3)[i] = s[1 + i - 1]
    BY <1>1, SubSeqProperties
  <2> QED
    BY <2>1
<1>3. /\ <<s[1], s[2], s[3]>> \in Seq(S) /\ Len(<<s[1], s[2], s[3]>>) = 3
      /\ s[1] \in S /\ s[2] \in S /\ s[3] \in S
  BY <1>1
<1>4. \A i \in 1..3 : SubSeq(s, 1, 3)[i] = <<s[1], s[2], s[3]>>[i]
  <2>1. \A i \in 1..3 : i = 1 \/ i = 2 \/ i = 3
    OBVIOUS
  <2> QED
    BY <1>2, <2>1
<1> QED
  BY <1>2, <1>3, <1>4, SeqEqual

LEMMA FirstTwo ==
    ASSUME NEW S, NEW s \in Seq(S), 2 <= Len(s)
    PROVE  SubSeq(s, 1, 2) = <<s[1], s[2]>>
<1>1. \A i \in 1..2 : s[i] \in S
  BY ElementOfSeq, LenProperties
<1>2. /\ SubSeq(s, 1, 2) \in Seq(S)
      /\ Len(SubSeq(s, 1, 2)) = IF 1 <= 2 THEN 2 - 1 + 1 ELSE 0
      /\ \A i \in 1..(2 - 1 + 1) : SubSeq(s, 1, 2)[i] = s[1 + i - 1]
  BY <1>1, SubSeqProperties
<1>3. Len(SubSeq(s, 1, 2)) = 2 /\ SubSeq(s, 1, 2)[1] = s[1] /\ SubSeq(s, 1, 2)[2] = s[2]
  BY <1>2
<1>4. <<s[1], s[2]>> \in Seq(S) /\ Len(<<s[1], s[2]>>) = 2
  BY <1>1
<1>5. \A i \in 1..2 : SubSeq(s, 1, 2)[i] = <<s[1], s[2]>>[i]
  <2>1. \A i \in 1..2 : i = 1 \/ i = 2
    OBVIOUS
  <2> QED
    BY <1>3, <2>1
<1> QED
  BY <1>2, <1>3, <1>4, <1>5, SeqEqual

\* udp_remote looks at fixed places; they are the places of the parameters exactly
\* when the parameters have the lengths of an address and of a port.
LEMMA RemoteRead ==
    ASSUME TypeInv, Walk, pc = "over"
    PROVE  udp_remote = IF Len(items) >= 2 /\ Len(items[1]) = AddrLen /\ Len(items[2]) = PortLen
                        THEN SubSeq(items, 1, 2) ELSE NoAddress
<1>1. PICK p \in Nat, q \in Nat, r \in Nat :
               /\ num \in Nat /\ Len(items) = num /\ items \in Seq(Seq(Bytes)) /\ written \in Nat
               /\ num = 0 => written = 0
               /\ num = 1 => written = p
               /\ num >= 1 => Laid(1, 0, p)
               /\ num >= 2 => Laid(2, p, q)
  BY FirstParameters
<1>2. AddrLen \in Nat /\ AddrLen > 0 /\ PortLen \in Nat /\ PortLen > 0
  BY BytesAssumption
<1>3. /\ num >= 1 => p = 1 + buf[1] /\ items[1] = SubSeq(buf, 2, p) /\ Len(items[1]) = buf[1]
                     /\ buf[1] \in Nat
      /\ num >= 2 => /\ q = p + 1 + buf[p + 1] /\ q <= written /\ buf[p + 1] \in Nat
                     /\ items[2] = SubSeq(buf, p + 2, q) /\ Len(items[2]) = buf[p + 1]
  <2>1. 0 + 1 = 1 /\ 0 + 2 = 2
    OBVIOUS
  <2> QED
    BY <1>1, <2>1 DEF Laid
<1>4. CASE num >= 2 /\ Len(items[1]) = AddrLen /\ Len(items[2]) = PortLen
  <2>1. num >= 1
    BY <1>1, <1>4
  <2>2. p = AddrLen + 1 /\ buf[1] = AddrLen /\ buf[p + 1] = PortLen
    <3>1. buf[1] = AddrLen /\ buf[p + 1] = PortLen
      BY <1>3, <1>4, <2>1
    <3> QED
      BY <1>2, <1>3, <2>1, <3>1
  <2>3. p + 1 = AddrLen + 2 /\ p + 2 = AddrLen + 3 /\ q = AddrLen + 2 + PortLen
        /\ 0 + 2 = 2 /\ 0 + 1 + AddrLen = p
    BY <1>2, <1>3, <1>4, <2>2
  <2>4. written >= 1 + AddrLen + 1 + PortLen
    BY <1>1, <1>2, <1>3, <1>4, <2>3
  <2>5. udp_remote = <<V4(0), SubSeq(buf, AddrLen + 3, AddrLen + 2 + PortLen)>>
    BY <2>2, <2>3, <2>4 DEF udp_remote
  <2>6. V4(0) = items[1] /\ SubSeq(buf, AddrLen + 3, AddrLen + 2 + PortLen) = items[2]
    BY <1>3, <1>4, <2>1, <2>3 DEF V4
  <2>7. SubSeq(items, 1, 2) = <<items[1], items[2]>>
    BY <1>1, <1>4, FirstTwo
  <2> QED
    BY <1>1, <1>4, <2>5, <2>6, <2>7
<1>5. ASSUME written >= 1 + AddrLen + 1 + PortLen, buf[1] = AddrLen, buf[AddrLen + 2] = PortLen
      PROVE  num >= 2 /\ Len(items[1]) = AddrLen /\ Len(items[2]) = PortLen
  <2>1. num >= 1
    BY <1>1, <1>2, <1>5
  <2>2. p = AddrLen + 1 /\ p + 1 = AddrLen + 2
    BY <1>2, <1>3, <1>5, <2>1
  <2>3. num # 1
    BY <1>1, <1>2, <1>5, <2>2
  <2>4. num >= 2
    BY <1>1, <2>1, <2>3
  <2> QED
    BY <1>3, <1>5, <2>1, <2>2, <2>4
<1>6. CASE ~(num >= 2 /\ Len(items[1]) = AddrLen /\ Len(items[2]) = PortLen)
  BY <1>1, <1>5, <1>6 DEF udp_remote
<1> QED
  BY <1>4, <1>6

\* The same of the three addresses of ip_config.
LEMMA ConfigRead ==
    ASSUME TypeInv, Walk, pc = "over"
    PROVE  ip_config = IF /\ Len(items) >= 3
                          /\ Len(items[1]) = AddrLen /\ Len(items[2]) = AddrLen
                          /\ Len(items[3]) = AddrLen
                       THEN SubSeq(items, 1, 3) ELSE NoAddress
<1>1. PICK p \in Nat, q \in Nat, r \in Nat :
               /\ num \in Nat /\ Len(items) = num /\ items \in Seq(Seq(Bytes)) /\ written \in Nat
               /\ num >= 1 => Laid(1, 0, p)
               /\ num >= 2 => Laid(2, p, q)
               /\ num >= 3 => Laid(3, q, r)
  BY FirstParameters
<1>2. AddrLen \in Nat /\ AddrLen > 0
  BY BytesAssumption
<1>3. CASE num < 3
  BY <1>1, <1>3 DEF ip_config
<1>4. CASE num >= 3
  <2>1. /\ p = 1 + buf[1] /\ items[1] = SubSeq(buf, 2, p) /\ Len(items[1]) = buf[1]
        /\ p <= written /\ buf[1] \in Nat
    <3>1. 0 + 1 = 1 /\ 0 + 2 = 2 /\ num >= 1
      BY <1>1, <1>4
    <3> QED
      BY <1>1, <3>1 DEF Laid
  <2>2. /\ q = p + 1 + buf[p + 1] /\ items[2] = SubSeq(buf, p + 2, q)
        /\ Len(items[2]) = buf[p + 1] /\ q <= written /\ p < written /\ buf[p + 1] \in Nat
    <3>1. num >= 2
      BY <1>1, <1>4
    <3> QED
      BY <1>1, <3>1 DEF Laid
  <2>3. /\ r = q + 1 + buf[q + 1] /\ items[3] = SubSeq(buf, q + 2, r)
        /\ Len(items[3]) = buf[q + 1] /\ r <= written /\ q < written /\ buf[q + 1] \in Nat
    BY <1>1, <1>4 DEF Laid
  <2> DEFINE second == 1 + AddrLen
             third == 2 * (1 + AddrLen)
  <2>5. HasV4(0) <=> buf[1] = AddrLen
    <3>1. 0 + 1 = 1 /\ 0 + 1 + AddrLen = 1 + AddrLen
      BY <1>2
    <3>2. buf[1] = AddrLen => 1 <= written /\ 1 + AddrLen <= written
      BY <1>1, <1>2, <2>1, <2>2
    <3> QED
      BY <3>1, <3>2 DEF HasV4
  <2>6. ASSUME buf[1] = AddrLen
        PROVE  second = p /\ second + 1 + AddrLen = p + 1 + AddrLen
               /\ (HasV4(second) <=> buf[p + 1] = AddrLen)
    <3>1. second = p
      BY <1>2, <2>1, <2>6
    <3> HIDE DEF second
    <3>2. HasV4(p) <=> buf[p + 1] = AddrLen
      <4>1. buf[p + 1] = AddrLen => p + 1 <= written /\ p + 1 + AddrLen <= written
        BY <1>1, <1>2, <2>2
      <4> QED
        BY <4>1 DEF HasV4
    <3> QED
      BY <3>1, <3>2
  <2>7. ASSUME buf[1] = AddrLen, buf[p + 1] = AddrLen
        PROVE  third = q /\ (HasV4(third) <=> buf[q + 1] = AddrLen)
    <3>1. third = q
      BY <1>2, <2>1, <2>2, <2>7
    <3> HIDE DEF third
    <3>2. HasV4(q) <=> buf[q + 1] = AddrLen
      <4>1. buf[q + 1] = AddrLen => q + 1 <= written /\ q + 1 + AddrLen <= written
        BY <1>1, <1>2, <2>3
      <4> QED
        BY <4>1 DEF HasV4
    <3> QED
      BY <3>1, <3>2
  <2> HIDE DEF second, third
  <2>8. CASE buf[1] = AddrLen /\ buf[p + 1] = AddrLen /\ buf[q + 1] = AddrLen
    <3>1. V4(0) = items[1] /\ V4(p) = items[2] /\ V4(q) = items[3]
      <4>1. 0 + 2 = 2 /\ 0 + 1 + AddrLen = p
        BY <1>2, <2>1, <2>8
      <4>2. p + 1 + AddrLen = q /\ q + 1 + AddrLen = r
        BY <2>2, <2>3, <2>8
      <4> QED
        BY <2>1, <2>2, <2>3, <4>1, <4>2 DEF V4
    <3>2. ip_config = <<V4(0), V4(second), V4(third)>>
      BY <1>4, <2>5, <2>6, <2>7, <2>8 DEF ip_config, second, third
    <3>3. SubSeq(items, 1, 3) = <<items[1], items[2], items[3]>>
      BY <1>1, <1>4, FirstThree
    <3> QED
      BY <1>1, <1>4, <2>1, <2>2, <2>3, <2>6, <2>7, <2>8, <3>1, <3>2, <3>3
  <2>9. CASE ~(buf[1] = AddrLen /\ buf[p + 1] = AddrLen /\ buf[q + 1] = AddrLen)
    <3>1. ~(HasV4(0) /\ HasV4(second) /\ HasV4(third))
      BY <2>5, <2>6, <2>7, <2>9
    <3>2. ip_config = NoAddress
      BY <3>1 DEF ip_config, second, third
    <3> QED
      BY <2>1, <2>2, <2>3, <2>9, <3>2
  <2> QED
    BY <2>8, <2>9
<1> QED
  BY <1>1, <1>3, <1>4

\* AddressesRead of FrameReader: the readers at fixed places and the iterator agree
\* on every reply, so no address is cut out of other parameters.
THEOREM AddressesAreParameters == Spec => []AddressesRead
<1>1. TypeInv /\ Walk => AddressesRead
  <2> SUFFICES ASSUME TypeInv, Walk, pc = "over" PROVE AddressesRead
    BY DEF AddressesRead
  <2> DEFINE Lens(lens) ==
                 Len(items) >= Len(lens) /\ \A i \in DOMAIN lens : Len(items[i]) = lens[i]
  <2>1. Lens(<<AddrLen, AddrLen, AddrLen>>) <=>
            /\ Len(items) >= 3
            /\ Len(items[1]) = AddrLen /\ Len(items[2]) = AddrLen /\ Len(items[3]) = AddrLen
    OBVIOUS
  <2>2. Lens(<<AddrLen, PortLen>>) <=>
            Len(items) >= 2 /\ Len(items[1]) = AddrLen /\ Len(items[2]) = PortLen
    OBVIOUS
  <2> HIDE DEF Lens
  <2>3. /\ ip_config = IF Lens(<<AddrLen, AddrLen, AddrLen>>) THEN SubSeq(items, 1, 3) ELSE NoAddress
        /\ udp_remote = IF Lens(<<AddrLen, PortLen>>) THEN SubSeq(items, 1, 2) ELSE NoAddress
    BY <2>1, <2>2, ConfigRead, RemoteRead
  <2> QED
    BY <2>3 DEF AddressesRead, Lens
<1>2. Init => Walk
  BY EmptySeq DEF Init, Walk, Walking, Filling
<1> QED
  BY <1>1, <1>2, WalkNext, TypeInvAlways, PTL DEF Spec


-----------------------------------------------------------------------------
(* No reply keeps the bus for longer than the caller's buffer takes *)

\* How many bytes are clocked in besides those of the buffer.
Overhead ==
    IF fn = "one" THEN 4 ELSE IF fn = "one16" /\ pc # "length" THEN 5 ELSE 3

\* Every byte clocked in since START_CMD is framing or has its place in the buffer.
Clocked ==
    /\ ReadsBounded
    /\ pc = "start" => Len(heard) = 0
    /\ pc = "header" => Len(heard) = 1
    /\ pc \in {"length", "data", "end"} => Len(heard) = Overhead + written

LEMMA HeardLengthens ==
    ASSUME heard \in Seq(Bytes)
    PROVE  /\ Len(heard) \in Nat
           /\ \A x \in Bytes : Len(heard \o <<x>>) = Len(heard) + 1
           /\ \A x, y \in Bytes : Len(heard \o <<x, y>>) = Len(heard) + 2
           /\ \A x, y, z \in Bytes : Len(heard \o <<x, y, z>>) = Len(heard) + 3
<1>1. ASSUME NEW x \in Bytes PROVE <<x>> \in Seq(Bytes) /\ Len(<<x>>) = 1
  BY <1>1
<1>2. ASSUME NEW x \in Bytes, NEW y \in Bytes
      PROVE  <<x, y>> \in Seq(Bytes) /\ Len(<<x, y>>) = 2
  BY <1>2
<1>3. ASSUME NEW x \in Bytes, NEW y \in Bytes, NEW z \in Bytes
      PROVE  <<x, y, z>> \in Seq(Bytes) /\ Len(<<x, y, z>>) = 3
  BY <1>3
<1> QED
  BY <1>1, <1>2, <1>3, ConcatProperties, LenProperties

\* A function that returns clocks nothing in after that.
LEMMA ReturnClocked ==
    ASSUME NEW r, Return(r), heard' \in Seq(Bytes), Len(heard') <= Len(buf) + 6
    PROVE  Clocked'
BY DEF Clocked, ReadsBounded, Return

LEMMA ProceedClocked ==
    ASSUME NEW l \in Nat, NEW t \in Nat, Proceed(l, t),
           buf' \in Seq(Bytes), written' \in Nat, written' + l <= Len(buf'),
           l = 0 /\ t > 0 /\ fn = "one16" => Len(heard') = 3 + written',
           ~(l = 0 /\ t > 0) /\ fn = "one16" => Len(heard') = 5 + written',
           fn = "one" => Len(heard') = 4 + written',
           fn \notin {"one", "one16"} => Len(heard') = 3 + written'
    PROVE  Clocked'
<1>1. Len(buf') \in Nat
  BY LenProperties
<1>2. fn' = fn /\ pc' = IF l > 0 THEN "data" ELSE IF t > 0 THEN "length" ELSE "end"
  BY DEF Proceed
<1>3. pc' \in {"data", "length", "end"} /\ (pc' = "length" <=> l = 0 /\ t > 0)
  BY <1>2
<1>4. Len(heard') = Overhead' + written'
  BY <1>2, <1>3 DEF Overhead
<1>5. Len(heard') <= Len(buf') + 6
  BY <1>1, <1>2, <1>4 DEF Overhead
<1> QED
  BY <1>3, <1>4, <1>5 DEF Clocked, ReadsBounded

LEMMA ClockedInit == Init => Clocked
<1> SUFFICES ASSUME Init PROVE Clocked
  OBVIOUS
<1>1. Len(buf) \in Nat
  BY InitType, LenProperties DEF TypeOK
<1>2. Len(heard) = 0 /\ pc = "start"
  BY DEF Init
<1> QED
  BY <1>1, <1>2 DEF Clocked, ReadsBounded

LEMMA ClockedNext == TypeInv /\ Clocked /\ [Next]_vars => Clocked'
<1> SUFFICES ASSUME TypeInv, Clocked, [Next]_vars PROVE Clocked'
  OBVIOUS
<1>t. TypeOK /\ AtHeader /\ TypeOK'
  BY TypeNext DEF TypeInv
<1>b. /\ buf \in Seq(Bytes) /\ heard \in Seq(Bytes)
      /\ buf' \in Seq(Bytes) /\ heard' \in Seq(Bytes)
      /\ Len(buf) \in Nat /\ Len(heard) \in Nat
      /\ written \in Nat /\ written <= Len(buf) /\ left \in Nat
      /\ num \in Nat /\ todo \in Nat
      /\ fn \in {"one", "one16", "into"}
  BY <1>t, LenProperties, BytesAreNats DEF TypeOK
<1>r. ASSUME NEW r, Return(r), UNCHANGED heard PROVE Clocked'
  BY <1>r, <1>b, ReturnClocked DEF Clocked, ReadsBounded
<1>1. CASE Start
  <2>1. heard' = <<START>> /\ buf' = buf /\ pc' = "header"
    BY <1>1 DEF Start
  <2>2. Len(heard') = 1
    BY <2>1
  <2> QED
    BY <2>1, <2>2, <1>b DEF Clocked, ReadsBounded
<1>2. CASE ErrCmd
  BY <1>2, <1>r DEF ErrCmd
<1>3. CASE Idle
  <2>1. CASE Return("Timeout")
    BY <1>3, <2>1, <1>r DEF Idle
  <2>2. CASE UNCHANGED <<fn, buf, pc, written>>
    BY <1>3, <2>2 DEF Idle, Clocked, ReadsBounded, Overhead
  <2> QED
    BY <1>3, <2>1, <2>2 DEF Idle
<1>4. CASE HeaderOne
  <2>0. written = 0 /\ fn = "one" /\ Len(heard) = 1
    BY <1>4, <1>t DEF HeaderOne, AtHeader, Clocked
  <2>1. PICK reply \in Bytes, count \in Bytes, len \in Bytes :
           /\ heard' = heard \o <<reply, count, len>>
           /\ IF reply # REPLY \/ count # 1 THEN Return("Framing")
              ELSE IF len > Len(buf) THEN Return("BufferTooSmall")
              ELSE Proceed(len, 0) /\ num' = 1 /\ UNCHANGED <<buf, written>>
    BY <1>4, Zenon DEF HeaderOne
  <2>2. Len(heard') = 4
    BY <2>0, <2>1, <1>b, HeardLengthens
  <2>3. CASE Return("Framing") \/ Return("BufferTooSmall")
    BY <2>2, <2>3, <1>b, ReturnClocked
  <2>4. CASE ~(len > Len(buf)) /\ Proceed(len, 0) /\ UNCHANGED <<buf, written>>
    <3>1. len \in Nat /\ 0 \in Nat /\ written' \in Nat /\ written' + len <= Len(buf')
      BY <2>0, <2>4, <1>b, BytesAreNats
    <3> QED
      BY <2>0, <2>2, <2>4, <3>1, <1>b, ProceedClocked
  <2> QED
    BY <2>1, <2>3, <2>4
<1>5. CASE HeaderOne16
  <2>0. written = 0 /\ fn = "one16" /\ Len(heard) = 1
    BY <1>5, <1>t DEF HeaderOne16, AtHeader, Clocked
  <2>1. PICK reply \in Bytes, count \in Bytes :
           /\ heard' = heard \o <<reply, count>>
           /\ IF reply # REPLY \/ count # 1 THEN Return("Framing")
              ELSE Proceed(0, 1) /\ num' = 1 /\ UNCHANGED <<buf, written>>
    BY <1>5, Zenon DEF HeaderOne16
  <2>2. Len(heard') = 3
    BY <2>0, <2>1, <1>b, HeardLengthens
  <2>3. CASE Return("Framing")
    BY <2>2, <2>3, <1>b, ReturnClocked
  <2>4. CASE Proceed(0, 1) /\ UNCHANGED <<buf, written>>
    BY <2>0, <2>2, <2>4, <1>b, ProceedClocked
  <2> QED
    BY <2>1, <2>3, <2>4
<1>6. CASE HeaderInto
  <2>0. written = 0 /\ fn = "into" /\ Len(heard) = 1
    BY <1>6, <1>t DEF HeaderInto, AtHeader, Clocked
  <2>1. PICK reply \in Bytes, count \in Bytes :
           /\ heard' = heard \o <<reply, count>>
           /\ IF reply # REPLY THEN Return("Framing")
              ELSE Proceed(0, count) /\ num' = count /\ UNCHANGED <<buf, written>>
    BY <1>6, Zenon DEF HeaderInto
  <2>2. Len(heard') = 3
    BY <2>0, <2>1, <1>b, HeardLengthens
  <2>3. CASE Return("Framing")
    BY <2>2, <2>3, <1>b, ReturnClocked
  <2>4. CASE Proceed(0, count) /\ UNCHANGED <<buf, written>>
    <3>1. count \in Nat /\ 0 \in Nat /\ written' \in Nat /\ written' + 0 <= Len(buf')
      BY <2>0, <2>4, <1>b, BytesAreNats
    <3> QED
      BY <2>0, <2>2, <2>4, <3>1, <1>b, ProceedClocked
  <2> QED
    BY <2>1, <2>3, <2>4
<1>7. CASE Length16
  <2>0. written = 0 /\ fn = "one16" /\ Len(heard) = 3
    BY <1>7, <1>t DEF Length16, AtHeader, Clocked, Overhead
  <2>1. PICK hi \in Bytes, lo \in Bytes :
           /\ heard' = heard \o <<hi, lo>>
           /\ IF hi * Base + lo > Len(buf) THEN Return("BufferTooSmall")
              ELSE Proceed(hi * Base + lo, 0) /\ UNCHANGED <<buf, num, written>>
    BY <1>7, Zenon DEF Length16
  <2>2. Len(heard') = 5
    BY <2>0, <2>1, <1>b, HeardLengthens
  <2>3. CASE Return("BufferTooSmall")
    BY <2>2, <2>3, <1>b, ReturnClocked
  <2> DEFINE len == hi * Base + lo
  <2>4. CASE ~(len > Len(buf)) /\ Proceed(len, 0) /\ UNCHANGED <<buf, written>>
    <3>0. len \in Nat
      BY TwoBytesAreNat
    <3> HIDE DEF len
    <3>1. 0 \in Nat /\ written' \in Nat /\ written' + len <= Len(buf')
      BY <2>0, <2>4, <3>0, <1>b
    <3> QED
      BY <2>0, <2>2, <2>4, <3>0, <3>1, <1>b, ProceedClocked
  <2> QED
    BY <2>1, <2>3, <2>4
<1>8. CASE LengthInto
  <2>0. fn = "into" /\ Len(heard) = 3 + written /\ todo > 0
    BY <1>8, <1>t DEF LengthInto, TypeOK, Clocked, Overhead
  <2>1. PICK len \in Bytes :
           /\ heard' = heard \o <<len>>
           /\ IF written + 1 + len > Len(buf) THEN Return("BufferTooSmall")
              ELSE /\ buf' = [buf EXCEPT ![written + 1] = len]
                   /\ written' = written + 1
                   /\ Proceed(len, todo - 1)
                   /\ UNCHANGED num
    BY <1>8, Zenon DEF LengthInto
  <2>2. Len(heard') = 4 + written /\ len \in Nat
    BY <2>0, <2>1, <1>b, HeardLengthens, BytesAreNats
  <2>3. CASE Return("BufferTooSmall")
    BY <2>2, <2>3, <1>b, ReturnClocked
  <2>4. CASE /\ ~(written + 1 + len > Len(buf))
             /\ buf' = [buf EXCEPT ![written + 1] = len]
             /\ written' = written + 1
             /\ Proceed(len, todo - 1)
    <3>1. Len(buf') = Len(buf)
      BY <2>2, <2>4, <1>b, WriteExtends
    <3>2. todo - 1 \in Nat /\ written' \in Nat /\ written' + len <= Len(buf')
          /\ Len(heard') = 3 + written'
      BY <2>0, <2>2, <2>4, <3>1, <1>b
    <3> QED
      BY <2>0, <2>2, <2>4, <3>2, <1>b, ProceedClocked
  <2> QED
    BY <2>1, <2>3, <2>4
<1>9. CASE Data
  <2>0. /\ left > 0 /\ written + left <= Len(buf)
        /\ fn # "into" => todo = 0
        /\ Len(heard) = written + IF fn = "one" THEN 4 ELSE IF fn = "one16" THEN 5 ELSE 3
    BY <1>9, <1>t, <1>b DEF Data, TypeOK, AtHeader, Clocked, Overhead
  <2>1. PICK x \in Payload : heard' = heard \o <<x>> /\ buf' = [buf EXCEPT ![written + 1] = x]
    BY <1>9, Zenon DEF Data
  <2>2. Len(heard') = Len(heard) + 1 /\ Len(buf') = Len(buf)
    BY <2>0, <2>1, <1>b, HeardLengthens, WriteExtends, BytesAreNats
  <2>3. written' = written + 1 /\ Proceed(left - 1, todo)
    BY <1>9 DEF Data
  <2>4. /\ left - 1 \in Nat /\ written' \in Nat /\ written' + (left - 1) <= Len(buf')
        /\ Len(heard') = written' + IF fn = "one" THEN 4 ELSE IF fn = "one16" THEN 5 ELSE 3
    BY <2>0, <2>2, <2>3, <1>b
  <2> QED
    BY <2>0, <2>3, <2>4, <1>b, ProceedClocked
<1>10. CASE End
  <2>1. Len(heard) <= 5 + written
    BY <1>10, <1>b DEF End, Clocked, Overhead
  <2>2. PICK x \in Bytes :
           heard' = heard \o <<x>> /\ Return(IF x = END THEN "Ok" ELSE "Framing")
    BY <1>10, Zenon DEF End
  <2>3. Len(heard') = Len(heard) + 1
    BY <2>2, <1>b, HeardLengthens
  <2>4. Len(heard') <= Len(buf) + 6
    BY <2>1, <2>3, <1>b
  <2> QED
    BY <2>2, <2>4, <1>b, ReturnClocked
<1>11. CASE BusFails
  BY <1>11, <1>r DEF BusFails
<1>12. CASE Iter \/ NextItem \/ NoItem
  BY <1>12 DEF Iter, NextItem, NoItem, Clocked, ReadsBounded
<1>13. CASE UNCHANGED vars
  BY <1>13 DEF vars, readVars, Clocked, ReadsBounded, Overhead
<1> QED
  BY <1>1, <1>2, <1>3, <1>4, <1>5, <1>6, <1>7, <1>8, <1>9, <1>10, <1>11, <1>12, <1>13
     DEF Next

\* Whatever counts and lengths the chip sends, no more bytes are clocked in from
\* START_CMD on than the buffer holds and the framing takes.
THEOREM ReadsAreBounded == Spec => []ReadsBounded
<1>1. Init => Clocked
  BY ClockedInit
<1>2. TypeInv /\ Clocked /\ [Next]_vars => Clocked'
  BY ClockedNext
<1>3. Clocked => ReadsBounded
  BY DEF Clocked
<1> QED
  BY <1>1, <1>2, <1>3, TypeInvAlways, PTL DEF Spec

=============================================================================
