------------------------------ MODULE TcpSend ------------------------------
(***************************************************************************)
(* Nina::tcp_send and check_data_sent (driver.rs), under a caller that     *)
(* writes a buffer of N bytes with write_all: it calls write (tcp.rs,      *)
(* nal.rs) with what is left until nothing is.                             *)
(*                                                                         *)
(* A byte is its position in the buffer.  A step is one command exchange   *)
(* with the chip; module NinaLink says what an exchange promises.  The     *)
(* chip takes a chunk into its stream or not, and an exchange that fails   *)
(* says nothing about it.                                                  *)
(***************************************************************************)
EXTENDS Naturals, Sequences

CONSTANTS
    N,              \* bytes to write
    Chunk,          \* CHUNK
    Retries,        \* attempts for a chunk that is answered by 0
    SentPolls,      \* DATA_SENT_TCP polls of check_data_sent
    TotalMax,       \* largest value of `total: u16`
    PartialAccept   \* the chip may take a part of a chunk

ASSUME SizesAssumption == N \in Nat /\ Chunk \in Nat \ {0} /\ TotalMax \in Nat \ {0}
ASSUME LoopsAssumption == Retries \in Nat \ {0} /\ SentPolls \in Nat \ {0}
ASSUME PartialAssumption == PartialAccept \in BOOLEAN

VARIABLES
    pc,        \* "caller", "chunk", "send", "check", "stopped"
    base,      \* bytes write has reported so far
    pos,       \* bytes of the buffer before the current chunk
    tries,     \* SEND_DATA_TCP exchanges made for it
    polls,     \* DATA_SENT_TCP exchanges made for it
    written,   \* the chip's answer
    total,     \* sum of the answers in this call
    stream,    \* the bytes the chip has taken, in order
    res        \* how the last call ended

vars == <<pc, base, pos, tries, polls, written, total, stream, res>>

Init ==
    /\ pc = "caller"
    /\ base = 0
    /\ pos = 0
    /\ tries = 0
    /\ polls = 0
    /\ written = 0
    /\ total = 0
    /\ stream = <<>>
    /\ res = "none"

\* data.chunks(CHUNK): the last chunk may be shorter.
ChunkLen == IF N - pos < Chunk THEN N - pos ELSE Chunk

\* u16::saturating_add
SaturatingAdd(a, b) == IF a + b > TotalMax THEN TotalMax ELSE a + b

\* How many bytes of the current chunk the chip may take.
Takes == IF PartialAccept THEN 0..ChunkLen ELSE {0, ChunkLen}

\* The stream after the chip took k bytes of the current chunk.
Taken(k) == stream \o [i \in 1..k |-> pos + i]

-----------------------------------------------------------------------------
Write ==
    /\ pc = "caller" /\ base < N
    /\ pc' = "chunk"
    /\ pos' = base
    /\ total' = 0
    /\ UNCHANGED <<base, tries, polls, written, stream, res>>

\* `for chunk in data.chunks(CHUNK)`: the next chunk, or the loop is over.
NextChunk ==
    /\ pc = "chunk" /\ pos < N
    /\ pc' = "send"
    /\ tries' = 0
    /\ written' = 0
    /\ UNCHANGED <<base, pos, polls, total, stream, res>>

\* Ok(total), which is not 0 here; write_all goes on with the rest.
WriteOk ==
    /\ pc = "chunk" /\ pos = N
    /\ res' = "Ok"
    /\ base' = base + total
    /\ pc' = "caller"
    /\ UNCHANGED <<pos, tries, polls, written, total, stream>>

\* An error is passed on; write_all stops.
WriteErr(e) ==
    /\ pc' = "stopped"
    /\ res' = e
    /\ UNCHANGED <<base, pos, tries, polls, written, total>>

\* Faulty variant: one attempt more than the loop allows.
SendAnswered_OneMore ==
    /\ pc = "send" /\ tries <= Retries
    /\ \E k \in Takes :
         /\ stream' = Taken(k)
         /\ written' = k
         /\ tries' = tries + 1
         /\ pc' = IF k > 0 THEN "check" ELSE "send"
    /\ polls' = 0
    /\ UNCHANGED <<base, pos, total, res>>

\* Faulty variant: an answer of 0 is taken like any other.
SendAnswered_ZeroTaken ==
    /\ pc = "send" /\ tries < Retries
    /\ \E k \in Takes :
         /\ stream' = Taken(k)
         /\ written' = k
         /\ tries' = tries + 1
         /\ pc' = "check"
    /\ polls' = 0
    /\ UNCHANGED <<base, pos, total, res>>

\* SEND_DATA_TCP: the chip takes k bytes and answers k.  0 is tried again.
SendAnswered ==
    /\ pc = "send" /\ tries < Retries
    /\ \E k \in Takes :
         /\ stream' = Taken(k)
         /\ written' = k
         /\ tries' = tries + 1
         /\ pc' = IF k > 0 THEN "check" ELSE "send"
    /\ polls' = 0
    /\ UNCHANGED <<base, pos, total, res>>

\* The exchange fails, or its answer has no length of 1 or 2 (Framing).
SendFailed ==
    /\ pc = "send" /\ tries < Retries
    /\ \E k \in Takes : stream' = Taken(k)
    /\ WriteErr("Exchange")

\* Faulty variant: after the last attempt they begin anew.
SendRefused_Anew ==
    /\ pc = "send" /\ tries = Retries
    /\ tries' = 0
    /\ UNCHANGED <<pc, base, pos, polls, written, total, stream, res>>

SendRefused ==
    /\ pc = "send" /\ tries = Retries
    /\ WriteErr("Nina")
    /\ UNCHANGED stream

\* Faulty variant: the total is that of the last chunk.
CheckSent_LastOnly ==
    /\ pc = "check" /\ polls < SentPolls
    /\ pc' = "chunk"
    /\ pos' = pos + ChunkLen
    /\ total' = written
    /\ UNCHANGED <<base, tries, polls, written, stream, res>>

\* Faulty variant: the chunk is counted as taken whatever the chip answered.
CheckSent_WholeChunk ==
    /\ pc = "check" /\ polls < SentPolls
    /\ pc' = "chunk"
    /\ pos' = pos + ChunkLen
    /\ total' = SaturatingAdd(total, ChunkLen)
    /\ UNCHANGED <<base, tries, polls, written, stream, res>>

\* check_data_sent: a non-zero answer ends the polling.
CheckSent ==
    /\ pc = "check" /\ polls < SentPolls
    /\ pc' = "chunk"
    /\ pos' = pos + ChunkLen
    /\ total' = SaturatingAdd(total, written)
    /\ UNCHANGED <<base, tries, polls, written, stream, res>>

CheckAgain ==
    /\ pc = "check" /\ polls < SentPolls
    /\ polls' = polls + 1
    /\ UNCHANGED <<pc, base, pos, tries, written, total, stream, res>>

\* Faulty variant: a chunk that is not reported sent in time is sent again.
CheckFailed_Resend ==
    /\ pc = "check"
    /\ \/ /\ polls = SentPolls
          /\ pc' = "send"
          /\ UNCHANGED <<base, pos, tries, polls, written, total, res>>
       \/ polls < SentPolls /\ WriteErr("Exchange")
    /\ UNCHANGED stream

\* Faulty variant: after the last poll they begin anew.
CheckFailed_Anew ==
    /\ pc = "check"
    /\ \/ /\ polls = SentPolls
          /\ polls' = 0
          /\ UNCHANGED <<pc, base, pos, tries, written, total, res>>
       \/ polls < SentPolls /\ WriteErr("Exchange")
    /\ UNCHANGED stream

CheckFailed ==
    /\ pc = "check"
    /\ \/ polls = SentPolls /\ WriteErr("Timeout")
       \/ polls < SentPolls /\ WriteErr("Exchange")
    /\ UNCHANGED stream

Next ==
    \/ Write \/ NextChunk \/ WriteOk
    \/ SendAnswered \/ SendFailed \/ SendRefused
    \/ CheckSent \/ CheckAgain \/ CheckFailed

Spec == Init /\ [][Next]_vars

\* Every exchange ends (NinaLink!OperationsReturn) and the caller polls on.
FairSpec == Spec /\ WF_vars(Next)

-----------------------------------------------------------------------------
TypeOK ==
    /\ pc \in {"caller", "chunk", "send", "check", "stopped"}
    /\ base \in 0..N
    /\ pos \in 0..N
    /\ tries \in 0..Retries
    /\ polls \in 0..SentPolls
    /\ written \in 0..Chunk
    /\ total \in 0..TotalMax
    /\ stream \in Seq(1..N)
    /\ res \in {"none", "Ok", "Exchange", "Nina", "Timeout"}

\* What the chip has put into the TCP stream is a prefix of the buffer: no byte is
\* lost, doubled or out of place, in spite of the chunking, of the retries after
\* a 0 answer and of errors in the middle.
StreamIntact == \A i \in DOMAIN stream : stream[i] = i

\* write never reports more bytes than the chip has taken, whatever the chip
\* takes of a chunk and however the u16 total saturates.
NeverOverReports == base + (IF pc \in {"chunk", "send", "check"} THEN total ELSE 0) <= Len(stream)

\* tcp_send's contract: the number it returns "equals data.len() on success", so
\* one call is enough.
OkMeansAll == res = "Ok" => base = N

\* Where the nested loops are, the outermost first: a call after the other, a chunk
\* after the other, the exchanges of a chunk, its attempts, its polls.
Progress ==
    LET stage == CASE pc = "caller" -> 0 [] pc = "stopped" -> 2 [] OTHER -> 1
        exchange == CASE pc = "send" -> 1 [] pc = "check" -> 2 [] OTHER -> 0
    IN  <<base, stage, pos, exchange, tries, polls>>

Later(a, b) == \E i \in DOMAIN a : a[i] < b[i] /\ \A j \in 1..(i - 1) : a[j] = b[j]

\* Every step brings the loops forward, and all of these numbers are bounded
\* (TypeOK): write never returns Ok(0), on which write_all would go round
\* without end, and no failure, refusal or 0 answer makes a loop begin anew.
LoopsAdvance == [][Later(Progress, Progress')]_vars

\* A write_all comes to an end: with everything reported, or with an error.
WriteAllEnds == <>[](pc = "stopped" \/ (pc = "caller" /\ base = N))

=============================================================================
