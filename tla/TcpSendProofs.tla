--------------------------- MODULE TcpSendProofs ---------------------------
(***************************************************************************)
(* Proofs about TcpSend, for every buffer, chunk size and retry limit.     *)
(***************************************************************************)
EXTENDS TcpSend, TLAPS

Assumptions == N \in Nat /\ Chunk \in Nat \ {0} /\ TotalMax \in Nat \ {0}
               /\ Retries \in Nat \ {0} /\ SentPolls \in Nat \ {0} /\ PartialAccept \in BOOLEAN

LEMMA AssumptionsHold == Assumptions
BY SizesAssumption, LoopsAssumption, PartialAssumption DEF Assumptions

\* A chunk is not empty and ends within the buffer.
LEMMA ChunkBounds ==
    ASSUME pos \in 0..N
    PROVE  /\ ChunkLen \in 0..Chunk /\ pos + ChunkLen \in 0..N
           /\ pos < N => ChunkLen > 0
           /\ \A k \in Takes : k \in 0..ChunkLen
           /\ ~PartialAccept => \A k \in Takes : k > 0 => k = ChunkLen
BY SizesAssumption DEF ChunkLen, Takes

\* The chip appends the bytes it takes to its stream.
LEMMA TakenAppends ==
    ASSUME stream \in Seq(1..N), pos \in 0..N, NEW k \in 0..ChunkLen
    PROVE  /\ Taken(k) \in Seq(1..N)
           /\ Len(Taken(k)) = Len(stream) + k
           /\ \A i \in 1..Len(stream) : Taken(k)[i] = stream[i]
           /\ \A i \in (Len(stream) + 1)..(Len(stream) + k) : Taken(k)[i] = pos + (i - Len(stream))
<1>1. ChunkLen \in Nat /\ pos + ChunkLen <= N /\ pos \in Nat /\ N \in Nat
  BY ChunkBounds, SizesAssumption
<1>2. \A i \in 1..k : pos + i \in 1..N
  BY <1>1
<1>3. [i \in 1..k |-> pos + i] \in Seq(1..N) /\ Len([i \in 1..k |-> pos + i]) = k
  BY <1>1, <1>2
<1> QED
  BY <1>1, <1>3 DEF Taken

-----------------------------------------------------------------------------
(* Types, and what write reports *)

\* How far the answers of the chip, reported or summed up, are covered by what it
\* has taken, and by how far the loop has come.
ReportInv ==
    /\ pc = "caller" => base <= Len(stream)
    /\ pc \in {"chunk", "send", "check"} => base + total <= pos /\ base + total <= Len(stream)
    /\ pc \in {"send", "check"} => pos < N
    /\ pc = "check" => base + total + written <= Len(stream) /\ written <= ChunkLen
    /\ pc = "stopped" => base <= Len(stream)

LEMMA SaturatingBounds ==
    ASSUME NEW a \in 0..TotalMax, NEW b \in Nat
    PROVE  SaturatingAdd(a, b) \in 0..TotalMax /\ SaturatingAdd(a, b) <= a + b
BY SizesAssumption DEF SaturatingAdd

LEMMA ReportInit == Init => TypeOK /\ ReportInv
BY AssumptionsHold DEF Init, TypeOK, ReportInv, Assumptions

LEMMA ReportNext == TypeOK /\ ReportInv /\ [Next]_vars => TypeOK' /\ ReportInv'
<1> SUFFICES ASSUME TypeOK, ReportInv, [Next]_vars PROVE TypeOK' /\ ReportInv'
  OBVIOUS
<1> USE AssumptionsHold DEF Assumptions, TypeOK, ReportInv
<1>1. CASE Write
  BY <1>1 DEF Write
<1>2. CASE NextChunk
  BY <1>2 DEF NextChunk
<1>3. CASE WriteOk
  BY <1>3 DEF WriteOk
<1>4. CASE SendAnswered
  <2>1. PICK k \in Takes : /\ stream' = Taken(k) /\ written' = k
                           /\ pc' = IF k > 0 THEN "check" ELSE "send"
    BY <1>4 DEF SendAnswered
  <2>2. k \in 0..ChunkLen /\ ChunkLen \in 0..Chunk
    BY ChunkBounds
  <2>3. stream' \in Seq(1..N) /\ Len(stream') = Len(stream) + k
    BY <2>1, <2>2, TakenAppends
  <2>4. /\ pc = "send" /\ tries' = tries + 1 /\ tries < Retries /\ polls' = 0
        /\ UNCHANGED <<base, pos, total, res>>
    BY <1>4 DEF SendAnswered
  <2>5. ChunkLen' = ChunkLen
    BY <2>4 DEF ChunkLen
  <2> QED
    BY <2>1, <2>2, <2>3, <2>4, <2>5
<1>5. CASE SendFailed
  <2>1. PICK k \in Takes : stream' = Taken(k)
    BY <1>5 DEF SendFailed
  <2>2. stream' \in Seq(1..N) /\ Len(stream') = Len(stream) + k /\ k \in Nat
    BY <2>1, ChunkBounds, TakenAppends
  <2> QED
    BY <1>5, <2>2 DEF SendFailed, WriteErr
<1>6. CASE SendRefused
  BY <1>6 DEF SendRefused, WriteErr
<1>7. CASE CheckSent
  <2>1. total' \in 0..TotalMax /\ total' <= total + written
    BY <1>7, SaturatingBounds DEF CheckSent
  <2>2. pos' \in 0..N /\ pos' = pos + ChunkLen
    BY <1>7, ChunkBounds DEF CheckSent
  <2> QED
    BY <1>7, <2>1, <2>2, ChunkBounds DEF CheckSent
<1>8. CASE CheckAgain
  BY <1>8 DEF CheckAgain, ChunkLen
<1>9. CASE CheckFailed
  BY <1>9 DEF CheckFailed, WriteErr
<1>10. CASE UNCHANGED vars
  BY <1>10 DEF vars, ChunkLen
<1> QED
  BY <1>1, <1>2, <1>3, <1>4, <1>5, <1>6, <1>7, <1>8, <1>9, <1>10 DEF Next

\* The loop of tcp_send stays within the buffer and its counters within their
\* bounds, the u16 total included.
THEOREM SendTypeCorrect == Spec => []TypeOK
  BY ReportInit, ReportNext, PTL DEF Spec

\* write never reports a byte the chip has not taken: not when the chip takes only
\* a part of a chunk, and not when the total saturates.
THEOREM ReportsAreCovered == Spec => []NeverOverReports
<1>1. TypeOK /\ ReportInv => NeverOverReports
  BY DEF TypeOK, ReportInv, NeverOverReports
<1> QED
  BY <1>1, ReportInit, ReportNext, PTL DEF Spec

-----------------------------------------------------------------------------
(* The stream, when the chip takes a chunk or leaves it and the total fits *)

\* Between chunks the chip has exactly what lies before the current one; the first
\* call is the only one.
WholeInv ==
    /\ StreamIntact
    /\ pc = "caller" => Len(stream) = base /\ ((base = 0 /\ res = "none") \/ base = N)
    /\ pc \in {"chunk", "send", "check"} => base = 0 /\ res = "none" /\ total = pos
    /\ pc \in {"chunk", "send"} => Len(stream) = pos
    /\ pc = "check" => Len(stream) = pos + ChunkLen /\ written = ChunkLen
    /\ pc = "stopped" => res # "Ok"

\* After the bytes before the current chunk the stream goes on with its first k.
LEMMA TakenIntact ==
    ASSUME TypeOK, StreamIntact, Len(stream) = pos, NEW k \in Takes
    PROVE  \A i \in DOMAIN Taken(k) : Taken(k)[i] = i
<1>1. k \in 0..ChunkLen /\ pos \in Nat /\ k \in Nat
  BY ChunkBounds, SizesAssumption DEF TypeOK
<1>2. /\ Len(Taken(k)) = pos + k /\ Taken(k) \in Seq(1..N)
      /\ \A i \in 1..pos : Taken(k)[i] = stream[i]
      /\ \A i \in (pos + 1)..(pos + k) : Taken(k)[i] = pos + (i - pos)
  BY <1>1, TakenAppends DEF TypeOK
<1>3. DOMAIN Taken(k) = 1..(pos + k) /\ DOMAIN stream = 1..pos
  BY <1>2 DEF TypeOK
<1>4. SUFFICES ASSUME NEW i \in 1..(pos + k) PROVE Taken(k)[i] = i
  BY <1>3
<1>5. CASE i <= pos
  BY <1>1, <1>2, <1>3, <1>5 DEF StreamIntact
<1>6. CASE i > pos
  BY <1>1, <1>2, <1>6
<1> QED
  BY <1>1, <1>5, <1>6

LEMMA WholeNext ==
    ASSUME ~PartialAccept, N <= TotalMax, TypeOK, ReportInv, WholeInv, [Next]_vars
    PROVE  WholeInv'
<1> USE AssumptionsHold DEF Assumptions, TypeOK, WholeInv
<1>1. CASE Write
  BY <1>1 DEF Write, StreamIntact
<1>2. CASE NextChunk
  BY <1>2 DEF NextChunk, StreamIntact
<1>3. CASE WriteOk
  BY <1>3 DEF WriteOk, StreamIntact
<1>4. CASE SendAnswered
  <2>1. PICK k \in Takes : /\ stream' = Taken(k) /\ written' = k
                           /\ pc' = IF k > 0 THEN "check" ELSE "send"
    BY <1>4 DEF SendAnswered
  <2>2. pc = "send" /\ UNCHANGED <<base, pos, total, res>>
    BY <1>4 DEF SendAnswered
  <2>3. StreamIntact'
    BY <2>1, <2>2, TakenIntact DEF StreamIntact
  <2>4. k \in 0..ChunkLen /\ ChunkLen \in Nat /\ (k > 0 => k = ChunkLen)
    BY ChunkBounds
  <2>5. Len(stream') = pos + k
    BY <2>1, <2>2, <2>4, TakenAppends
  <2>6. ChunkLen' = ChunkLen
    BY <2>2 DEF ChunkLen
  <2> QED
    BY <2>1, <2>2, <2>3, <2>4, <2>5, <2>6
<1>5. CASE SendFailed
  <2>1. PICK k \in Takes : stream' = Taken(k)
    BY <1>5 DEF SendFailed
  <2>2. StreamIntact'
    BY <1>5, <2>1, TakenIntact DEF SendFailed, StreamIntact
  <2> QED
    BY <1>5, <2>2 DEF SendFailed, WriteErr
<1>6. CASE SendRefused
  BY <1>6 DEF SendRefused, WriteErr, StreamIntact
<1>7. CASE CheckSent
  <2>1. ChunkLen \in Nat /\ pos + ChunkLen <= N
    BY ChunkBounds
  <2>2. total' = pos + ChunkLen
    BY <1>7, <2>1 DEF CheckSent, SaturatingAdd
  <2> QED
    BY <1>7, <2>2 DEF CheckSent, StreamIntact
<1>8. CASE CheckAgain
  BY <1>8 DEF CheckAgain, StreamIntact, ChunkLen
<1>9. CASE CheckFailed
  BY <1>9 DEF CheckFailed, WriteErr, StreamIntact
<1>10. CASE UNCHANGED vars
  BY <1>10 DEF vars, StreamIntact, ChunkLen
<1> QED
  BY <1>1, <1>2, <1>3, <1>4, <1>5, <1>6, <1>7, <1>8, <1>9, <1>10 DEF Next

LEMMA WholeInvariant ==
    ASSUME ~PartialAccept, N <= TotalMax
    PROVE  Spec => []WholeInv
<1>1. Init => WholeInv
  BY DEF Init, WholeInv, StreamIntact
<1>2. TypeOK /\ ReportInv /\ WholeInv /\ [Next]_vars => WholeInv'
  BY WholeNext
<1> QED
  BY <1>1, <1>2, ReportInit, ReportNext, PTL DEF Spec

\* A chip that takes chunks whole or not at all gets the buffer in order, without
\* a gap and without a repetition, however the exchanges fail.
THEOREM StreamIsIntact ==
    ASSUME ~PartialAccept, N <= TotalMax
    PROVE  Spec => []StreamIntact
<1>1. WholeInv => StreamIntact
  BY DEF WholeInv
<1> QED
  BY <1>1, WholeInvariant, PTL

\* And tcp_send's Ok means all of data.
THEOREM OkIsAll ==
    ASSUME ~PartialAccept, N <= TotalMax
    PROVE  Spec => []OkMeansAll
<1>1. TypeOK /\ WholeInv => OkMeansAll
  BY DEF TypeOK, WholeInv, OkMeansAll
<1> QED
  BY <1>1, WholeInvariant, SendTypeCorrect, PTL

-----------------------------------------------------------------------------
(* Progress *)

\* A call has something to write, and has got some of it through once a chunk is
\* behind it.
CountedInv ==
    /\ pc \in {"chunk", "send", "check"} => base < N /\ (total > 0 \/ pos = base)
    /\ pc = "check" => written > 0

LEMMA CountedNext == TypeOK /\ ReportInv /\ CountedInv /\ [Next]_vars => CountedInv'
<1> SUFFICES ASSUME TypeOK, ReportInv, CountedInv, [Next]_vars PROVE CountedInv'
  OBVIOUS
<1> USE AssumptionsHold DEF Assumptions, TypeOK, CountedInv
<1>1. CASE Write
  BY <1>1 DEF Write
<1>2. CASE NextChunk
  BY <1>2 DEF NextChunk
<1>3. CASE WriteOk
  BY <1>3 DEF WriteOk
<1>4. CASE SendAnswered
  <2>1. PICK k \in Takes : written' = k /\ pc' = IF k > 0 THEN "check" ELSE "send"
    BY <1>4 DEF SendAnswered
  <2>2. pc = "send" /\ UNCHANGED <<base, pos, total>>
    BY <1>4 DEF SendAnswered
  <2> QED
    BY <2>1, <2>2
<1>5. CASE SendFailed \/ SendRefused \/ CheckFailed
  BY <1>5 DEF SendFailed, SendRefused, CheckFailed, WriteErr
<1>6. CASE CheckSent
  <2>1. total' > 0
    BY <1>6 DEF CheckSent, SaturatingAdd
  <2> QED
    BY <1>6, <2>1 DEF CheckSent
<1>7. CASE CheckAgain
  BY <1>7 DEF CheckAgain
<1>8. CASE UNCHANGED vars
  BY <1>8 DEF vars
<1> QED
  BY <1>1, <1>2, <1>3, <1>4, <1>5, <1>6, <1>7, <1>8 DEF Next

\* The same number of steps of the outer loops, and one more of an inner one.
LEMMA LaterAt ==
    ASSUME NEW a, NEW b, NEW i \in DOMAIN a, a[i] < b[i], \A j \in 1..(i - 1) : a[j] = b[j]
    PROVE  Later(a, b)
BY DEF Later

LEMMA ProgressParts ==
    LET stage == CASE pc = "caller" -> 0 [] pc = "stopped" -> 2 [] OTHER -> 1
        exchange == CASE pc = "send" -> 1 [] pc = "check" -> 2 [] OTHER -> 0
    IN  /\ DOMAIN Progress = 1..6
        /\ Progress[1] = base /\ Progress[2] = stage /\ Progress[3] = pos
        /\ Progress[4] = exchange /\ Progress[5] = tries /\ Progress[6] = polls
BY DEF Progress

LEMMA EveryStepAdvances ==
    ASSUME TypeOK, ReportInv, CountedInv, Next
    PROVE  Later(Progress, Progress')
<1> DEFINE stage == CASE pc = "caller" -> 0 [] pc = "stopped" -> 2 [] OTHER -> 1
           exchange == CASE pc = "send" -> 1 [] pc = "check" -> 2 [] OTHER -> 0
<1>p. /\ DOMAIN Progress = 1..6
      /\ Progress[1] = base /\ Progress[2] = stage /\ Progress[3] = pos
      /\ Progress[4] = exchange /\ Progress[5] = tries /\ Progress[6] = polls
      /\ Progress'[1] = base' /\ Progress'[2] = stage' /\ Progress'[3] = pos'
      /\ Progress'[4] = exchange' /\ Progress'[5] = tries' /\ Progress'[6] = polls'
  BY ProgressParts DEF Progress
<1>n. base \in Nat /\ pos \in Nat /\ tries \in Nat /\ polls \in Nat /\ total \in Nat
  BY AssumptionsHold DEF Assumptions, TypeOK
<1>a. base < base' => Later(Progress, Progress')
  BY <1>p, LaterAt
<1>b. base = base' /\ stage < stage' => Later(Progress, Progress')
  <2>1. \A j \in 1..(2 - 1) : j = 1
    OBVIOUS
  <2> HIDE DEF stage, exchange
  <2> QED
    BY <1>p, <2>1 DEF Later
<1>c. base = base' /\ stage = stage' /\ pos < pos' => Later(Progress, Progress')
  <2>1. \A j \in 1..(3 - 1) : j = 1 \/ j = 2
    OBVIOUS
  <2> HIDE DEF stage, exchange
  <2> QED
    BY <1>p, <2>1 DEF Later
<1>d. base = base' /\ stage = stage' /\ pos = pos' /\ exchange < exchange'
      => Later(Progress, Progress')
  <2>1. \A j \in 1..(4 - 1) : j = 1 \/ j = 2 \/ j = 3
    OBVIOUS
  <2> HIDE DEF stage, exchange
  <2> QED
    BY <1>p, <2>1 DEF Later
<1>e. base = base' /\ stage = stage' /\ pos = pos' /\ exchange = exchange' /\ tries < tries'
      => Later(Progress, Progress')
  <2>1. \A j \in 1..(5 - 1) : j = 1 \/ j = 2 \/ j = 3 \/ j = 4
    OBVIOUS
  <2> HIDE DEF stage, exchange
  <2> QED
    BY <1>p, <2>1 DEF Later
<1>f. base = base' /\ stage = stage' /\ pos = pos' /\ exchange = exchange' /\ tries = tries'
      /\ polls < polls'
      => Later(Progress, Progress')
  <2>1. \A j \in 1..(6 - 1) : j = 1 \/ j = 2 \/ j = 3 \/ j = 4 \/ j = 5
    OBVIOUS
  <2> HIDE DEF stage, exchange
  <2> QED
    BY <1>p, <2>1 DEF Later
<1>1. CASE Write
  BY <1>1, <1>b DEF Write
<1>2. CASE NextChunk
  BY <1>2, <1>d DEF NextChunk
<1>3. CASE WriteOk
  <2>1. total > 0
    BY <1>3, <1>n, AssumptionsHold DEF WriteOk, CountedInv, Assumptions
  <2> QED
    BY <1>3, <1>n, <1>a, <2>1 DEF WriteOk
<1>4. CASE SendAnswered
  <2>1. PICK k \in Takes : written' = k /\ pc' = IF k > 0 THEN "check" ELSE "send"
    BY <1>4 DEF SendAnswered
  <2>2. pc = "send" /\ tries' = tries + 1 /\ UNCHANGED <<base, pos>>
    BY <1>4 DEF SendAnswered
  <2>3. CASE pc' = "check"
    BY <1>d, <2>2, <2>3
  <2>4. CASE pc' = "send"
    BY <1>n, <1>e, <2>2, <2>4
  <2> QED
    BY <2>1, <2>3, <2>4
<1>5. CASE SendFailed \/ SendRefused \/ CheckFailed
  BY <1>5, <1>b DEF SendFailed, SendRefused, CheckFailed, WriteErr
<1>6. CASE CheckSent
  <2>1. pos < pos'
    <3>1. pos < N
      BY <1>6 DEF CheckSent, ReportInv
    <3>2. ChunkLen > 0 /\ ChunkLen \in Nat /\ pos' = pos + ChunkLen
      BY <1>6, <3>1, ChunkBounds DEF CheckSent, TypeOK
    <3> QED
      BY <1>n, <3>2
  <2> QED
    BY <1>6, <1>c, <2>1 DEF CheckSent
<1>7. CASE CheckAgain
  BY <1>7, <1>n, <1>f DEF CheckAgain
<1> QED
  BY <1>1, <1>2, <1>3, <1>4, <1>5, <1>6, <1>7 DEF Next

\* Whatever the chip answers, each step of a write_all takes its bounded loops
\* forward: it makes a bounded number of exchanges, however many calls it needs.
THEOREM SendAdvances == Spec => LoopsAdvance
<1>1. Init => CountedInv
  BY DEF Init, CountedInv
<1>2. TypeOK /\ ReportInv /\ CountedInv /\ [Next]_vars => [Later(Progress, Progress')]_vars
  BY EveryStepAdvances
<1> QED
  BY <1>1, <1>2, CountedNext, ReportInit, ReportNext, PTL DEF Spec, LoopsAdvance

=============================================================================
