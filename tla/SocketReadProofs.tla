-------------------------- MODULE SocketReadProofs --------------------------
(***************************************************************************)
(* Proofs about SocketRead, for all readers, sizes of the buffer, numbers  *)
(* of bytes and of failures.                                               *)
(***************************************************************************)
EXTENDS SocketRead, SequenceTheorems, TLAPS

Assumptions ==
    NoTask \notin Tasks /\ N \in Nat /\ Out \in Nat /\ Failures \in Nat

LEMMA AssumptionsHold == Assumptions
BY TasksAssumption, NumbersAssumption DEF Assumptions

-----------------------------------------------------------------------------
(* Types.  fin is Boolean-valued and has a lemma of its own. *)

FinType == fin \in [Tasks -> BOOLEAN]

LEMMA FinTypeNext == FinType /\ [Next]_vars => FinType'
<1> SUFFICES ASSUME FinType, [Next]_vars PROVE FinType'
  OBVIOUS
<1>1. ASSUME NEW t \in Tasks, Close(t) PROVE FinType'
  BY <1>1, Zenon DEF Close, FinType
<1>2. ASSUME NEW t \in Tasks, Read(t) \/ Lock(t) \/ Step(t) \/ Arrive(t) PROVE UNCHANGED fin
  BY <1>2, Zenon DEF Read, Lock, Step, Arrive, RecvData, RecvNothing, RecvFails, StateClosed,
     StateOpen, StateFails, Wake, peerVars
<1>3. ASSUME UNCHANGED fin PROVE FinType'
  BY <1>3, Zenon DEF FinType
<1>4. UNCHANGED vars => UNCHANGED fin
  BY Zenon DEF vars
<1> QED
  BY <1>1, <1>2, <1>3, <1>4, Zenon DEF Next

\* TypeOK without fin.
Numbers ==
    /\ pc \in [Tasks -> {"caller", "lock", "recv", "state", "wait"}]
    /\ lock \in Tasks \cup {NoTask}
    /\ res \in [Tasks -> {"none", "data", "eof", "error"}]
    /\ received \in [Tasks -> Seq(1..N)]
    /\ lost \in [Tasks -> 0..N]
    /\ failures \in [Tasks -> 0..Failures]
    /\ arrived \in [Tasks -> 0..N]
    /\ handed \in [Tasks -> 0..N]

\* The mutex is held by the one task that is in the middle of a round.
Exclusive == \A t \in Tasks : pc[t] \in {"recv", "state"} <=> lock = t

\* Every byte the chip has handed out was given to the caller or lost by an error,
\* and it hands out what it has received.
Balance ==
    \A t \in Tasks :
        /\ Len(received[t]) + lost[t] = handed[t]
        /\ handed[t] <= arrived[t]

\* A task that was told of the end stays with its caller.
Ends ==
    \A t \in Tasks : res[t] = "eof" =>
        pc[t] = "caller" /\ fin[t] /\ handed[t] = arrived[t]

ReadInv == Numbers /\ FinType /\ Exclusive /\ Balance

LEMMA CountBounds ==
    ASSUME Numbers, Balance, NEW t \in Tasks
    PROVE  /\ handed[t] \in Nat /\ arrived[t] \in Nat /\ arrived[t] <= N
           /\ Count(t) \in Nat /\ handed[t] + Count(t) <= arrived[t]
           /\ (Buffered(t) = 0 <=> handed[t] = arrived[t])
           /\ lost[t] \in Nat /\ lost[t] <= handed[t]
<1>1. /\ handed[t] \in 0..N /\ arrived[t] \in 0..N /\ lost[t] \in 0..N
      /\ received[t] \in Seq(1..N)
      /\ Len(received[t]) + lost[t] = handed[t] /\ handed[t] <= arrived[t]
  BY DEF Numbers, Balance
<1>2. Len(received[t]) \in Nat
  BY <1>1, LenProperties
<1>3. N \in Nat /\ Out \in Nat
  BY AssumptionsHold DEF Assumptions
<1>4. handed[t] \in Nat /\ arrived[t] \in Nat /\ lost[t] \in Nat /\ arrived[t] <= N
  BY <1>1, <1>3
<1>5. Buffered(t) \in Nat /\ Buffered(t) = arrived[t] - handed[t]
  BY <1>1, <1>4 DEF Buffered
<1>6. Count(t) \in Nat /\ Count(t) <= Buffered(t)
  BY <1>3, <1>5 DEF Count
<1>7. handed[t] + Count(t) <= arrived[t]
  BY <1>4, <1>5, <1>6
<1>8. Buffered(t) = 0 <=> handed[t] = arrived[t]
  BY <1>4, <1>5
<1>9. lost[t] <= handed[t]
  BY <1>1, <1>2, <1>4
<1> QED
  BY <1>4, <1>6, <1>7, <1>8, <1>9

LEMMA Run ==
    ASSUME NEW size \in Nat, NEW first \in Nat, NEW k \in Nat, first + k <= size
    PROVE  /\ [i \in 1..k |-> first + i] \in Seq(1..size)
           /\ Len([i \in 1..k |-> first + i]) = k
<1>1. \A i \in 1..k : first + i \in 1..size
  OBVIOUS
<1>2. [i \in 1..k |-> first + i] \in [1..k -> 1..size]
  BY <1>1
<1> QED
  BY <1>2

\* The bytes handed out next are the ones that follow.
LEMMA NextBytes ==
    ASSUME Numbers, Balance, NEW t \in Tasks
    PROVE  LET got == received[t] \o [i \in 1..Count(t) |-> handed[t] + i]
           IN  got \in Seq(1..N) /\ Len(got) = Len(received[t]) + Count(t)
<1> DEFINE more == [i \in 1..Count(t) |-> handed[t] + i]
<1>1. /\ handed[t] \in Nat /\ Count(t) \in Nat /\ handed[t] + Count(t) <= N
  BY CountBounds, AssumptionsHold DEF Assumptions
<1>3. more \in Seq(1..N) /\ Len(more) = Count(t)
  BY <1>1, Run, AssumptionsHold DEF Assumptions
<1>5. received[t] \in Seq(1..N)
  BY DEF Numbers
<1> HIDE DEF more
<1>6. received[t] \o more \in Seq(1..N) /\ Len(received[t] \o more) = Len(received[t]) + Len(more)
  BY <1>3, <1>5, ConcatProperties
<1> QED
  BY <1>3, <1>6 DEF more

LEMMA ReadInvInit == Init => ReadInv
<1> SUFFICES ASSUME Init PROVE ReadInv
  OBVIOUS
<1>1. FinType
  BY Zenon DEF Init, FinType
<1>2. Numbers
  BY AssumptionsHold, EmptySeq DEF Init, Numbers, Assumptions
<1>3. Exclusive
  BY AssumptionsHold DEF Init, Exclusive, Assumptions
<1>4. Balance
  <2>1. Len(<<>>) = 0
    OBVIOUS
  <2>2. \A t \in Tasks : received[t] = <<>> /\ lost[t] = 0 /\ handed[t] = 0 /\ arrived[t] = 0
    BY DEF Init
  <2>3. \A t \in Tasks : Len(received[t]) = 0
    BY <2>1, <2>2
  <2>4. 0 + 0 = 0 /\ 0 <= 0
    OBVIOUS
  <2> QED
    BY <2>2, <2>3, <2>4 DEF Balance
<1> QED
  BY <1>1, <1>2, <1>3, <1>4 DEF ReadInv

LEMMA ReadInvNext == ReadInv /\ [Next]_vars => ReadInv'
<1> SUFFICES ASSUME ReadInv, [Next]_vars PROVE ReadInv'
  OBVIOUS
<1>n. Numbers /\ FinType /\ Exclusive /\ Balance
  BY DEF ReadInv
<1>f. FinType'
  BY <1>n, FinTypeNext
<1>a. N \in Nat /\ Out \in Nat /\ Failures \in Nat /\ NoTask \notin Tasks
  BY AssumptionsHold DEF Assumptions
<1>1. ASSUME NEW t \in Tasks, Read(t) PROVE ReadInv'
  BY <1>1, <1>n, <1>f DEF Read, ReadInv, Numbers, Exclusive, Balance, peerVars
<1>2. ASSUME NEW t \in Tasks, Lock(t) PROVE ReadInv'
  BY <1>2, <1>n, <1>f, <1>a DEF Lock, ReadInv, Numbers, Exclusive, Balance, peerVars
<1>3. ASSUME NEW t \in Tasks, RecvData(t) PROVE ReadInv'
  <2> DEFINE got == received[t] \o [i \in 1..Count(t) |-> handed[t] + i]
  <2>1. got \in Seq(1..N) /\ Len(got) = Len(received[t]) + Count(t)
    BY <1>n, NextBytes
  <2>2. /\ received' = [received EXCEPT ![t] = got]
        /\ handed' = [handed EXCEPT ![t] = @ + Count(t)]
        /\ pc[t] = "recv" /\ Return(t, "data")
        /\ UNCHANGED <<lost, failures, arrived, fin>>
    BY <1>3 DEF RecvData, peerVars
  <2> HIDE DEF got
  <2>3. /\ handed[t] + Count(t) \in 0..N /\ handed[t] + Count(t) <= arrived[t] /\ Count(t) \in Nat
    BY <1>n, <1>a, CountBounds
  <2>4. Numbers'
    BY <1>n, <2>1, <2>2, <2>3 DEF Numbers, Return
  <2>5. Exclusive'
    BY <1>n, <1>a, <2>2 DEF Exclusive, Numbers, Return
  <2>6. Balance'
    <3> SUFFICES ASSUME NEW u \in Tasks
                 PROVE  Len(received'[u]) + lost'[u] = handed'[u] /\ handed'[u] <= arrived'[u]
      BY DEF Balance
    <3>1. CASE u = t
      <4>1. received'[u] = got /\ handed'[u] = handed[t] + Count(t)
            /\ lost'[u] = lost[t] /\ arrived'[u] = arrived[t]
        BY <1>n, <2>2, <3>1 DEF Numbers
      <4>2. Len(received[t]) + lost[t] = handed[t]
        BY <1>n DEF Balance
      <4>3. Len(received[t]) \in Nat /\ lost[t] \in Nat
        BY <1>n, LenProperties DEF Numbers
      <4> QED
        BY <2>1, <2>3, <4>1, <4>2, <4>3
    <3>2. CASE u # t
      BY <1>n, <2>2, <3>2 DEF Numbers, Balance
    <3> QED
      BY <3>1, <3>2
  <2> QED
    BY <1>f, <2>4, <2>5, <2>6 DEF ReadInv
<1>4. ASSUME NEW t \in Tasks, RecvNothing(t) PROVE ReadInv'
  BY <1>4, <1>n, <1>f DEF RecvNothing, ReadInv, Numbers, Exclusive, Balance, peerVars
<1>5. ASSUME NEW t \in Tasks, RecvFails(t) PROVE ReadInv'
  <2>1. PICK n \in {0, Count(t)} :
           /\ handed' = [handed EXCEPT ![t] = @ + n]
           /\ lost' = [lost EXCEPT ![t] = @ + n]
    BY <1>5 DEF RecvFails
  <2>2. /\ failures[t] < Failures /\ failures' = [failures EXCEPT ![t] = @ + 1]
        /\ pc[t] = "recv" /\ Return(t, "error")
        /\ UNCHANGED <<received, arrived, fin>>
    BY <1>5 DEF RecvFails, peerVars
  <2>3. /\ n \in Nat /\ handed[t] + n <= arrived[t] /\ handed[t] + n \in 0..N
        /\ lost[t] + n \in 0..N /\ lost[t] \in Nat /\ handed[t] \in Nat
    BY <1>n, <1>a, CountBounds
  <2>4. Numbers'
    BY <1>n, <1>a, <2>1, <2>2, <2>3 DEF Numbers, Return
  <2>5. Exclusive'
    BY <1>n, <1>a, <2>2 DEF Exclusive, Numbers, Return
  <2>6. Balance'
    <3> SUFFICES ASSUME NEW u \in Tasks
                 PROVE  Len(received'[u]) + lost'[u] = handed'[u] /\ handed'[u] <= arrived'[u]
      BY DEF Balance
    <3>1. CASE u = t
      <4>1. received'[u] = received[t] /\ handed'[u] = handed[t] + n
            /\ lost'[u] = lost[t] + n /\ arrived'[u] = arrived[t]
        BY <1>n, <2>1, <2>2, <3>1 DEF Numbers
      <4>2. Len(received[t]) + lost[t] = handed[t]
        BY <1>n DEF Balance
      <4>3. Len(received[t]) \in Nat
        BY <1>n, LenProperties DEF Numbers
      <4> QED
        BY <2>3, <4>1, <4>2, <4>3
    <3>2. CASE u # t
      BY <1>n, <2>1, <2>2, <3>2 DEF Numbers, Balance
    <3> QED
      BY <3>1, <3>2
  <2> QED
    BY <1>f, <2>4, <2>5, <2>6 DEF ReadInv
<1>6. ASSUME NEW t \in Tasks, StateClosed(t) PROVE ReadInv'
  BY <1>6, <1>n, <1>f, <1>a DEF StateClosed, Return, ReadInv, Numbers, Exclusive, Balance, peerVars
<1>7. ASSUME NEW t \in Tasks, StateOpen(t) PROVE ReadInv'
  BY <1>7, <1>n, <1>f, <1>a DEF StateOpen, ReadInv, Numbers, Exclusive, Balance, peerVars
<1>8. ASSUME NEW t \in Tasks, StateFails(t) PROVE ReadInv'
  BY <1>8, <1>n, <1>f, <1>a DEF StateFails, Return, ReadInv, Numbers, Exclusive, Balance, peerVars
<1>9. ASSUME NEW t \in Tasks, Wake(t) PROVE ReadInv'
  BY <1>9, <1>n, <1>f DEF Wake, ReadInv, Numbers, Exclusive, Balance, peerVars
<1>10. ASSUME NEW t \in Tasks, Arrive(t) PROVE ReadInv'
  <2>1. arrived[t] + 1 \in 0..N /\ arrived[t] \in Nat /\ handed[t] \in Nat
    BY <1>10, <1>n, <1>a, CountBounds DEF Arrive
  <2> QED
    BY <1>10, <1>n, <1>f, <1>a, <2>1 DEF Arrive, ReadInv, Numbers, Exclusive, Balance
<1>11. ASSUME NEW t \in Tasks, Close(t) PROVE ReadInv'
  BY <1>11, <1>n, <1>f DEF Close, ReadInv, Numbers, Exclusive, Balance
<1>12. CASE UNCHANGED vars
  BY <1>12, <1>n, <1>f DEF vars, ReadInv, Numbers, Exclusive, Balance
<1> QED
  BY <1>1, <1>2, <1>3, <1>4, <1>5, <1>6, <1>7, <1>8, <1>9, <1>10, <1>11, <1>12 DEF Next, Step

LEMMA ReadInvAlways == Spec => []ReadInv
BY ReadInvInit, ReadInvNext, PTL DEF Spec

\* TypeOK of SocketRead: among others, no byte is given to a caller that the chip
\* has not received, and no more bytes are handed out than there are.
THEOREM ReadTypes == Spec => []TypeOK
<1>1. ReadInv => TypeOK
  BY DEF ReadInv, Numbers, FinType, TypeOK
<1> QED
  BY <1>1, ReadInvAlways, PTL

\* Two readers are never in the middle of a round at the same time: the bytes and
\* the state a reader compares are looked at under one guard of the mutex.
THEOREM RoundsExclude ==
    Spec => [](\A t, u \in Tasks :
                  pc[t] \in {"recv", "state"} /\ pc[u] \in {"recv", "state"} => t = u)
<1>1. ReadInv => \A t, u \in Tasks :
          pc[t] \in {"recv", "state"} /\ pc[u] \in {"recv", "state"} => t = u
  BY DEF ReadInv, Exclusive
<1> QED
  BY <1>1, ReadInvAlways, PTL

-----------------------------------------------------------------------------
(* The end of the stream *)

LEMMA EndsNext ==
    ASSUME StateSeesData
    PROVE  ReadInv /\ Ends /\ [Next]_vars => Ends'
<1> SUFFICES ASSUME ReadInv, Ends, [Next]_vars PROVE Ends'
  OBVIOUS
<1>n. Numbers /\ FinType /\ Exclusive /\ Balance
  BY DEF ReadInv
<1>1. ASSUME NEW t \in Tasks, Read(t) PROVE Ends'
  BY <1>1, <1>n DEF Read, Ends, Numbers, peerVars
<1>2. ASSUME NEW t \in Tasks, Lock(t) PROVE Ends'
  BY <1>2, <1>n DEF Lock, Ends, Numbers, peerVars
<1>3. ASSUME NEW t \in Tasks, RecvData(t) PROVE Ends'
  BY <1>3, <1>n DEF RecvData, Return, Ends, Numbers, peerVars
<1>4. ASSUME NEW t \in Tasks, RecvNothing(t) PROVE Ends'
  BY <1>4, <1>n DEF RecvNothing, Ends, Numbers, peerVars
<1>5. ASSUME NEW t \in Tasks, RecvFails(t) PROVE Ends'
  <2>1. PICK n \in {0, Count(t)} : handed' = [handed EXCEPT ![t] = @ + n]
    BY <1>5 DEF RecvFails
  <2>2. pc[t] = "recv" /\ Return(t, "error") /\ UNCHANGED <<arrived, fin>>
    BY <1>5 DEF RecvFails, peerVars
  <2> QED
    BY <1>n, <2>1, <2>2 DEF Return, Ends, Numbers
<1>6. ASSUME NEW t \in Tasks, StateClosed(t) PROVE Ends'
  <2>1. fin[t] /\ Buffered(t) = 0
    BY <1>6 DEF StateClosed, is_closed, ChipState
  <2>2. handed[t] = arrived[t]
    BY <1>n, <2>1, CountBounds
  <2>3. Return(t, "eof") /\ UNCHANGED <<handed, arrived, fin>>
    BY <1>6 DEF StateClosed, peerVars
  <2> QED
    BY <1>n, <2>1, <2>2, <2>3 DEF Return, Ends, Numbers
<1>7. ASSUME NEW t \in Tasks, StateOpen(t) PROVE Ends'
  BY <1>7, <1>n DEF StateOpen, Ends, Numbers, peerVars
<1>8. ASSUME NEW t \in Tasks, StateFails(t) PROVE Ends'
  BY <1>8, <1>n DEF StateFails, Return, Ends, Numbers, peerVars
<1>9. ASSUME NEW t \in Tasks, Wake(t) PROVE Ends'
  BY <1>9, <1>n DEF Wake, Ends, Numbers, peerVars
<1>10. ASSUME NEW t \in Tasks, Arrive(t) PROVE Ends'
  BY <1>10, <1>n DEF Arrive, Ends, Numbers
<1>11. ASSUME NEW t \in Tasks, Close(t) PROVE Ends'
  <2>1. fin' = [fin EXCEPT ![t] = TRUE] /\ UNCHANGED <<pc, res, handed, arrived>>
    BY <1>11 DEF Close
  <2>2. \A u \in Tasks : fin[u] => fin'[u]
    BY <1>n, <2>1, Zenon DEF FinType
  <2> QED
    BY <2>1, <2>2 DEF Ends
<1>12. CASE UNCHANGED vars
  BY <1>12 DEF vars, Ends
<1> QED
  BY <1>1, <1>2, <1>3, <1>4, <1>5, <1>6, <1>7, <1>8, <1>9, <1>10, <1>11, <1>12 DEF Next, Step

\* EofMeansEnd of SocketRead: if the chip reports a close only after it has handed
\* out everything, Ok(0) is the end of the stream for every reader.
THEOREM EofIsTheEnd ==
    ASSUME StateSeesData
    PROVE  Spec => []EofMeansEnd
<1>1. Init => Ends
  BY DEF Init, Ends
<1>2. ReadInv /\ Ends => EofMeansEnd
  BY DEF ReadInv, Balance, Ends, EofMeansEnd
<1> QED
  BY <1>1, <1>2, EndsNext, ReadInvAlways, PTL DEF Spec

-----------------------------------------------------------------------------
(* Refinement of ByteStream *)

\* A call that goes on has no outcome yet.
Asking == \A t \in Tasks : pc[t] # "caller" => res[t] = "none"

LEMMA AskingNext == ReadInv /\ Asking /\ [Next]_vars => Asking'
<1> SUFFICES ASSUME Numbers, Asking, [Next]_vars PROVE Asking'
  BY DEF ReadInv
<1>1. ASSUME NEW t \in Tasks, Return(t, "data") \/ Return(t, "error") \/ Return(t, "eof")
      PROVE  Asking'
  BY <1>1 DEF Return, Asking, Numbers
<1>2. ASSUME NEW t \in Tasks, NEW at, pc[t] # "caller",
             pc' = [pc EXCEPT ![t] = at], UNCHANGED res
      PROVE  Asking'
  BY <1>2 DEF Asking, Numbers
<1>3. ASSUME NEW t \in Tasks, Read(t) PROVE Asking'
  BY <1>3 DEF Read, Asking, Numbers
<1>4. ASSUME NEW t \in Tasks, Lock(t) PROVE Asking'
  BY <1>2, <1>4 DEF Lock
<1>5. ASSUME NEW t \in Tasks, Step(t) PROVE Asking'
  <2>1. CASE RecvData(t)
    BY <1>1, <2>1 DEF RecvData
  <2>2. CASE RecvNothing(t)
    BY <1>2, <2>2 DEF RecvNothing
  <2>3. CASE RecvFails(t)
    BY <1>1, <2>3 DEF RecvFails
  <2>4. CASE StateClosed(t)
    BY <1>1, <2>4 DEF StateClosed
  <2>5. CASE StateOpen(t)
    BY <1>2, <2>5 DEF StateOpen
  <2>6. CASE StateFails(t)
    BY <1>1, <2>6 DEF StateFails
  <2>7. CASE Wake(t)
    BY <1>2, <2>7 DEF Wake
  <2> QED
    BY <1>5, <2>1, <2>2, <2>3, <2>4, <2>5, <2>6, <2>7 DEF Step
<1>6. ASSUME UNCHANGED <<pc, res>> PROVE Asking'
  BY <1>6 DEF Asking
<1>7. ASSUME NEW t \in Tasks, Arrive(t) \/ Close(t) PROVE Asking'
  BY <1>6, <1>7 DEF Arrive, Close
<1>8. CASE UNCHANGED vars
  BY <1>6, <1>8 DEF vars
<1> QED
  BY <1>3, <1>4, <1>5, <1>7, <1>8 DEF Next

\* Steps that the reader of the stream does not see.
LEMMA QuietIsStutter ==
    ASSUME UNCHANGED <<arrived, fin, received, handed, res>>
    PROVE  UNCHANGED Stream!streamVars
BY DEF Stream!streamVars

\* The answer of the chip is the next part of the stream.
LEMMA DataIsGive ==
    ASSUME Numbers, Balance, Asking, NEW t \in Tasks, RecvData(t)
    PROVE  Stream!Give(t)
<1>1. /\ pc[t] = "recv" /\ Count(t) > 0 /\ Return(t, "data") /\ UNCHANGED <<arrived, fin>>
      /\ received' = [received EXCEPT ![t] = @ \o [i \in 1..Count(t) |-> handed[t] + i]]
      /\ handed' = [handed EXCEPT ![t] = @ + Count(t)]
  BY DEF RecvData, peerVars
<1>2. Count(t) \in 1..(arrived[t] - handed[t])
  BY <1>1, CountBounds
<1>3. res[t] = "none" /\ res' = [res EXCEPT ![t] = "data"]
  BY <1>1 DEF Asking, Return
<1> QED
  BY <1>1, <1>2, <1>3 DEF Stream!Give, Stream!Left

LEMMA FailureIsSkip ==
    ASSUME Numbers, Balance, Asking, NEW t \in Tasks, RecvFails(t) \/ StateFails(t)
    PROVE  Stream!Skip(t)
<1>1. /\ pc[t] # "caller" /\ Return(t, "error") /\ UNCHANGED <<arrived, fin, received>>
      /\ \E n \in {0, Count(t)} : handed' = [handed EXCEPT ![t] = @ + n]
  <2>1. CASE RecvFails(t)
    BY <2>1 DEF RecvFails, peerVars
  <2>2. CASE StateFails(t)
    <3>1. handed' = [handed EXCEPT ![t] = @ + 0]
      BY <2>2, CountBounds DEF StateFails, Numbers
    <3> QED
      BY <2>2, <3>1 DEF StateFails, peerVars
  <2> QED
    BY <2>1, <2>2
<1>2. \A n \in {0, Count(t)} : n \in 0..(arrived[t] - handed[t])
  BY CountBounds
<1>3. res[t] = "none" /\ res' = [res EXCEPT ![t] = "error"]
  BY <1>1 DEF Asking, Return
<1> QED
  BY <1>1, <1>2, <1>3 DEF Stream!Skip, Stream!Left

LEMMA ClosedIsTell ==
    ASSUME StateSeesData, Numbers, Balance, Asking, NEW t \in Tasks, StateClosed(t)
    PROVE  Stream!Tell(t)
<1>1. fin[t] /\ Buffered(t) = 0
  BY DEF StateClosed, is_closed, ChipState
<1>2. /\ res[t] = "none" /\ res' = [res EXCEPT ![t] = "eof"]
      /\ UNCHANGED <<arrived, fin, received, handed>>
  BY DEF StateClosed, Return, peerVars, Asking
<1> QED
  BY <1>1, <1>2 DEF Stream!Tell, Stream!Left, Buffered

LEMMA StepIsStep ==
    ASSUME StateSeesData, ReadInv, Asking, [Next]_vars
    PROVE  [Stream!Next]_(Stream!streamVars)
<1>n. Numbers /\ Balance
  BY DEF ReadInv
<1>1. ASSUME NEW t \in Tasks, Read(t) PROVE Stream!Ask(t)
  BY <1>1 DEF Read, peerVars, Stream!Ask
<1>2. ASSUME NEW t \in Tasks, Lock(t) \/ RecvNothing(t) \/ StateOpen(t) \/ Wake(t)
      PROVE  UNCHANGED Stream!streamVars
  BY <1>2, QuietIsStutter DEF Lock, RecvNothing, StateOpen, Wake, peerVars
<1>3. ASSUME NEW t \in Tasks, Arrive(t) PROVE Stream!Send(t)
  BY <1>3 DEF Arrive, Stream!Send
<1>4. ASSUME NEW t \in Tasks, Close(t) PROVE Stream!Finish(t)
  BY <1>4, Zenon DEF Close, Stream!Finish
<1>5. CASE UNCHANGED vars
  BY <1>5, QuietIsStutter DEF vars
<1> QED
  BY <1>n, <1>1, <1>2, <1>3, <1>4, <1>5, DataIsGive, FailureIsSkip, ClosedIsTell
     DEF Next, Step, Stream!Next

\* Every reader has a byte stream of its own, although all of them share the chip
\* and its mutex: the bytes of its peer in order and once, gaps only where an error
\* was returned, and Ok(0) after the last byte.
THEOREM ReadersHaveStreams ==
    ASSUME StateSeesData
    PROVE  Spec => ImplementsStream
<1>1. Init => Asking
  BY DEF Init, Asking
<1>2. Init => Stream!Init
  BY Zenon DEF Init, Stream!Init
<1>3. ReadInv /\ Asking /\ [Next]_vars => [Stream!Next]_(Stream!streamVars)
  BY StepIsStep
<1> QED
  BY <1>1, <1>2, <1>3, AskingNext, ReadInvAlways, PTL DEF Spec, ImplementsStream, Stream!Spec

=============================================================================
