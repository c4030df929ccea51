----------------------------- MODULE SocketRead -----------------------------
(***************************************************************************)
(* NinaSocket::read (nal.rs) on connected sockets that share the chip      *)
(* behind the mutex; NinaTcpSocket::read (tcp.rs) is the same loop of a    *)
(* single owner.  Every task reads from a socket of its own.  The peer     *)
(* sends bytes, numbered from 1, and may close; both reach the chip at any *)
(* time, also between the two exchanges of one round of the loop.          *)
(***************************************************************************)
EXTENDS Naturals, Sequences

CONSTANTS
    Tasks,          \* one reader for each socket
    NoTask,         \* the mutex is free
    N,              \* bytes a peer sends at most
    Out,            \* buf.len()
    Failures,       \* bound on the exchanges that fail, for each task
    StateSeesData   \* the chip reports a close-side state only once it has
                    \* handed out everything it received

ASSUME TasksAssumption == NoTask \notin Tasks
ASSUME NumbersAssumption == N \in Nat /\ Out \in Nat /\ Failures \in Nat
ASSUME StateAssumption == StateSeesData \in BOOLEAN

VARIABLES
    pc,         \* [Tasks -> "caller", "lock", "recv", "state", "wait"]
    lock,       \* the task that holds the mutex
    res,        \* how the last read of a task ended
    received,   \* the bytes a task was given
    lost,       \* bytes that were in the answer of a failed exchange
    failures,
    arrived,    \* how many bytes the chip has received
    handed,     \* how many of them it has handed out
    fin         \* the peer's close has reached the chip

vars == <<pc, lock, res, received, lost, failures, arrived, handed, fin>>

Init ==
    /\ pc = [t \in Tasks |-> "caller"]
    /\ lock = NoTask
    /\ res = [t \in Tasks |-> "none"]
    /\ received = [t \in Tasks |-> <<>>]
    /\ lost = [t \in Tasks |-> 0]
    /\ failures = [t \in Tasks |-> 0]
    /\ arrived = [t \in Tasks |-> 0]
    /\ handed = [t \in Tasks |-> 0]
    /\ fin = [t \in Tasks |-> FALSE]

peerVars == <<arrived, fin>>

Buffered(t) == arrived[t] - handed[t]

\* Faulty variant: the size asked for is taken for the size of the answer.
Count_Asked(t) == Out

\* tcp_recv asks for as much as the caller's buffer holds.
Count(t) == IF Buffered(t) < Out THEN Buffered(t) ELSE Out

\* SockState as the chip reports it for a connected socket.
ChipState(t) ==
    IF fin[t] /\ (StateSeesData => Buffered(t) = 0) THEN "CloseWait" ELSE "Established"

is_closed(state) == state \in {"Closed", "CloseWait", "Closing", "LastAck", "TimeWait"}

-----------------------------------------------------------------------------
(* A reader *)

\* The caller reads until it is given Ok(0).
Read(t) ==
    /\ pc[t] = "caller" /\ res[t] # "eof"
    /\ pc' = [pc EXCEPT ![t] = "lock"]
    /\ res' = [res EXCEPT ![t] = "none"]
    /\ UNCHANGED <<lock, received, lost, failures, handed, peerVars>>

Lock(t) ==
    /\ pc[t] = "lock" /\ lock = NoTask
    /\ lock' = t
    /\ pc' = [pc EXCEPT ![t] = "recv"]
    /\ UNCHANGED <<res, received, lost, failures, handed, peerVars>>

\* read returns, and the guard of the mutex is dropped.
Return(t, r) ==
    /\ pc' = [pc EXCEPT ![t] = "caller"]
    /\ res' = [res EXCEPT ![t] = r]
    /\ lock' = NoTask

RecvData(t) ==
    /\ pc[t] = "recv" /\ Count(t) > 0
    /\ received' = [received EXCEPT ![t] = @ \o [i \in 1..Count(t) |-> handed[t] + i]]
    /\ handed' = [handed EXCEPT ![t] = @ + Count(t)]
    /\ Return(t, "data")
    /\ UNCHANGED <<lost, failures, peerVars>>

\* Faulty variant: no bytes are taken for the end of the stream.
RecvNothing_Eof(t) ==
    /\ pc[t] = "recv" /\ Count(t) = 0
    /\ Return(t, "eof")
    /\ UNCHANGED <<received, lost, failures, handed, peerVars>>

RecvNothing(t) ==
    /\ pc[t] = "recv" /\ Count(t) = 0
    /\ pc' = [pc EXCEPT ![t] = "state"]
    /\ UNCHANGED <<lock, res, received, lost, failures, handed, peerVars>>

\* Faulty variant: a failed exchange is tried again within the call.
RecvFails_Again(t) ==
    /\ pc[t] = "recv" /\ failures[t] < Failures
    /\ failures' = [failures EXCEPT ![t] = @ + 1]
    /\ \E n \in {0, Count(t)} :
         /\ handed' = [handed EXCEPT ![t] = @ + n]
         /\ lost' = [lost EXCEPT ![t] = @ + n]
    /\ UNCHANGED <<pc, lock, res, received, peerVars>>

\* A failed exchange: the chip may have handed out its bytes all the same.
RecvFails(t) ==
    /\ pc[t] = "recv" /\ failures[t] < Failures
    /\ failures' = [failures EXCEPT ![t] = @ + 1]
    /\ \E n \in {0, Count(t)} :
         /\ handed' = [handed EXCEPT ![t] = @ + n]
         /\ lost' = [lost EXCEPT ![t] = @ + n]
    /\ Return(t, "error")
    /\ UNCHANGED <<received, peerVars>>

StateClosed(t) ==
    /\ pc[t] = "state" /\ is_closed(ChipState(t))
    /\ Return(t, "eof")
    /\ UNCHANGED <<received, lost, failures, handed, peerVars>>

\* Faulty variant: the guard lives through the 50 ms.
StateOpen_KeepsLock(t) ==
    /\ pc[t] = "state" /\ ~is_closed(ChipState(t))
    /\ pc' = [pc EXCEPT ![t] = "wait"]
    /\ UNCHANGED <<lock, res, received, lost, failures, handed, peerVars>>

\* Not closed: release the mutex and try again after 50 ms.
StateOpen(t) ==
    /\ pc[t] = "state" /\ ~is_closed(ChipState(t))
    /\ pc' = [pc EXCEPT ![t] = "wait"]
    /\ lock' = NoTask
    /\ UNCHANGED <<res, received, lost, failures, handed, peerVars>>

StateFails(t) ==
    /\ pc[t] = "state" /\ failures[t] < Failures
    /\ failures' = [failures EXCEPT ![t] = @ + 1]
    /\ Return(t, "error")
    /\ UNCHANGED <<received, lost, handed, peerVars>>

Wake(t) ==
    /\ pc[t] = "wait"
    /\ pc' = [pc EXCEPT ![t] = "lock"]
    /\ UNCHANGED <<lock, res, received, lost, failures, handed, peerVars>>

-----------------------------------------------------------------------------
(* The peer *)

Arrive(t) ==
    /\ ~fin[t] /\ arrived[t] < N
    /\ arrived' = [arrived EXCEPT ![t] = @ + 1]
    /\ UNCHANGED <<pc, lock, res, received, lost, failures, handed, fin>>

Close(t) ==
    /\ ~fin[t]
    /\ fin' = [fin EXCEPT ![t] = TRUE]
    /\ UNCHANGED <<pc, lock, res, received, lost, failures, handed, arrived>>

Step(t) ==
    \/ RecvData(t) \/ RecvNothing(t) \/ RecvFails(t)
    \/ StateClosed(t) \/ StateOpen(t) \/ StateFails(t) \/ Wake(t)

Next == \E t \in Tasks : Read(t) \/ Lock(t) \/ Step(t) \/ Arrive(t) \/ Close(t)

Spec == Init /\ [][Next]_vars

\* A task that holds the mutex or whose timer is over is polled. A task that waits
\* for the mutex gets it in the end: the others release it and wait 50 ms or go
\* back to their callers. Neither the callers nor the peers have to do anything.
FairSpec == Spec /\ \A t \in Tasks : WF_vars(Step(t)) /\ SF_vars(Lock(t))

-----------------------------------------------------------------------------
TypeOK ==
    /\ pc \in [Tasks -> {"caller", "lock", "recv", "state", "wait"}]
    /\ lock \in Tasks \cup {NoTask}
    /\ res \in [Tasks -> {"none", "data", "eof", "error"}]
    /\ received \in [Tasks -> Seq(1..N)]
    /\ lost \in [Tasks -> 0..N]
    /\ failures \in [Tasks -> 0..Failures]
    /\ arrived \in [Tasks -> 0..N]
    /\ handed \in [Tasks -> 0..N]
    /\ fin \in [Tasks -> BOOLEAN]

\* Ok(0) is the end of the stream: the peer has closed, and the caller was given
\* everything the chip had received, except what an error swallowed. The caller
\* stops reading then.
EofMeansEnd ==
    \A t \in Tasks : res[t] = "eof" =>
        /\ fin[t]
        /\ Len(received[t]) + lost[t] = arrived[t]

\* Every reader has the byte stream it is promised: what the chip has handed out is
\* given to the reader of that socket, in order and once, whoever else reads from
\* the chip in between; only an error skips bytes, and Ok(0) comes last.
Stream ==
    INSTANCE ByteStream WITH Streams <- Tasks, sent <- arrived, over <- fin,
                             given <- received, passed <- handed, outcome <- res

ImplementsStream == Stream!Spec

\* A task that reads while bytes are there, or after the peer has closed, is not
\* left waiting, whatever the other tasks that use the chip do.
ReadReturns ==
    \A t \in Tasks :
        (pc[t] # "caller" /\ (Buffered(t) > 0 \/ fin[t])) ~> pc[t] = "caller"

=============================================================================
