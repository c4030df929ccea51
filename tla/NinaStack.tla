----------------------------- MODULE NinaStack -----------------------------
(***************************************************************************)
(* NinaStack (nal.rs) and Nina::tcp_connect (driver.rs): tasks that share  *)
(* one chip through the mutex, look names up, open, use, close and drop    *)
(* TCP sockets.  A step is one exchange (module NinaRpc says what it       *)
(* promises); what is done with a socket between opening and closing is    *)
(* in SocketRead and TcpSend, and here only what it does to the slot.      *)
(*                                                                         *)
(* A slot of the chip carries the task it was opened for, and the address  *)
(* that a lookup yields is the name it belongs to.  Requests for IPv6 and  *)
(* for reverse lookups return before the mutex is taken and are left out.  *)
(***************************************************************************)
EXTENDS Naturals, FiniteSets

CONSTANTS
    Tasks,          \* each has at most one socket at a time
    NoTask,         \* the mutex is free; a slot is free
    Slots,          \* the chip's sockets
    NoSlot,         \* no socket
    Hosts,          \* names to look up
    NoHost,
    ConnectPolls,   \* GET_CLIENT_STATE polls of connect and tcp_connect
    HostnamePolls,  \* and of connect_hostname
    DnsPolls,       \* GET_HOST_BY_NAME polls
    Mishaps,        \* bound on failed exchanges, dropped futures and sockets
    LateAnswers,    \* a lookup that was given up may still yield its result
    PoisonsOthers,  \* GET_CLIENT_STATE frees every slot that is not connected
    UsesDoubtful    \* callers go on with a socket after Ok(0), an error or a dropped call

ASSUME TasksAssumption == NoTask \notin Tasks
ASSUME SlotsAssumption == IsFiniteSet(Slots) /\ NoSlot \notin Slots
ASSUME HostsAssumption == NoHost \notin Hosts
ASSUME BoundsAssumption ==
    /\ ConnectPolls \in Nat /\ HostnamePolls \in Nat /\ DnsPolls \in Nat /\ Mishaps \in Nat
    /\ LateAnswers \in BOOLEAN /\ PoisonsOthers \in BOOLEAN /\ UsesDoubtful \in BOOLEAN

VARIABLES
    pc,         \* where a task is, "caller" outside of an operation
    op,         \* its operation
    host,       \* the name it asks for
    addr,       \* the address it was given for it
    sock,       \* its socket
    doubt,      \* the tasks whose socket returned Ok(0) or an error, or had a call dropped
    polls,      \* polls made by its loop
    lock,       \* the task that holds the mutex
    table,      \* the chip's slots
    queries,    \* the lookups the chip works on
    answer,     \* the result it holds, NoHost for none
    mishaps

taskVars == <<pc, op, host, addr, sock, doubt, polls, lock>>
dnsVars == <<queries, answer>>
vars == <<taskVars, table, dnsVars, mishaps>>

Ops == {"connect", "hostname", "lookup", "borrow", "use"}

Free == [owner |-> NoTask, link |-> "free"]

Init ==
    /\ pc = [t \in Tasks |-> "caller"]
    /\ op = [t \in Tasks |-> "use"]
    /\ host = [t \in Tasks |-> NoHost]
    /\ addr = [t \in Tasks |-> NoHost]
    /\ sock = [t \in Tasks |-> NoSlot]
    /\ doubt = {}
    /\ polls = [t \in Tasks |-> 0]
    /\ lock = NoTask
    /\ table = [s \in Slots |-> Free]
    /\ queries = {}
    /\ answer = NoHost
    /\ mishaps = 0

Polls(t) == IF op[t] = "hostname" THEN HostnamePolls ELSE ConnectPolls

\* tcp_connect runs on a guard of its caller, who keeps it for the socket's life.
Borrowed(t) == lock = t /\ op[t] = "borrow" /\ pc[t] \in {"caller", "use"}

Goto(t, label) == pc' = [pc EXCEPT ![t] = label]

\* The locals of the operation are gone.
Forget(t) ==
    /\ host' = [host EXCEPT ![t] = NoHost]
    /\ addr' = [addr EXCEPT ![t] = NoHost]
    /\ polls' = [polls EXCEPT ![t] = 0]

\* The operation returns and the guard is dropped; s is the socket the task has then.
Leave(t, s) ==
    /\ Goto(t, "caller")
    /\ sock' = [sock EXCEPT ![t] = s]
    /\ lock' = IF lock = t THEN NoTask ELSE lock
    /\ Forget(t)
    /\ UNCHANGED op

\* It returns a new socket, or none.
Return(t, s) == Leave(t, s) /\ doubt' = doubt \ {t}

\* An exchange fails, or its future is dropped, with or without its effect on the
\* chip.  Each such action below stands for both.
Mishap ==
    /\ mishaps < Mishaps
    /\ mishaps' = mishaps + 1

-----------------------------------------------------------------------------
(* The operations begin *)

Call(t, o, h) ==
    /\ pc[t] = "caller" /\ sock[t] = NoSlot
    /\ Goto(t, "lock")
    /\ op' = [op EXCEPT ![t] = o]
    /\ host' = [host EXCEPT ![t] = h]
    /\ addr' = [addr EXCEPT ![t] = NoHost]
    /\ UNCHANGED <<sock, doubt, polls, lock, table, dnsVars, mishaps>>

Connect(t) == \E o \in {"connect", "borrow"} : Call(t, o, NoHost)

Resolve(t) == \E o \in {"hostname", "lookup"}, h \in Hosts : Call(t, o, h)

\* The task has a socket that its caller may still read and write.
MayUse(t) == sock[t] # NoSlot /\ (t \notin doubt \/ UsesDoubtful)

\* read or write, by the mutex or on the borrowed chip.
Use(t) ==
    /\ pc[t] = "caller" /\ MayUse(t)
    /\ IF Borrowed(t)
       THEN Goto(t, "use") /\ UNCHANGED op
       ELSE Goto(t, "lock") /\ op' = [op EXCEPT ![t] = "use"]
    /\ UNCHANGED <<host, addr, sock, doubt, polls, lock, table, dnsVars, mishaps>>

Lock(t) ==
    /\ pc[t] = "lock" /\ lock = NoTask
    /\ lock' = t
    /\ Goto(t, IF op[t] = "use" THEN "use"
               ELSE IF op[t] \in {"hostname", "lookup"} THEN "request" ELSE "open")
    /\ UNCHANGED <<op, host, addr, sock, doubt, polls, table, dnsVars, mishaps>>

-----------------------------------------------------------------------------
(* dns_lookup *)

\* The chip begins a lookup; the result it held is gone.
Query(h) ==
    /\ queries' = (IF LateAnswers THEN queries ELSE {}) \cup {h}
    /\ answer' = NoHost

Requested(t) ==
    /\ pc[t] = "request"
    /\ Query(host[t])
    /\ Goto(t, "poll")
    /\ UNCHANGED <<op, host, addr, sock, doubt, polls, lock, table, mishaps>>

\* Faulty variant: the ack is not looked at.
RequestRefused_Ignored(t) ==
    /\ pc[t] = "request"
    /\ Goto(t, "poll")
    /\ UNCHANGED <<op, host, addr, sock, doubt, polls, lock, table, dnsVars, mishaps>>

\* The ack is not 1: Err(Nina), and the chip still holds the last result.
RequestRefused(t) ==
    /\ pc[t] = "request"
    /\ Return(t, NoSlot)
    /\ UNCHANGED <<table, dnsVars, mishaps>>

RequestFails(t) ==
    /\ pc[t] = "request"
    /\ Mishap
    /\ Query(host[t]) \/ UNCHANGED dnsVars
    /\ Return(t, NoSlot)
    /\ UNCHANGED table

\* 0.0.0.0 is "still resolving".
NotResolved(t) ==
    /\ pc[t] = "poll" /\ polls[t] < DnsPolls /\ answer = NoHost
    /\ polls' = [polls EXCEPT ![t] = @ + 1]
    /\ UNCHANGED <<pc, op, host, addr, sock, doubt, lock, table, dnsVars, mishaps>>

\* Ok(ip): get_host_by_name returns it, connect_hostname goes on to use it.
Resolved(t) ==
    /\ pc[t] = "poll" /\ polls[t] < DnsPolls /\ answer # NoHost
    /\ addr' = [addr EXCEPT ![t] = answer]
    /\ IF op[t] = "lookup"
       THEN Goto(t, "caller") /\ lock' = NoTask
       ELSE Goto(t, "open") /\ UNCHANGED lock
    /\ polls' = [polls EXCEPT ![t] = 0]
    /\ UNCHANGED <<op, host, sock, doubt, table, dnsVars, mishaps>>

\* Err(Framing) and Err(Nina) count as not resolved, the others are returned.
PollFails(t) ==
    /\ pc[t] = "poll" /\ polls[t] < DnsPolls
    /\ Mishap
    /\ \/ /\ polls' = [polls EXCEPT ![t] = @ + 1]
          /\ UNCHANGED <<pc, op, host, addr, sock, doubt, lock>>
       \/ Return(t, NoSlot)
    /\ UNCHANGED <<table, dnsVars>>

ResolveTimeout(t) ==
    /\ pc[t] = "poll" /\ polls[t] = DnsPolls
    /\ Return(t, NoSlot)
    /\ UNCHANGED <<table, dnsVars, mishaps>>

-----------------------------------------------------------------------------
(* tcp_open_socket, tcp_start_client, the loop over tcp_state, tcp_close *)

FreeSlots == {s \in Slots : table[s] = Free}

Reserve(t, s) == table' = [table EXCEPT ![s] = [owner |-> t, link |-> "reserved"]]

Opened(t) ==
    /\ pc[t] = "open"
    /\ \E s \in FreeSlots :
         /\ Reserve(t, s)
         /\ sock' = [sock EXCEPT ![t] = s]
    /\ Goto(t, "start")
    /\ UNCHANGED <<op, host, addr, doubt, polls, lock, dnsVars, mishaps>>

\* 0xFF: Err(Nina).
NoneFree(t) ==
    /\ pc[t] = "open" /\ FreeSlots = {}
    /\ Return(t, NoSlot)
    /\ UNCHANGED <<table, dnsVars, mishaps>>

OpenFails(t) ==
    /\ pc[t] = "open"
    /\ Mishap
    /\ (\E s \in FreeSlots : Reserve(t, s)) \/ UNCHANGED table
    /\ Return(t, NoSlot)
    /\ UNCHANGED dnsVars

\* The chip dials, or cannot; both answers are Ok.
Dial(t) == \E l \in {"syn", "down"} : table' = [table EXCEPT ![sock[t]].link = l]

Started(t) ==
    /\ pc[t] = "start"
    /\ Dial(t)
    /\ Goto(t, "state")
    /\ UNCHANGED <<op, host, addr, sock, doubt, polls, lock, dnsVars, mishaps>>

\* `?` forgets the socket.
StartFails(t) ==
    /\ pc[t] = "start"
    /\ Mishap
    /\ Dial(t) \/ UNCHANGED table
    /\ Return(t, NoSlot)
    /\ UNCHANGED dnsVars

\* GET_CLIENT_STATE: the chip frees the slot when its connection is gone, and may
\* free it when there is none yet.
Ask(slot) ==
    \E frees \in BOOLEAN :
        /\ table[slot].link = "down" => frees
        /\ table[slot].link = "up" => ~frees
        /\ table' = [s \in Slots |->
               IF IF s = slot THEN frees ELSE PoisonsOthers /\ table[s].link # "up"
               THEN Free ELSE table[s]]

\* SockState::Established: tcp_connect's socket keeps the chip borrowed.
Established(t) ==
    /\ pc[t] = "state" /\ polls[t] < Polls(t) /\ table[sock[t]].link = "up"
    /\ Ask(sock[t])
    /\ IF op[t] = "borrow"
       THEN Goto(t, "caller") /\ Forget(t) /\ UNCHANGED <<op, sock, doubt, lock>>
       ELSE Return(t, sock[t])
    /\ UNCHANGED <<dnsVars, mishaps>>

\* Faulty variant: one poll more than the loop allows.
NotYet_OneMore(t) ==
    /\ pc[t] = "state" /\ polls[t] <= Polls(t) /\ table[sock[t]].link # "up"
    /\ Ask(sock[t])
    /\ polls' = [polls EXCEPT ![t] = @ + 1]
    /\ UNCHANGED <<pc, op, host, addr, sock, doubt, lock, dnsVars, mishaps>>

\* Any other state: wait 250 ms, with the mutex held.
NotYet(t) ==
    /\ pc[t] = "state" /\ polls[t] < Polls(t) /\ table[sock[t]].link # "up"
    /\ Ask(sock[t])
    /\ polls' = [polls EXCEPT ![t] = @ + 1]
    /\ UNCHANGED <<pc, op, host, addr, sock, doubt, lock, dnsVars, mishaps>>

StateFails(t) ==
    /\ pc[t] = "state" /\ polls[t] < Polls(t)
    /\ Mishap
    /\ Ask(sock[t]) \/ UNCHANGED table
    /\ Return(t, NoSlot)
    /\ UNCHANGED dnsVars

\* Faulty variant: the guard is dropped before tcp_close.
GiveUp_Unlocked(t) ==
    /\ pc[t] = "state" /\ polls[t] = Polls(t)
    /\ Goto(t, "close")
    /\ lock' = NoTask
    /\ UNCHANGED <<op, host, addr, sock, doubt, polls, table, dnsVars, mishaps>>

\* Faulty variant: the timeout is returned without tcp_close.
GiveUp_NoClose(t) ==
    /\ pc[t] = "state" /\ polls[t] = Polls(t)
    /\ Return(t, NoSlot)
    /\ UNCHANGED <<table, dnsVars, mishaps>>

\* Faulty variant: the loop begins anew.
GiveUp_Anew(t) ==
    /\ pc[t] = "state" /\ polls[t] = Polls(t)
    /\ polls' = [polls EXCEPT ![t] = 0]
    /\ UNCHANGED <<pc, op, host, addr, sock, doubt, lock, table, dnsVars, mishaps>>

GiveUp(t) ==
    /\ pc[t] = "state" /\ polls[t] = Polls(t)
    /\ Goto(t, "close")
    /\ UNCHANGED <<op, host, addr, sock, doubt, polls, lock, table, dnsVars, mishaps>>

\* tcp_close, after the last poll or by NinaTcpSocket::close.
Closing(t) == pc[t] = "close" \/ (pc[t] = "caller" /\ Borrowed(t) /\ sock[t] # NoSlot)

Closed(t) ==
    /\ Closing(t)
    /\ table' = [table EXCEPT ![sock[t]] = Free]
    /\ Return(t, NoSlot)
    /\ UNCHANGED <<dnsVars, mishaps>>

\* After the loop the result is ignored; close has consumed the socket.
CloseFails(t) ==
    /\ Closing(t)
    /\ Mishap
    /\ table' \in {table, [table EXCEPT ![sock[t]] = Free]}
    /\ Return(t, NoSlot)
    /\ UNCHANGED dnsVars

-----------------------------------------------------------------------------
(* read and write on a socket *)

\* The caller keeps the socket, for sure with its slot or not. The guard of the call
\* is dropped, the one of tcp_connect's caller is not.
Used(t, sure) ==
    /\ IF Borrowed(t)
       THEN Goto(t, "caller") /\ UNCHANGED <<op, host, addr, sock, polls, lock>>
       ELSE Leave(t, sock[t])
    /\ doubt' = IF sure THEN doubt ELSE doubt \cup {t}

\* Bytes are moved, or there are none and the connection is up.
UseOk(t) ==
    /\ pc[t] = "use"
    /\ UNCHANGED table \/ (table[sock[t]].link = "up" /\ Ask(sock[t]))
    /\ Used(t, TRUE)
    /\ UNCHANGED <<dnsVars, mishaps>>

\* Ok(0): the state was asked for, which frees the slot.
UseEof(t) ==
    /\ pc[t] = "use" /\ table[sock[t]].link \in {"down", "free"}
    /\ Ask(sock[t])
    /\ Used(t, FALSE)
    /\ UNCHANGED <<dnsVars, mishaps>>

\* read or write returns an error or is dropped at an await, in the middle of
\* tcp_state for one. They borrow the socket, which lives on.
UseFails(t) ==
    /\ pc[t] = "use"
    /\ Mishap
    /\ Ask(sock[t]) \/ UNCHANGED table
    /\ Used(t, FALSE)
    /\ UNCHANGED dnsVars

\* A socket is dropped, and with tcp_connect's the guard. Nothing closes it, which
\* is a mishap if the chip still keeps the slot for it.
Drop(t) ==
    /\ pc[t] = "caller" /\ sock[t] # NoSlot
    /\ IF table[sock[t]].owner = t THEN Mishap ELSE UNCHANGED mishaps
    /\ Return(t, NoSlot)
    /\ UNCHANGED <<table, dnsVars>>

\* The future of an operation is dropped, and the guard with it, while it waits for
\* the mutex or a timer. Dropped in an exchange, it is like an error of the exchange.
Cancel(t) ==
    /\ pc[t] \notin {"caller", "use"}
    /\ Mishap
    /\ IF op[t] = "use" THEN Used(t, TRUE) ELSE Return(t, NoSlot)
    /\ UNCHANGED <<table, dnsVars>>

-----------------------------------------------------------------------------
(* The network *)

Link(s, from, to) ==
    /\ table[s].link = from
    /\ table' = [table EXCEPT ![s].link = to]
    /\ UNCHANGED <<taskVars, dnsVars, mishaps>>

Accepted(s) == Link(s, "syn", "up")
Refused(s) == Link(s, "syn", "down")
Gone(s) == Link(s, "up", "down")

Lookup ==
    /\ \E h \in queries :
         /\ answer' = h
         /\ queries' = queries \ {h}
    /\ UNCHANGED <<taskVars, table, mishaps>>

DnsStep(t) ==
    \/ Requested(t) \/ RequestRefused(t) \/ RequestFails(t)
    \/ NotResolved(t) \/ Resolved(t) \/ PollFails(t) \/ ResolveTimeout(t)

ConnectStep(t) ==
    \/ Opened(t) \/ NoneFree(t) \/ OpenFails(t) \/ Started(t) \/ StartFails(t)
    \/ Established(t) \/ NotYet(t) \/ StateFails(t) \/ GiveUp(t)

UseStep(t) == UseOk(t) \/ UseEof(t) \/ UseFails(t)

CloseStep(t) == Closed(t) \/ CloseFails(t)

CallerStep(t) == Connect(t) \/ Resolve(t) \/ Use(t) \/ Drop(t) \/ Cancel(t)

Next ==
    \/ \E t \in Tasks :
         CallerStep(t) \/ Lock(t) \/ DnsStep(t) \/ ConnectStep(t) \/ UseStep(t) \/ CloseStep(t)
    \/ \E s \in Slots : Accepted(s) \/ Refused(s) \/ Gone(s)
    \/ Lookup

Spec == Init /\ [][Next]_vars

\* A task that holds the mutex is polled until its operation returns. A task that
\* waits gets the mutex if it is free again and again. Callers, peers and the
\* chip's resolver need not do anything.
FairSpec ==
    /\ Spec
    /\ \A t \in Tasks :
         /\ WF_vars(DnsStep(t) \/ ConnectStep(t) \/ UseStep(t) \/ (pc[t] = "close" /\ CloseStep(t)))
         /\ SF_vars(Lock(t))

-----------------------------------------------------------------------------
\* How far the loop of a task may count.
Limit(t) ==
    IF pc[t] = "poll" THEN DnsPolls
    ELSE IF pc[t] \in {"state", "close"} THEN Polls(t) ELSE 0

TypeOK ==
    /\ pc \in [Tasks -> {"caller", "lock", "request", "poll", "open", "start", "state", "close", "use"}]
    /\ op \in [Tasks -> Ops]
    /\ host \in [Tasks -> Hosts \cup {NoHost}]
    /\ addr \in [Tasks -> Hosts \cup {NoHost}]
    /\ sock \in [Tasks -> Slots \cup {NoSlot}]
    /\ doubt \subseteq Tasks
    /\ polls \in [Tasks -> Nat]
    /\ \A t \in Tasks : polls[t] <= Limit(t)
    /\ lock \in Tasks \cup {NoTask}
    /\ table \in [Slots -> [owner : Tasks \cup {NoTask},
                            link : {"free", "reserved", "syn", "up", "down"}]]
    /\ queries \subseteq Hosts
    /\ answer \in Hosts \cup {NoHost}
    /\ mishaps \in 0..Mishaps

\* A socket that its caller may still use does not name a slot that was opened for
\* another task, however many tasks open, use, lose and close sockets: nobody reads,
\* writes or closes the connection of another. tcp_state frees slots under sockets
\* and loops that still have the number; none of them may come back to it after the
\* mutex was free for another task to be given the slot.
StreamsSeparate ==
    \A t \in Tasks : MayUse(t) => table[sock[t]].owner \in {t, NoTask}

\* Slots kept for a task that has no socket for them: the chip will not get them back.
Leaked ==
    {s \in Slots : table[s].owner # NoTask /\ sock[table[s].owner] # s}

\* A slot is lost only to a failed exchange, a dropped future or a dropped socket,
\* and each of them costs one slot at most: timeouts and ends of streams cost none.
OneSlotPerMishap == Cardinality(Leaked) <= mishaps

\* A lookup yields the address of the name it was asked for, although the chip has
\* one resolver, the result carries no name and a given-up lookup leaves its own.
AddressOfName == \A t \in Tasks : addr[t] # NoHost => addr[t] = host[t]

\* The order of the exchanges of an operation.
Rank(label) ==
    CASE label = "lock" -> 1 [] label = "request" -> 2 [] label = "poll" -> 3
      [] label = "open" -> 4 [] label = "start" -> 5 [] label = "state" -> 6
      [] label = "close" -> 7 [] label = "use" -> 8 [] OTHER -> 0

\* A task in the middle of an operation goes on to a later exchange or to the next
\* poll, of which there are finitely many (TypeOK), or returns, whatever fails, is
\* refused or does not answer in time; and it has the mutex before and after the
\* step, so no exchange of another task comes between two of an operation.
OperationsAdvance ==
    [][\A t \in Tasks :
          pc[t] # "caller" /\ pc'[t] # "caller" /\ <<pc[t], polls[t]>> # <<pc'[t], polls'[t]>> =>
              /\ Rank(pc[t]) < Rank(pc'[t]) \/ (pc[t] = pc'[t] /\ polls[t] < polls'[t])
              /\ pc[t] = "lock" \/ lock = t
              /\ lock' = t]_vars

\* Every operation returns, with the mutex released, unless a task keeps the chip
\* borrowed for a socket of tcp_connect.
CallsReturn ==
    \A t \in Tasks : pc[t] # "caller" ~> (pc[t] = "caller" \/ \E u \in Tasks : Borrowed(u))

=============================================================================
