-------------------------- MODULE NinaStackProofs --------------------------
(***************************************************************************)
(* Proofs about NinaStack, for every number of tasks, slots, names and     *)
(* polls: sockets of different tasks are different connections, a lookup   *)
(* yields its own name's address, and a mishap costs one slot at most.     *)
(***************************************************************************)
EXTENDS NinaStack, FiniteSetTheorems, TLAPS

Assumptions ==
    /\ NoTask \notin Tasks /\ NoSlot \notin Slots /\ NoHost \notin Hosts
    /\ ConnectPolls \in Nat /\ HostnamePolls \in Nat /\ DnsPolls \in Nat /\ Mishaps \in Nat

LEMMA AssumptionsHold == Assumptions
BY TasksAssumption, SlotsAssumption, HostsAssumption, BoundsAssumption DEF Assumptions

\* The places between taking and dropping the guard.
Inside == {"request", "poll", "open", "start", "state", "close", "use"}

\* Whoever runs an operation holds the mutex, and otherwise only the task whose
\* socket keeps the chip borrowed does.
Holds ==
    \A t \in Tasks :
        /\ pc[t] \in Inside => lock = t
        /\ lock = t => \/ pc[t] \in Inside
                       \/ pc[t] = "caller" /\ op[t] = "borrow" /\ sock[t] # NoSlot

\* Which places have a socket, and which a name.
Locals ==
    \A t \in Tasks :
        /\ pc[t] \in {"start", "state", "close", "use"} => sock[t] # NoSlot
        /\ pc[t] \in {"request", "poll", "open"} => sock[t] = NoSlot
        /\ pc[t] = "lock" => (op[t] = "use" <=> sock[t] # NoSlot)
        /\ op[t] = "use" => pc[t] \in {"caller", "lock", "use"}
        /\ \/ pc[t] \in {"request", "poll"}
           \/ pc[t] = "lock" /\ op[t] \in {"hostname", "lookup"}
           => host[t] \in Hosts

\* The slot of a new socket, and of a shared one in use, has not been freed.
Kept ==
    \A t \in Tasks :
        (pc[t] = "start" \/ (pc[t] = "use" /\ op[t] # "borrow")) => table[sock[t]].owner = t

OwnedIffUsed == \A s \in Slots : table[s].owner = NoTask <=> table[s].link = "free"

\* A socket not in doubt, or whose task holds the mutex, has its slot, or the slot is
\* free and the mutex is held: nobody else is given it.
Owns ==
    \A t \in Tasks :
        sock[t] # NoSlot /\ (t \notin doubt \/ lock = t) =>
            \/ table[sock[t]].owner = t
            \/ table[sock[t]].owner = NoTask /\ lock = t

\* Callers do not go on with a socket in doubt.
Sure == \A t \in doubt : pc[t] = "caller" /\ sock[t] # NoSlot

StackInv == TypeOK /\ Holds /\ Locals /\ Kept /\ OwnedIffUsed /\ Owns /\ Sure

-----------------------------------------------------------------------------
(* Types, the mutex, and where a task has a socket *)

LEMMA BasicInit == Init => TypeOK /\ Holds /\ Locals
BY AssumptionsHold DEF Init, TypeOK, Holds, Locals, Inside, Free, Ops, Limit, Assumptions

LEMMA AskTyped ==
    ASSUME TypeOK, NEW s, Ask(s)
    PROVE  table' \in [Slots -> [owner : Tasks \cup {NoTask},
                                 link : {"free", "reserved", "syn", "up", "down"}]]
BY DEF TypeOK, Ask, Free

\* The part of TypeOK about the tasks.
TasksTyped ==
    /\ pc \in [Tasks -> {"caller", "lock", "request", "poll", "open", "start", "state", "close", "use"}]
    /\ op \in [Tasks -> Ops]
    /\ host \in [Tasks -> Hosts \cup {NoHost}]
    /\ addr \in [Tasks -> Hosts \cup {NoHost}]
    /\ sock \in [Tasks -> Slots \cup {NoSlot}]
    /\ doubt \subseteq Tasks
    /\ polls \in [Tasks -> Nat]
    /\ \A t \in Tasks : polls[t] <= Limit(t)
    /\ lock \in Tasks \cup {NoTask}

LEMMA ReturnTyped ==
    ASSUME TypeOK, Holds, Locals, NEW t \in Tasks, NEW s \in Slots \cup {NoSlot}, Leave(t, s),
           doubt' \subseteq Tasks
    PROVE  TasksTyped' /\ Holds' /\ Locals'
BY AssumptionsHold DEF TasksTyped, TypeOK, Holds, Locals, Inside, Return, Leave, Goto, Forget, Limit, Polls, Ops, Assumptions

LEMMA UsedTyped ==
    ASSUME TypeOK, Holds, Locals, NEW t \in Tasks, NEW sure, Used(t, sure)
    PROVE  TasksTyped' /\ Holds' /\ Locals'
<1>d. doubt' \subseteq Tasks
  BY DEF Used, TypeOK
<1>1. CASE Borrowed(t)
  <2>1. Goto(t, "caller") /\ UNCHANGED <<op, host, addr, sock, polls, lock>> /\ op[t] = "borrow"
    BY <1>1 DEF Used, Borrowed
  <2>2. polls[t] = 0 /\ sock[t] # NoSlot /\ lock = t
    BY <1>1 DEF Borrowed, TypeOK, Limit, Holds, Locals, Inside
  <2>3. pc' = [pc EXCEPT ![t] = "caller"] /\ \A u \in Tasks : pc'[u] = IF u = t THEN "caller" ELSE pc[u]
    BY <2>1 DEF Goto, TypeOK
  <2>4. Holds' /\ Locals'
    BY <2>1, <2>2, <2>3 DEF Holds, Locals, Inside
  <2> QED
    BY <1>d, <2>1, <2>2, <2>3, <2>4 DEF TasksTyped, TypeOK, Limit, Polls
<1>2. CASE ~Borrowed(t)
  <2>1. sock[t] \in Slots \cup {NoSlot}
    BY DEF TypeOK
  <2> QED
    BY <1>2, <1>d, <2>1, ReturnTyped DEF Used
<1> QED
  BY <1>1, <1>2

LEMMA BasicNext == TypeOK /\ Holds /\ Locals /\ [Next]_vars => TypeOK' /\ Holds' /\ Locals'
<1> SUFFICES ASSUME TypeOK, Holds, Locals, [Next]_vars PROVE TypeOK' /\ Holds' /\ Locals'
  OBVIOUS
<1> USE AssumptionsHold DEF Assumptions, taskVars, dnsVars
<1>t. ASSUME NEW t \in Tasks,
             CallerStep(t) \/ Lock(t) \/ DnsStep(t) \/ ConnectStep(t) \/ UseStep(t) \/ CloseStep(t)
      PROVE  TypeOK' /\ Holds' /\ Locals'
  <2>1. CASE Connect(t)
    BY <2>1 DEF TypeOK, Holds, Locals, Inside, Goto, Limit, Polls, Connect, Call, Ops
  <2>2. CASE Resolve(t)
    BY <2>2 DEF TypeOK, Holds, Locals, Inside, Goto, Limit, Polls, Resolve, Call, Ops
  <2>3. CASE Use(t)
    BY <2>3 DEF TypeOK, Holds, Locals, Inside, Goto, Limit, Polls, Use, MayUse, Borrowed, Ops
  <2>4. CASE Lock(t)
    BY <2>4 DEF TypeOK, Holds, Locals, Inside, Goto, Limit, Polls, Lock
  <2>5. CASE Requested(t)
    BY <2>5 DEF TypeOK, Holds, Locals, Inside, Goto, Limit, Polls, Requested, Query
  <2>6. CASE RequestRefused(t)
    BY <2>6 DEF TypeOK, Holds, Locals, Inside, Goto, Forget, Limit, Polls, Return, Leave, RequestRefused
  <2>7. CASE RequestFails(t)
    BY <2>7 DEF TypeOK, Holds, Locals, Inside, Goto, Forget, Limit, Polls, Return, Leave, Mishap, RequestFails, Query
  <2>8. CASE NotResolved(t)
    BY <2>8 DEF TypeOK, Holds, Locals, Inside, Limit, Polls, NotResolved
  <2>9. CASE Resolved(t)
    BY <2>9 DEF TypeOK, Holds, Locals, Inside, Goto, Limit, Polls, Resolved
  <2>10. CASE PollFails(t)
    BY <2>10 DEF TypeOK, Holds, Locals, Inside, Goto, Forget, Limit, Polls, Return, Leave, Mishap, PollFails
  <2>11. CASE ResolveTimeout(t)
    BY <2>11 DEF TypeOK, Holds, Locals, Inside, Goto, Forget, Limit, Polls, Return, Leave, ResolveTimeout
  <2>12. CASE Opened(t)
    BY <2>12 DEF TypeOK, Holds, Locals, Inside, Goto, Limit, Polls, Free, FreeSlots, Opened, Reserve
  <2>13. CASE NoneFree(t)
    BY <2>13 DEF TypeOK, Holds, Locals, Inside, Goto, Forget, Limit, Polls, Return, Leave, Free, FreeSlots, NoneFree
  <2>14. CASE OpenFails(t)
    BY <2>14 DEF TypeOK, Holds, Locals, Inside, Goto, Forget, Limit, Polls, Return, Leave, Free, FreeSlots, Mishap, OpenFails, Reserve
  <2>15. CASE Started(t)
    BY <2>15 DEF TypeOK, Holds, Locals, Inside, Goto, Limit, Polls, Started, Dial
  <2>16. CASE StartFails(t)
    BY <2>16 DEF TypeOK, Holds, Locals, Inside, Goto, Forget, Limit, Polls, Return, Leave, Mishap, StartFails, Dial
  <2>17. CASE Established(t)
    <3>1. table' \in [Slots -> [owner : Tasks \cup {NoTask},
                               link : {"free", "reserved", "syn", "up", "down"}]]
      BY <2>17, AskTyped DEF Established
    <3>2. CASE op[t] = "borrow"
      <4>1. /\ pc' = [pc EXCEPT ![t] = "caller"]
            /\ host' = [host EXCEPT ![t] = NoHost]
            /\ addr' = [addr EXCEPT ![t] = NoHost]
            /\ polls' = [polls EXCEPT ![t] = 0]
            /\ UNCHANGED <<op, sock, doubt, lock, queries, answer, mishaps>>
        BY <2>17, <3>2 DEF Established, Goto, Forget
      <4>2. sock[t] # NoSlot /\ lock = t
        BY <2>17 DEF Established, Holds, Locals, Inside
      <4>3. Holds' /\ Locals'
        BY <3>2, <4>1, <4>2 DEF TypeOK, Holds, Locals, Inside
      <4> QED
        BY <3>1, <4>1, <4>3 DEF TypeOK, Limit, Polls
    <3>3. CASE op[t] # "borrow"
      <4>1. Leave(t, sock[t]) /\ doubt' \subseteq Tasks /\ sock[t] \in Slots \cup {NoSlot}
        BY <2>17, <3>3 DEF Established, Return, TypeOK
      <4> QED
        BY <2>17, <3>1, <4>1, ReturnTyped DEF Established, TasksTyped, TypeOK
    <3> QED
      BY <3>2, <3>3
  <2>18. CASE NotYet(t)
    BY <2>18 DEF TypeOK, Holds, Locals, Inside, Limit, Polls, Free, Ask, NotYet
  <2>19. CASE StateFails(t)
    BY <2>19 DEF TypeOK, Holds, Locals, Inside, Goto, Forget, Limit, Polls, Return, Leave, Free, Ask, Mishap, StateFails
  <2>20. CASE GiveUp(t)
    BY <2>20 DEF TypeOK, Holds, Locals, Inside, Goto, Limit, Polls, GiveUp
  <2>21. CASE Closed(t)
    BY <2>21 DEF TypeOK, Holds, Locals, Inside, Goto, Forget, Limit, Polls, Return, Leave, Free, Closed, Closing, Borrowed
  <2>22. CASE CloseFails(t)
    BY <2>22 DEF TypeOK, Holds, Locals, Inside, Goto, Forget, Limit, Polls, Return, Leave, Free, Mishap, CloseFails, Closing, Borrowed
  <2>23. CASE UseOk(t)
    <3>1. table' \in [Slots -> [owner : Tasks \cup {NoTask},
                               link : {"free", "reserved", "syn", "up", "down"}]]
      BY <2>23, AskTyped DEF UseOk, TypeOK
    <3>2. Used(t, TRUE)
      BY <2>23 DEF UseOk
    <3>3. TasksTyped' /\ Holds' /\ Locals'
      BY <3>2, UsedTyped
    <3> QED
      BY <2>23, <3>1, <3>3 DEF UseOk, TasksTyped, TypeOK
  <2>24. CASE UseEof(t)
    <3>1. table' \in [Slots -> [owner : Tasks \cup {NoTask},
                               link : {"free", "reserved", "syn", "up", "down"}]]
      BY <2>24, AskTyped DEF UseEof, TypeOK
    <3>2. Used(t, FALSE)
      BY <2>24 DEF UseEof
    <3>3. TasksTyped' /\ Holds' /\ Locals'
      BY <3>2, UsedTyped
    <3> QED
      BY <2>24, <3>1, <3>3 DEF UseEof, TasksTyped, TypeOK
  <2>25. CASE UseFails(t)
    <3>1. table' \in [Slots -> [owner : Tasks \cup {NoTask},
                               link : {"free", "reserved", "syn", "up", "down"}]]
      BY <2>25, AskTyped DEF UseFails, TypeOK
    <3>2. Used(t, FALSE)
      BY <2>25 DEF UseFails
    <3>3. TasksTyped' /\ Holds' /\ Locals'
      BY <3>2, UsedTyped
    <3> QED
      BY <2>25, <3>1, <3>3 DEF UseFails, TasksTyped, TypeOK, Mishap
  <2>26. CASE Drop(t)
    BY <2>26 DEF TypeOK, Holds, Locals, Inside, Goto, Forget, Limit, Polls, Return, Leave, Mishap, Drop
  <2>27. CASE Cancel(t)
    <3>1. UNCHANGED <<table, queries, answer>> /\ mishaps' = mishaps + 1 /\ mishaps < Mishaps
      BY <2>27 DEF Cancel, Mishap
    <3>2. CASE op[t] = "use"
      <4>1. Used(t, TRUE)
        BY <2>27, <3>2 DEF Cancel
      <4>2. TasksTyped' /\ Holds' /\ Locals'
        BY <4>1, UsedTyped
      <4> QED
        BY <3>1, <4>2 DEF TasksTyped, TypeOK
    <3>3. CASE op[t] # "use"
      <4>1. Leave(t, NoSlot) /\ doubt' \subseteq Tasks
        BY <2>27, <3>3 DEF Cancel, Return, TypeOK
      <4> QED
        BY <3>1, <4>1, ReturnTyped DEF TasksTyped, TypeOK
    <3> QED
      BY <3>2, <3>3
  <2> QED
    BY <1>t, <2>1, <2>2, <2>3, <2>4, <2>5, <2>6, <2>7, <2>8, <2>9, <2>10, <2>11, <2>12, <2>13, <2>14, <2>15, <2>16, <2>17, <2>18, <2>19, <2>20, <2>21, <2>22, <2>23, <2>24, <2>25, <2>26, <2>27 DEF CallerStep, DnsStep, ConnectStep, UseStep, CloseStep
<1>s. ASSUME NEW s \in Slots, Accepted(s) \/ Refused(s) \/ Gone(s)
      PROVE  TypeOK' /\ Holds' /\ Locals'
  BY <1>s DEF Accepted, Refused, Gone, Link, TypeOK, Holds, Locals, Limit, Polls
<1>l. CASE Lookup
  BY <1>l DEF Lookup, TypeOK, Holds, Locals, Limit, Polls
<1>u. CASE UNCHANGED vars
  BY <1>u DEF vars, TypeOK, Holds, Locals, Limit, Polls
<1> QED
  BY <1>t, <1>s, <1>l, <1>u DEF Next

-----------------------------------------------------------------------------
(* Slots *)

SlotsInv == Kept /\ OwnedIffUsed /\ Owns /\ Sure

\* The slot of a task that holds the mutex is named by no other task.
LEMMA SlotIsAlone ==
    ASSUME StackInv, NEW t \in Tasks, lock = t, sock[t] # NoSlot
    PROVE  \A u \in Tasks \ {t} :
              sock[u] # NoSlot /\ u \notin doubt => sock[u] # sock[t] /\ table[sock[u]].owner = u
BY AssumptionsHold DEF StackInv, TypeOK, Owns, Sure, Assumptions

\* A step of the task that holds the mutex, on one slot that is its own or free,
\* leaves the others what they have.
LEMMA OthersKeep ==
    ASSUME StackInv, NEW t \in Tasks, lock = t, NEW s \in Slots,
           s = sock[t] \/ table[s].owner = NoTask,
           \A x \in Slots \ {s} : table'[x] = table[x],
           \A u \in Tasks \ {t} :
              sock'[u] = sock[u] /\ pc'[u] = pc[u] /\ (u \in doubt' <=> u \in doubt)
    PROVE  \A u \in Tasks \ {t} :
              /\ sock'[u] # NoSlot /\ u \notin doubt' => table'[sock'[u]].owner = u
              /\ pc'[u] \notin {"start", "use"}
<1>1. ASSUME NEW u \in Tasks \ {t}, sock[u] # NoSlot, u \notin doubt PROVE table[sock[u]].owner = u /\ sock[u] # s
  BY <1>1, SlotIsAlone, AssumptionsHold DEF StackInv, TypeOK, Owns, Sure, Assumptions
<1>2. ASSUME NEW u \in Tasks \ {t} PROVE pc[u] \notin {"start", "use"}
  BY <1>2 DEF StackInv, Holds, Inside
<1> QED
  BY <1>1, <1>2 DEF StackInv, TypeOK

LEMMA SlotsNext ==
    ASSUME ~PoisonsOthers, ~UsesDoubtful, StackInv, [Next]_vars
    PROVE  SlotsInv'
<1> USE AssumptionsHold DEF Assumptions, taskVars, dnsVars
<1>t. ASSUME NEW t \in Tasks,
             CallerStep(t) \/ Lock(t) \/ DnsStep(t) \/ ConnectStep(t) \/ UseStep(t) \/ CloseStep(t)
      PROVE  SlotsInv'
  <2>1. CASE Connect(t)
    BY <2>1 DEF StackInv, TypeOK, Locals, Holds, Inside, SlotsInv, Kept, OwnedIffUsed, Owns, Sure, Goto, Connect, Call
  <2>2. CASE Resolve(t)
    BY <2>2 DEF StackInv, TypeOK, Locals, Holds, Inside, SlotsInv, Kept, OwnedIffUsed, Owns, Sure, Goto, Resolve, Call
  <2>3. CASE Use(t)
    BY <2>3 DEF StackInv, TypeOK, Locals, Holds, Inside, SlotsInv, Kept, OwnedIffUsed, Owns, Sure, Goto, Use, MayUse, Borrowed
  <2>4. CASE Lock(t)
    BY <2>4 DEF StackInv, TypeOK, Locals, Holds, Inside, SlotsInv, Kept, OwnedIffUsed, Owns, Sure, Goto, Lock
  <2>5. CASE Requested(t)
    BY <2>5 DEF StackInv, TypeOK, Locals, Holds, Inside, SlotsInv, Kept, OwnedIffUsed, Owns, Sure, Goto, Requested, Query
  <2>6. CASE RequestRefused(t)
    BY <2>6 DEF StackInv, TypeOK, Locals, Holds, Inside, SlotsInv, Kept, OwnedIffUsed, Owns, Sure, Goto, Forget, Return, Leave, RequestRefused
  <2>7. CASE RequestFails(t)
    BY <2>7 DEF StackInv, TypeOK, Locals, Holds, Inside, SlotsInv, Kept, OwnedIffUsed, Owns, Sure, Goto, Forget, Return, Leave, RequestFails, Query
  <2>8. CASE NotResolved(t)
    BY <2>8 DEF StackInv, TypeOK, Locals, Holds, Inside, SlotsInv, Kept, OwnedIffUsed, Owns, Sure, NotResolved
  <2>9. CASE Resolved(t)
    BY <2>9 DEF StackInv, TypeOK, Locals, Holds, Inside, SlotsInv, Kept, OwnedIffUsed, Owns, Sure, Goto, Resolved
  <2>10. CASE PollFails(t)
    BY <2>10 DEF StackInv, TypeOK, Locals, Holds, Inside, SlotsInv, Kept, OwnedIffUsed, Owns, Sure, Goto, Forget, Return, Leave, PollFails
  <2>11. CASE ResolveTimeout(t)
    BY <2>11 DEF StackInv, TypeOK, Locals, Holds, Inside, SlotsInv, Kept, OwnedIffUsed, Owns, Sure, Goto, Forget, Return, Leave, ResolveTimeout
  <2>12. CASE Opened(t)
    BY <2>12, OthersKeep DEF StackInv, TypeOK, Locals, Holds, Inside, SlotsInv, Kept, OwnedIffUsed, Owns, Sure, Goto, Forget, Return, Leave, Opened, Reserve, FreeSlots, Free
  <2>13. CASE NoneFree(t)
    BY <2>13 DEF StackInv, TypeOK, Locals, Holds, Inside, SlotsInv, Kept, OwnedIffUsed, Owns, Sure, Goto, Forget, Return, Leave, NoneFree
  <2>14. CASE OpenFails(t)
    <3>1. lock = t /\ sock[t] = NoSlot /\ Return(t, NoSlot)
      BY <2>14 DEF OpenFails, StackInv, Holds, Locals, Inside
    <3>2. CASE UNCHANGED table
      BY <3>1, <3>2 DEF StackInv, TypeOK, Holds, Inside, SlotsInv, Kept, OwnedIffUsed, Owns, Sure, Goto, Return, Leave
    <3>3. ASSUME NEW s \in FreeSlots, Reserve(t, s) PROVE SlotsInv'
      <4>1. /\ s \in Slots /\ table[s].owner = NoTask
            /\ \A x \in Slots \ {s} : table'[x] = table[x]
            /\ \A u \in Tasks \ {t} : sock'[u] = sock[u] /\ pc'[u] = pc[u] /\ (u \in doubt' <=> u \in doubt)
        BY <3>1, <3>3 DEF StackInv, TypeOK, FreeSlots, Free, Reserve, Goto, Return, Leave
      <4>2. \A u \in Tasks \ {t} : /\ sock'[u] # NoSlot /\ u \notin doubt' => table'[sock'[u]].owner = u
                                   /\ pc'[u] \notin {"start", "use"}
        BY <3>1, <4>1, OthersKeep
      <4> QED
        BY <3>1, <3>3, <4>2 DEF StackInv, TypeOK, SlotsInv, Kept, OwnedIffUsed, Owns, Sure, FreeSlots, Reserve, Goto, Return, Leave
    <3> QED
      BY <2>14, <3>2, <3>3 DEF OpenFails
  <2>15. CASE Started(t)
    BY <2>15, OthersKeep DEF StackInv, TypeOK, Locals, Holds, Inside, SlotsInv, Kept, OwnedIffUsed, Owns, Sure, Goto, Forget, Return, Leave, Started, Dial
  <2>16. CASE StartFails(t)
    <3>1. lock = t /\ sock[t] \in Slots /\ table[sock[t]].owner = t /\ Return(t, NoSlot)
      BY <2>16 DEF StartFails, StackInv, TypeOK, Kept, Holds, Locals, Inside
    <3>2. CASE UNCHANGED table
      BY <3>1, <3>2 DEF StackInv, TypeOK, Holds, Inside, SlotsInv, Kept, OwnedIffUsed, Owns, Sure, Goto, Return, Leave
    <3>3. CASE Dial(t)
      <4>1. /\ \A x \in Slots \ {sock[t]} : table'[x] = table[x]
            /\ table'[sock[t]].owner = t /\ table'[sock[t]].link \in {"syn", "down"}
            /\ \A u \in Tasks \ {t} : sock'[u] = sock[u] /\ pc'[u] = pc[u] /\ (u \in doubt' <=> u \in doubt)
        BY <3>1, <3>3 DEF StackInv, TypeOK, Dial, Goto, Return, Leave
      <4>2. \A u \in Tasks \ {t} : /\ sock'[u] # NoSlot /\ u \notin doubt' => table'[sock'[u]].owner = u
                                   /\ pc'[u] \notin {"start", "use"}
        BY <3>1, <4>1, OthersKeep
      <4> QED
        BY <3>1, <4>1, <4>2 DEF StackInv, TypeOK, SlotsInv, Kept, OwnedIffUsed, Owns, Sure, Goto, Return, Leave
    <3> QED
      BY <2>16, <3>2, <3>3 DEF StartFails
  <2>17. CASE Established(t)
    BY <2>17, OthersKeep DEF StackInv, TypeOK, Locals, Holds, Inside, SlotsInv, Kept, OwnedIffUsed, Owns, Sure, Goto, Forget, Return, Leave, Established, Ask, Free
  <2>18. CASE NotYet(t)
    BY <2>18, OthersKeep DEF StackInv, TypeOK, Locals, Holds, Inside, SlotsInv, Kept, OwnedIffUsed, Owns, Sure, Goto, Forget, Return, Leave, NotYet, Ask, Free
  <2>19. CASE StateFails(t)
    BY <2>19, OthersKeep DEF StackInv, TypeOK, Locals, Holds, Inside, SlotsInv, Kept, OwnedIffUsed, Owns, Sure, Goto, Forget, Return, Leave, StateFails, Ask, Free
  <2>20. CASE GiveUp(t)
    BY <2>20 DEF StackInv, TypeOK, Locals, Holds, Inside, SlotsInv, Kept, OwnedIffUsed, Owns, Sure, Goto, GiveUp
  <2>21. CASE Closed(t)
    BY <2>21, OthersKeep DEF StackInv, TypeOK, Locals, Holds, Inside, SlotsInv, Kept, OwnedIffUsed, Owns, Sure, Goto, Forget, Return, Leave, Closed, Closing, Borrowed, Free
  <2>22. CASE CloseFails(t)
    BY <2>22, OthersKeep DEF StackInv, TypeOK, Locals, Holds, Inside, SlotsInv, Kept, OwnedIffUsed, Owns, Sure, Goto, Forget, Return, Leave, CloseFails, Closing, Borrowed, Free
  <2>23. CASE UseOk(t)
    BY <2>23, OthersKeep DEF StackInv, TypeOK, Locals, Holds, Inside, SlotsInv, Kept, OwnedIffUsed, Owns, Sure, Goto, Forget, Return, Leave, UseOk, Ask, Free, Used, Borrowed
  <2>24. CASE UseEof(t)
    BY <2>24, OthersKeep DEF StackInv, TypeOK, Locals, Holds, Inside, SlotsInv, Kept, OwnedIffUsed, Owns, Sure, Goto, Forget, Return, Leave, UseEof, Ask, Free, Used, Borrowed
  <2>25. CASE UseFails(t)
    BY <2>25, OthersKeep DEF StackInv, TypeOK, Locals, Holds, Inside, SlotsInv, Kept, OwnedIffUsed, Owns, Sure, Goto, Forget, Return, Leave, UseFails, Ask, Free, Used, Borrowed
  <2>26. CASE Drop(t)
    BY <2>26 DEF StackInv, TypeOK, Locals, Holds, Inside, SlotsInv, Kept, OwnedIffUsed, Owns, Sure, Goto, Forget, Return, Leave, Drop
  <2>27. CASE Cancel(t)
    <3>1. Leave(t, IF op[t] = "use" THEN sock[t] ELSE NoSlot) /\ UNCHANGED table
      BY <2>27 DEF Cancel, Used, Return, Borrowed
    <3>2. doubt' \in {doubt, doubt \ {t}} /\ (op[t] = "use" => doubt' = doubt)
      BY <2>27 DEF Cancel, Used, Return
    <3>3. t \notin doubt
      BY <2>27 DEF Cancel, StackInv, Sure
    <3>4. pc'[t] = "caller" /\ (sock'[t] = NoSlot \/ (op[t] = "use" /\ sock'[t] = sock[t] /\ pc[t] = "lock"))
      BY <2>27, <3>1 DEF Cancel, StackInv, TypeOK, Locals, Leave, Goto
    <3>5. \A u \in Tasks \ {t} : pc'[u] = pc[u] /\ sock'[u] = sock[u] /\ op'[u] = op[u] /\ (lock = u <=> lock' = u)
      BY <3>1, AssumptionsHold DEF StackInv, TypeOK, Leave, Goto, Assumptions
    <3>6. pc[t] = "lock" => lock # t
      BY DEF StackInv, Holds, Inside
    <3> QED
      BY <3>1, <3>2, <3>3, <3>4, <3>5, <3>6 DEF StackInv, TypeOK, SlotsInv, Kept, OwnedIffUsed, Owns, Sure
  <2> QED
    BY <1>t, <2>1, <2>2, <2>3, <2>4, <2>5, <2>6, <2>7, <2>8, <2>9, <2>10, <2>11, <2>12, <2>13, <2>14, <2>15, <2>16, <2>17, <2>18, <2>19, <2>20, <2>21, <2>22, <2>23, <2>24, <2>25, <2>26, <2>27 DEF CallerStep, DnsStep, ConnectStep, UseStep, CloseStep
<1>s. ASSUME NEW s \in Slots, Accepted(s) \/ Refused(s) \/ Gone(s)
      PROVE  SlotsInv'
  <2>1. PICK to \in {"up", "down"} : /\ table' = [table EXCEPT ![s].link = to]
                                     /\ table[s].link # "free"
                                     /\ UNCHANGED taskVars
    BY <1>s DEF Accepted, Refused, Gone, Link
  <2>2. \A x \in Slots : /\ table'[x].owner = table[x].owner
                         /\ table'[x].link = "free" <=> table[x].link = "free"
    BY <2>1 DEF StackInv, TypeOK
  <2> QED
    BY <2>1, <2>2 DEF StackInv, TypeOK, SlotsInv, Kept, OwnedIffUsed, Owns, Sure
<1>l. CASE Lookup
  BY <1>l DEF Lookup, StackInv, SlotsInv, Kept, OwnedIffUsed, Owns, Sure
<1>u. CASE UNCHANGED vars
  BY <1>u DEF vars, StackInv, SlotsInv, Kept, OwnedIffUsed, Owns, Sure
<1> QED
  BY <1>t, <1>s, <1>l, <1>u DEF Next

LEMMA StackInvariant ==
    ASSUME ~PoisonsOthers, ~UsesDoubtful
    PROVE  Spec => []StackInv
<1>1. Init => StackInv
  BY BasicInit DEF Init, StackInv, Kept, OwnedIffUsed, Owns, Sure, Free
<1>2. StackInv /\ [Next]_vars => StackInv'
  BY BasicNext, SlotsNext DEF StackInv, SlotsInv
<1> QED
  BY <1>1, <1>2, PTL DEF Spec

\* Every variable of the stack keeps its type, and no loop counts beyond its limit.
THEOREM StackTypes == Spec => []TypeOK
BY BasicInit, BasicNext, PTL DEF Spec

\* No task uses or closes the connection of another, if callers let a socket go once a
\* read or write of it returned Ok(0) or an error or was dropped, and GET_CLIENT_STATE
\* leaves other slots alone. The code ensures neither of the two conditions.
THEOREM StreamsAreSeparate ==
    ASSUME ~PoisonsOthers, ~UsesDoubtful
    PROVE  Spec => []StreamsSeparate
<1>1. StackInv => StreamsSeparate
  BY DEF StackInv, Owns, StreamsSeparate, MayUse
<1> QED
  BY <1>1, StackInvariant, PTL

-----------------------------------------------------------------------------
(* Lookups *)

\* While a task polls, the resolver works on its name and on no other.
DnsInv ==
    /\ \A t \in Tasks : pc[t] = "poll" => queries \subseteq {host[t]} /\ answer \in {host[t], NoHost}
    /\ AddressOfName

LEMMA DnsNext ==
    ASSUME ~LateAnswers, TypeOK, Holds, DnsInv, [Next]_vars
    PROVE  DnsInv'
<1> USE AssumptionsHold DEF Assumptions, taskVars, dnsVars
<1>t. ASSUME NEW t \in Tasks,
             CallerStep(t) \/ Lock(t) \/ DnsStep(t) \/ ConnectStep(t) \/ UseStep(t) \/ CloseStep(t)
      PROVE  DnsInv'
  <2>1. CASE Connect(t)
    BY <2>1 DEF TypeOK, Holds, Inside, DnsInv, AddressOfName, Goto, Connect, Call
  <2>2. CASE Resolve(t)
    BY <2>2 DEF TypeOK, Holds, Inside, DnsInv, AddressOfName, Goto, Resolve, Call
  <2>3. CASE Use(t)
    BY <2>3 DEF TypeOK, Holds, Inside, DnsInv, AddressOfName, Goto, Use, MayUse, Borrowed
  <2>4. CASE Lock(t)
    BY <2>4 DEF TypeOK, Holds, Inside, DnsInv, AddressOfName, Goto, Lock
  <2>5. CASE Requested(t)
    BY <2>5 DEF TypeOK, Holds, Inside, DnsInv, AddressOfName, Goto, Requested, Query
  <2>6. CASE RequestRefused(t)
    BY <2>6 DEF TypeOK, Holds, Inside, DnsInv, AddressOfName, Goto, Forget, Return, Leave, RequestRefused
  <2>7. CASE RequestFails(t)
    BY <2>7 DEF TypeOK, Holds, Inside, DnsInv, AddressOfName, Goto, Forget, Return, Leave, RequestFails, Query
  <2>8. CASE NotResolved(t)
    BY <2>8 DEF TypeOK, Holds, Inside, DnsInv, AddressOfName, NotResolved
  <2>9. CASE Resolved(t)
    BY <2>9 DEF TypeOK, Holds, Inside, DnsInv, AddressOfName, Goto, Resolved
  <2>10. CASE PollFails(t)
    BY <2>10 DEF TypeOK, Holds, Inside, DnsInv, AddressOfName, Goto, Forget, Return, Leave, PollFails
  <2>11. CASE ResolveTimeout(t)
    BY <2>11 DEF TypeOK, Holds, Inside, DnsInv, AddressOfName, Goto, Forget, Return, Leave, ResolveTimeout
  <2>12. CASE Opened(t)
    BY <2>12 DEF TypeOK, Holds, Inside, DnsInv, AddressOfName, Goto, Opened
  <2>13. CASE NoneFree(t)
    BY <2>13 DEF TypeOK, Holds, Inside, DnsInv, AddressOfName, Goto, Forget, Return, Leave, NoneFree
  <2>14. CASE OpenFails(t)
    BY <2>14 DEF TypeOK, Holds, Inside, DnsInv, AddressOfName, Goto, Forget, Return, Leave, OpenFails
  <2>15. CASE Started(t)
    BY <2>15 DEF TypeOK, Holds, Inside, DnsInv, AddressOfName, Goto, Started
  <2>16. CASE StartFails(t)
    BY <2>16 DEF TypeOK, Holds, Inside, DnsInv, AddressOfName, Goto, Forget, Return, Leave, StartFails
  <2>17. CASE Established(t)
    BY <2>17 DEF TypeOK, Holds, Inside, DnsInv, AddressOfName, Goto, Forget, Return, Leave, Established
  <2>18. CASE NotYet(t)
    BY <2>18 DEF TypeOK, Holds, Inside, DnsInv, AddressOfName, NotYet
  <2>19. CASE StateFails(t)
    BY <2>19 DEF TypeOK, Holds, Inside, DnsInv, AddressOfName, Goto, Forget, Return, Leave, StateFails
  <2>20. CASE GiveUp(t)
    BY <2>20 DEF TypeOK, Holds, Inside, DnsInv, AddressOfName, Goto, GiveUp
  <2>21. CASE Closed(t)
    BY <2>21 DEF TypeOK, Holds, Inside, DnsInv, AddressOfName, Goto, Forget, Return, Leave, Closed, Closing, Borrowed
  <2>22. CASE CloseFails(t)
    BY <2>22 DEF TypeOK, Holds, Inside, DnsInv, AddressOfName, Goto, Forget, Return, Leave, CloseFails, Closing, Borrowed
  <2>23. CASE UseOk(t)
    BY <2>23 DEF TypeOK, Holds, Inside, DnsInv, AddressOfName, Goto, Forget, Return, Leave, UseOk, Used, Borrowed
  <2>24. CASE UseEof(t)
    BY <2>24 DEF TypeOK, Holds, Inside, DnsInv, AddressOfName, Goto, Forget, Return, Leave, UseEof, Used, Borrowed
  <2>25. CASE UseFails(t)
    BY <2>25 DEF TypeOK, Holds, Inside, DnsInv, AddressOfName, Goto, Forget, Return, Leave, UseFails, Used, Borrowed
  <2>26. CASE Drop(t)
    BY <2>26 DEF TypeOK, Holds, Inside, DnsInv, AddressOfName, Goto, Forget, Return, Leave, Drop
  <2>27. CASE Cancel(t)
    <3>1. Goto(t, "caller") /\ Forget(t) /\ UNCHANGED dnsVars
      BY <2>27 DEF Cancel, Used, Return, Leave, Borrowed
    <3> QED
      BY <3>1 DEF TypeOK, DnsInv, AddressOfName, Goto, Forget
  <2> QED
    BY <1>t, <2>1, <2>2, <2>3, <2>4, <2>5, <2>6, <2>7, <2>8, <2>9, <2>10, <2>11, <2>12, <2>13, <2>14, <2>15, <2>16, <2>17, <2>18, <2>19, <2>20, <2>21, <2>22, <2>23, <2>24, <2>25, <2>26, <2>27 DEF CallerStep, DnsStep, ConnectStep, UseStep, CloseStep
<1>s. ASSUME NEW s \in Slots, Accepted(s) \/ Refused(s) \/ Gone(s)
      PROVE  DnsInv'
  BY <1>s DEF Accepted, Refused, Gone, Link, DnsInv, AddressOfName
<1>l. CASE Lookup
  BY <1>l DEF Lookup, DnsInv, AddressOfName
<1>u. CASE UNCHANGED vars
  BY <1>u DEF vars, DnsInv, AddressOfName
<1> QED
  BY <1>t, <1>s, <1>l, <1>u DEF Next

\* A lookup yields the address of its own name, if a lookup that was given up does
\* not answer after the next one began.
THEOREM AddressesMatch ==
    ASSUME ~LateAnswers
    PROVE  Spec => []AddressOfName
<1>1. Init => DnsInv
  BY DEF Init, DnsInv, AddressOfName
<1>2. TypeOK /\ Holds /\ DnsInv /\ [Next]_vars => DnsInv'
  BY DnsNext
<1>3. DnsInv => AddressOfName
  BY DEF DnsInv
<1> QED
  BY <1>1, <1>2, <1>3, BasicInit, BasicNext, PTL DEF Spec

-----------------------------------------------------------------------------
(* Lost slots *)

LEMMA LeakLess ==
    ASSUME TypeOK, OneSlotPerMishap, TypeOK', mishaps' >= mishaps, Leaked' \subseteq Leaked
    PROVE  OneSlotPerMishap'
<1>1. IsFiniteSet(Leaked)
  BY SlotsAssumption, FS_Subset DEF Leaked
<1>2. Cardinality(Leaked') <= Cardinality(Leaked) /\ Cardinality(Leaked) \in Nat /\ Cardinality(Leaked') \in Nat
  BY <1>1, FS_Subset, FS_CardinalityType
<1> QED
  BY <1>2 DEF OneSlotPerMishap, TypeOK

LEMMA LeakSame ==
    ASSUME TypeOK, OneSlotPerMishap, TypeOK', mishaps' >= mishaps,
           \A u \in Tasks : sock'[u] = sock[u],
           \A x \in Slots : table'[x].owner \in {NoTask, table[x].owner}
    PROVE  OneSlotPerMishap'
<1>1. Leaked' \subseteq Leaked
  BY AssumptionsHold DEF Leaked, TypeOK, Assumptions
<1> QED
  BY <1>1, LeakLess

LEMMA LeakOne ==
    ASSUME TypeOK, OneSlotPerMishap, TypeOK', NEW t \in Tasks, NEW s \in Slots \cup {NoSlot},
           mishaps' = mishaps + 1 \/ (mishaps' = mishaps /\ s \notin Leaked'),
           \A u \in Tasks \ {t} : sock'[u] = sock[u],
           \A x \in Slots \ {s} : table'[x].owner \in {NoTask, table[x].owner},
           sock[t] \in {NoSlot, s, sock'[t]}
    PROVE  OneSlotPerMishap'
<1>1. Leaked' \subseteq Leaked \cup {s}
  BY AssumptionsHold DEF Leaked, TypeOK, Assumptions
<1>2. IsFiniteSet(Leaked) /\ IsFiniteSet(Leaked')
  BY SlotsAssumption, FS_Subset DEF Leaked
<1>3. Cardinality(Leaked) \in Nat /\ Cardinality(Leaked') \in Nat
  BY <1>2, FS_CardinalityType
<1>4. CASE s \notin Leaked'
  <2>1. Leaked' \subseteq Leaked
    BY <1>1, <1>4
  <2> QED
    BY <1>2, <1>3, <2>1, FS_Subset DEF OneSlotPerMishap, TypeOK
<1>5. CASE mishaps' = mishaps + 1
  <2>1. /\ IsFiniteSet(Leaked \cup {s})
        /\ Cardinality(Leaked \cup {s}) = IF s \in Leaked THEN Cardinality(Leaked) ELSE Cardinality(Leaked) + 1
    BY <1>2, FS_AddElement, Zenon
  <2>2. Cardinality(Leaked') <= Cardinality(Leaked \cup {s}) /\ Cardinality(Leaked \cup {s}) \in Nat
    BY <1>1, <2>1, FS_Subset, FS_CardinalityType
  <2> QED
    BY <1>3, <1>5, <2>1, <2>2 DEF OneSlotPerMishap, TypeOK
<1> QED
  BY <1>4, <1>5

LEMMA LeakNext ==
    ASSUME TypeOK, Holds, Locals, TypeOK', OneSlotPerMishap, [Next]_vars
    PROVE  OneSlotPerMishap'
<1> USE AssumptionsHold DEF Assumptions, taskVars, dnsVars
<1>t. ASSUME NEW t \in Tasks,
             CallerStep(t) \/ Lock(t) \/ DnsStep(t) \/ ConnectStep(t) \/ UseStep(t) \/ CloseStep(t)
      PROVE  OneSlotPerMishap'
  <2>1. CASE Connect(t)
    BY <2>1, LeakSame DEF Connect, TypeOK, Locals, Return, Leave, Call
  <2>2. CASE Resolve(t)
    BY <2>2, LeakSame DEF Resolve, TypeOK, Locals, Return, Leave, Call
  <2>3. CASE Use(t)
    BY <2>3, LeakSame DEF Use, TypeOK, Locals, Return, Leave, Borrowed
  <2>4. CASE Lock(t)
    BY <2>4, LeakSame DEF Lock, TypeOK, Locals, Return, Leave
  <2>5. CASE Requested(t)
    BY <2>5, LeakSame DEF Requested, TypeOK, Locals, Return, Leave
  <2>6. CASE RequestRefused(t)
    BY <2>6, LeakSame DEF RequestRefused, TypeOK, Locals, Return, Leave
  <2>7. CASE RequestFails(t)
    BY <2>7, LeakSame DEF RequestFails, TypeOK, Locals, Return, Leave, Mishap
  <2>8. CASE NotResolved(t)
    BY <2>8, LeakSame DEF NotResolved, TypeOK, Locals, Return, Leave
  <2>9. CASE Resolved(t)
    BY <2>9, LeakSame DEF Resolved, TypeOK, Locals, Return, Leave
  <2>10. CASE PollFails(t)
    BY <2>10, LeakSame DEF PollFails, TypeOK, Locals, Return, Leave, Mishap
  <2>11. CASE ResolveTimeout(t)
    BY <2>11, LeakSame DEF ResolveTimeout, TypeOK, Locals, Return, Leave
  <2>12. CASE Opened(t)
    <3>1. PICK s \in FreeSlots : Reserve(t, s) /\ sock' = [sock EXCEPT ![t] = s] /\ sock[t] = NoSlot
      BY <2>12 DEF Opened, Locals
    <3>2. s \in Slots /\ table'[s].owner = t /\ sock'[t] = s
      BY <3>1 DEF FreeSlots, Reserve, TypeOK
    <3>4. s \notin Leaked'
      BY <3>2 DEF Leaked
    <3>3. mishaps' = mishaps
      BY <2>12 DEF Opened
    <3> QED
      BY <3>1, <3>2, <3>3, <3>4, LeakOne DEF TypeOK, Reserve
  <2>13. CASE NoneFree(t)
    BY <2>13, LeakSame DEF NoneFree, TypeOK, Locals, Return, Leave
  <2>14. CASE OpenFails(t)
    <3>1. mishaps' = mishaps + 1 /\ sock[t] = NoSlot /\ sock' = [sock EXCEPT ![t] = NoSlot]
      BY <2>14 DEF OpenFails, Mishap, Return, Leave, Locals
    <3>2. ASSUME NEW s \in FreeSlots, Reserve(t, s) PROVE OneSlotPerMishap'
      BY <3>1, <3>2, LeakOne DEF TypeOK, FreeSlots, Reserve
    <3>3. CASE UNCHANGED table
      BY <3>1, <3>3, LeakSame DEF TypeOK
    <3> QED
      BY <2>14, <3>2, <3>3 DEF OpenFails
  <2>15. CASE Started(t)
    BY <2>15, LeakSame DEF Started, TypeOK, Locals, Return, Leave, Dial
  <2>16. CASE StartFails(t)
    <3>1. \A x \in Slots \ {sock[t]} : table'[x].owner \in {NoTask, table[x].owner}
      BY <2>16 DEF StartFails, TypeOK, Locals, Dial, Mishap
    <3>2. \A u \in Tasks \ {t} : sock'[u] = sock[u]
      BY <2>16 DEF StartFails, TypeOK, Return, Leave, Dial, Mishap
    <3>3. mishaps' = mishaps + 1
      BY <2>16 DEF StartFails, TypeOK, Leaked, Return, Leave, Dial, Mishap
    <3> QED
      BY <3>1, <3>2, <3>3, LeakOne DEF TypeOK
  <2>17. CASE Established(t)
    BY <2>17, LeakSame DEF Established, TypeOK, Locals, Return, Leave, Ask, Free
  <2>18. CASE NotYet(t)
    BY <2>18, LeakSame DEF NotYet, TypeOK, Locals, Return, Leave, Ask, Free
  <2>19. CASE StateFails(t)
    <3>1. \A x \in Slots \ {sock[t]} : table'[x].owner \in {NoTask, table[x].owner}
      BY <2>19 DEF StateFails, TypeOK, Locals, Ask, Free, Mishap
    <3>2. \A u \in Tasks \ {t} : sock'[u] = sock[u]
      BY <2>19 DEF StateFails, TypeOK, Return, Leave, Ask, Free, Mishap
    <3>3. mishaps' = mishaps + 1
      BY <2>19 DEF StateFails, TypeOK, Leaked, Return, Leave, Ask, Free, Mishap
    <3> QED
      BY <3>1, <3>2, <3>3, LeakOne DEF TypeOK
  <2>20. CASE GiveUp(t)
    BY <2>20, LeakSame DEF GiveUp, TypeOK, Locals, Return, Leave
  <2>21. CASE Closed(t)
    <3>1. \A x \in Slots \ {sock[t]} : table'[x].owner \in {NoTask, table[x].owner}
      BY <2>21 DEF Closed, TypeOK, Locals, Closing, Borrowed, Free
    <3>2. \A u \in Tasks \ {t} : sock'[u] = sock[u]
      BY <2>21 DEF Closed, TypeOK, Return, Leave, Closing, Borrowed, Free
    <3>3. mishaps' = mishaps /\ sock[t] \notin Leaked'
      BY <2>21 DEF Closed, TypeOK, Leaked, Return, Leave, Closing, Borrowed, Free
    <3> QED
      BY <3>1, <3>2, <3>3, LeakOne DEF TypeOK
  <2>22. CASE CloseFails(t)
    <3>1. \A x \in Slots \ {sock[t]} : table'[x].owner \in {NoTask, table[x].owner}
      BY <2>22 DEF CloseFails, TypeOK, Locals, Closing, Borrowed, Free, Mishap
    <3>2. \A u \in Tasks \ {t} : sock'[u] = sock[u]
      BY <2>22 DEF CloseFails, TypeOK, Return, Leave, Closing, Borrowed, Free, Mishap
    <3>3. mishaps' = mishaps + 1
      BY <2>22 DEF CloseFails, TypeOK, Leaked, Return, Leave, Closing, Borrowed, Free, Mishap
    <3> QED
      BY <3>1, <3>2, <3>3, LeakOne DEF TypeOK
  <2>23. CASE UseOk(t)
    BY <2>23, LeakSame DEF UseOk, TypeOK, Locals, Return, Leave, Used, Borrowed, Ask, Free
  <2>24. CASE UseEof(t)
    BY <2>24, LeakSame DEF UseEof, TypeOK, Locals, Return, Leave, Used, Borrowed, Ask, Free
  <2>25. CASE UseFails(t)
    BY <2>25, LeakSame DEF UseFails, TypeOK, Locals, Return, Leave, Used, Borrowed, Ask, Free, Mishap
  <2>26. CASE Drop(t)
    <3>1. table' = table /\ sock' = [sock EXCEPT ![t] = NoSlot]
      BY <2>26 DEF Drop, Return, Leave
    <3>2. CASE table[sock[t]].owner = t
      <4>1. mishaps' = mishaps + 1
        BY <2>26, <3>2 DEF Drop, Mishap
      <4>2. sock[t] \in Slots \cup {NoSlot}
        BY DEF TypeOK
      <4> QED
        BY <3>1, <4>1, <4>2, LeakOne DEF TypeOK
    <3>3. CASE table[sock[t]].owner # t
      <4>1. mishaps' = mishaps
        BY <2>26, <3>3 DEF Drop
      <4>2. Leaked' \subseteq Leaked
        BY <3>1, <3>3, AssumptionsHold DEF Leaked, TypeOK, Assumptions
      <4> QED
        BY <4>1, <4>2, LeakLess DEF TypeOK
    <3> QED
      BY <3>2, <3>3
  <2>27. CASE Cancel(t)
    <3>1. table' = table /\ mishaps' = mishaps + 1 /\ \A u \in Tasks \ {t} : sock'[u] = sock[u]
      BY <2>27 DEF Cancel, TypeOK, Return, Leave, Used, Mishap
    <3>2. sock[t] \in Slots \cup {NoSlot}
      BY DEF TypeOK
    <3> QED
      BY <3>1, <3>2, LeakOne
  <2> QED
    BY <1>t, <2>1, <2>2, <2>3, <2>4, <2>5, <2>6, <2>7, <2>8, <2>9, <2>10, <2>11, <2>12, <2>13, <2>14, <2>15, <2>16, <2>17, <2>18, <2>19, <2>20, <2>21, <2>22, <2>23, <2>24, <2>25, <2>26, <2>27 DEF CallerStep, DnsStep, ConnectStep, UseStep, CloseStep
<1>s. ASSUME NEW s \in Slots, Accepted(s) \/ Refused(s) \/ Gone(s)
      PROVE  OneSlotPerMishap'
  <2>1. PICK to \in {"up", "down"} : table' = [table EXCEPT ![s].link = to] /\ UNCHANGED <<sock, mishaps>>
    BY <1>s DEF Accepted, Refused, Gone, Link
  <2> QED
    BY <2>1, LeakSame DEF TypeOK
<1>l. CASE Lookup
  BY <1>l, LeakSame DEF Lookup, TypeOK
<1>u. CASE UNCHANGED vars
  BY <1>u, LeakSame DEF vars, TypeOK
<1> QED
  BY <1>t, <1>s, <1>l, <1>u DEF Next

\* The chip loses one slot at most for each failed exchange, dropped future or socket
\* dropped with its slot, and none without them, whatever callers do with sockets in
\* doubt and whichever slots GET_CLIENT_STATE frees.
THEOREM SlotsAreBounded == Spec => []OneSlotPerMishap
<1>1. Init => OneSlotPerMishap
  <2>1. ASSUME Init PROVE Leaked = {} /\ mishaps = 0
    BY <2>1 DEF Init, Leaked, Free
  <2> QED
    BY <2>1, FS_EmptySet DEF OneSlotPerMishap
<1>2. TypeOK /\ Holds /\ Locals /\ TypeOK' /\ OneSlotPerMishap /\ [Next]_vars => OneSlotPerMishap'
  BY LeakNext
<1> QED
  BY <1>1, <1>2, BasicInit, BasicNext, PTL DEF Spec
-----------------------------------------------------------------------------
(* Operations go forward *)

\* OperationsAdvance, of one task.
Advances(t) ==
    pc[t] # "caller" /\ pc'[t] # "caller" /\ <<pc[t], polls[t]>> # <<pc'[t], polls'[t]>> =>
        /\ Rank(pc[t]) < Rank(pc'[t]) \/ (pc[t] = pc'[t] /\ polls[t] < polls'[t])
        /\ pc[t] = "lock" \/ lock = t
        /\ lock' = t

\* An operation that returns or has not begun.
LEMMA ReturnAdvances ==
    ASSUME TypeOK, NEW t \in Tasks, NEW s, NEW sure, Leave(t, s) \/ Used(t, sure)
    PROVE  \A u \in Tasks : Advances(u)
<1>1. pc' = [pc EXCEPT ![t] = "caller"] /\ (polls' = polls \/ polls' = [polls EXCEPT ![t] = 0])
  BY DEF Leave, Used, Goto, Forget
<1> QED
  BY <1>1 DEF TypeOK, Advances

LEMMA CallerAdvances ==
    ASSUME TypeOK, NEW t \in Tasks, NEW l, pc[t] = "caller", Goto(t, l), UNCHANGED polls
    PROVE  \A u \in Tasks : Advances(u)
BY DEF Goto, TypeOK, Advances

\* The next exchange of an operation.
LEMMA ExchangeAdvances ==
    ASSUME TypeOK, Holds, NEW t \in Tasks, NEW l, Goto(t, l), pc[t] \in Inside, Rank(pc[t]) < Rank(l),
           UNCHANGED lock, polls' = polls \/ polls' = [polls EXCEPT ![t] = 0]
    PROVE  \A u \in Tasks : Advances(u)
<1>1. lock = t /\ lock' = t
  BY DEF Holds
<1>2. pc' = [pc EXCEPT ![t] = l] /\ pc'[t] = l
  BY DEF Goto, TypeOK
<1>3. Advances(t)
  BY <1>1, <1>2 DEF Advances
<1>4. \A u \in Tasks : u # t => pc'[u] = pc[u] /\ polls'[u] = polls[u]
  BY <1>2 DEF TypeOK
<1>5. \A u \in Tasks : u # t => Advances(u)
  BY <1>4 DEF Advances
<1> QED
  BY <1>3, <1>5

\* The next poll.
LEMMA PollAdvances ==
    ASSUME TypeOK, Holds, NEW t \in Tasks, pc[t] \in Inside, UNCHANGED <<pc, lock>>,
           polls' = [polls EXCEPT ![t] = @ + 1]
    PROVE  \A u \in Tasks : Advances(u)
<1>1. lock = t /\ lock' = t
  BY DEF Holds
<1>2. polls[t] \in Nat /\ polls'[t] = polls[t] + 1
  BY DEF TypeOK
<1>3. Advances(t)
  BY <1>1, <1>2 DEF Advances
<1>4. \A u \in Tasks : u # t => pc'[u] = pc[u] /\ polls'[u] = polls[u]
  BY DEF TypeOK
<1>5. \A u \in Tasks : u # t => Advances(u)
  BY <1>4 DEF Advances
<1> QED
  BY <1>3, <1>5

LEMMA LockAdvances ==
    ASSUME TypeOK, NEW t \in Tasks, Lock(t)
    PROVE  \A u \in Tasks : Advances(u)
<1>1. /\ pc[t] = "lock" /\ lock' = t /\ polls' = polls
      /\ \E l \in {"use", "request", "open"} : pc' = [pc EXCEPT ![t] = l]
  BY DEF Lock, Goto
<1>2. PICK l \in {"use", "request", "open"} : pc' = [pc EXCEPT ![t] = l]
  BY <1>1
<1>3. pc'[t] = l /\ Rank(pc[t]) < Rank(l)
  BY <1>1, <1>2 DEF TypeOK, Rank
<1>4. Advances(t)
  BY <1>1, <1>3 DEF Advances
<1>5. \A u \in Tasks : u # t => pc'[u] = pc[u] /\ polls'[u] = polls[u]
  BY <1>1, <1>2 DEF TypeOK
<1>6. \A u \in Tasks : u # t => Advances(u)
  BY <1>5 DEF Advances
<1> QED
  BY <1>4, <1>6

LEMMA StepAdvances ==
    ASSUME TypeOK, Holds, Next
    PROVE  \A u \in Tasks : Advances(u)
<1>r. Rank("request") < Rank("poll") /\ Rank("poll") < Rank("open") /\ Rank("open") < Rank("start")
      /\ Rank("start") < Rank("state") /\ Rank("state") < Rank("close")
  BY DEF Rank
<1>1. ASSUME NEW t \in Tasks, CallerStep(t) PROVE \A u \in Tasks : Advances(u)
  <2>1. CASE Connect(t)
    BY <2>1, CallerAdvances DEF Connect, Call
  <2>2. CASE Resolve(t)
    BY <2>2, CallerAdvances DEF Resolve, Call
  <2>3. CASE Use(t)
    BY <2>3, CallerAdvances DEF Use
  <2>4. CASE Drop(t) \/ Cancel(t)
    BY <2>4, ReturnAdvances DEF Drop, Cancel, Return
  <2> QED
    BY <1>1, <2>1, <2>2, <2>3, <2>4 DEF CallerStep
<1>2. ASSUME NEW t \in Tasks, DnsStep(t) PROVE \A u \in Tasks : Advances(u)
  <2>1. CASE Requested(t)
    BY <2>1, <1>r, ExchangeAdvances DEF Requested, Inside
  <2>2. CASE RequestRefused(t) \/ RequestFails(t) \/ ResolveTimeout(t)
    BY <2>2, ReturnAdvances DEF RequestRefused, RequestFails, ResolveTimeout, Return
  <2>3. CASE NotResolved(t)
    BY <2>3, PollAdvances DEF NotResolved, Inside
  <2>4. CASE Resolved(t)
    <3>1. CASE op[t] = "lookup"
      <4>1. pc' = [pc EXCEPT ![t] = "caller"] /\ polls' = [polls EXCEPT ![t] = 0]
        BY <2>4, <3>1 DEF Resolved, Goto
      <4> QED
        BY <4>1 DEF TypeOK, Advances
    <3>2. CASE op[t] # "lookup"
      BY <2>4, <3>2, <1>r, ExchangeAdvances DEF Resolved, Inside
    <3> QED
      BY <3>1, <3>2
  <2>5. CASE PollFails(t)
    BY <2>5, PollAdvances, ReturnAdvances DEF PollFails, Return, Inside
  <2> QED
    BY <1>2, <2>1, <2>2, <2>3, <2>4, <2>5 DEF DnsStep
<1>3. ASSUME NEW t \in Tasks, ConnectStep(t) PROVE \A u \in Tasks : Advances(u)
  <2>1. CASE Opened(t)
    BY <2>1, <1>r, ExchangeAdvances DEF Opened, Inside
  <2>2. CASE NoneFree(t) \/ OpenFails(t) \/ StartFails(t) \/ StateFails(t)
    BY <2>2, ReturnAdvances DEF NoneFree, OpenFails, StartFails, StateFails, Return
  <2>3. CASE Started(t)
    BY <2>3, <1>r, ExchangeAdvances DEF Started, Inside
  <2>4. CASE Established(t)
    <3>1. CASE op[t] = "borrow"
      <4>1. pc' = [pc EXCEPT ![t] = "caller"] /\ polls' = [polls EXCEPT ![t] = 0]
        BY <2>4, <3>1 DEF Established, Goto, Forget
      <4> QED
        BY <4>1 DEF TypeOK, Advances
    <3>2. CASE op[t] # "borrow"
      BY <2>4, <3>2, ReturnAdvances DEF Established, Return
    <3> QED
      BY <3>1, <3>2
  <2>5. CASE NotYet(t)
    BY <2>5, PollAdvances DEF NotYet, Inside
  <2>6. CASE GiveUp(t)
    BY <2>6, <1>r, ExchangeAdvances DEF GiveUp, Inside
  <2> QED
    BY <1>3, <2>1, <2>2, <2>3, <2>4, <2>5, <2>6 DEF ConnectStep
<1>4. ASSUME NEW t \in Tasks, UseStep(t) \/ CloseStep(t) PROVE \A u \in Tasks : Advances(u)
  BY <1>4, ReturnAdvances DEF UseStep, CloseStep, UseOk, UseEof, UseFails, Closed, CloseFails, Return
<1>5. ASSUME UNCHANGED taskVars PROVE \A u \in Tasks : Advances(u)
  BY <1>5 DEF taskVars, Advances
<1>6. ASSUME NEW s \in Slots, Accepted(s) \/ Refused(s) \/ Gone(s) PROVE UNCHANGED taskVars
  BY <1>6 DEF Accepted, Refused, Gone, Link
<1>7. Lookup => UNCHANGED taskVars
  BY DEF Lookup
<1> QED
  BY <1>1, <1>2, <1>3, <1>4, <1>5, <1>6, <1>7, LockAdvances DEF Next

\* OperationsAdvance of NinaStack: no operation goes back in its bounded sequence of
\* exchanges or lets another task in between two of them, for any number of tasks
\* and whatever fails.
THEOREM OperationsGoForward == Spec => OperationsAdvance
<1>1. TypeOK /\ Holds /\ [Next]_vars => [\A t \in Tasks : Advances(t)]_vars
  BY StepAdvances
<1>2. [\A t \in Tasks : Advances(t)]_vars =>
          [\A t \in Tasks :
              pc[t] # "caller" /\ pc'[t] # "caller" /\ <<pc[t], polls[t]>> # <<pc'[t], polls'[t]>> =>
                  /\ Rank(pc[t]) < Rank(pc'[t]) \/ (pc[t] = pc'[t] /\ polls[t] < polls'[t])
                  /\ pc[t] = "lock" \/ lock = t
                  /\ lock' = t]_vars
  BY DEF Advances
<1> QED
  BY <1>1, <1>2, BasicInit, BasicNext, PTL DEF Spec, OperationsAdvance

=============================================================================
