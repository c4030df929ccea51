---------------------------- MODULE ByteStream ----------------------------
(***************************************************************************)
(* What a reader of a TCP connection is promised, without the chip, the    *)
(* mutex and the polling: the bytes of the peer come in their order, none  *)
(* twice, none invented.  Only an error may skip some of them, and the end *)
(* is told when the peer has closed and nothing is left, once and for all. *)
(***************************************************************************)
EXTENDS Naturals, Sequences

CONSTANT Streams

VARIABLES
    sent,       \* [Streams -> Nat], the bytes of the peer, numbered from 1
    over,       \* the peer sends no more
    given,      \* the bytes the reader was given
    passed,     \* the last byte given or skipped
    outcome     \* of the reader's last call, "none" while it has not ended

streamVars == <<sent, over, given, passed, outcome>>

Init ==
    /\ sent = [s \in Streams |-> 0]
    /\ over = [s \in Streams |-> FALSE]
    /\ given = [s \in Streams |-> <<>>]
    /\ passed = [s \in Streams |-> 0]
    /\ outcome = [s \in Streams |-> "none"]

Left(s) == sent[s] - passed[s]

Send(s) ==
    /\ ~over[s]
    /\ sent' = [sent EXCEPT ![s] = @ + 1]
    /\ UNCHANGED <<over, given, passed, outcome>>

Finish(s) ==
    /\ ~over[s]
    /\ over' = [over EXCEPT ![s] = TRUE]
    /\ UNCHANGED <<sent, given, passed, outcome>>

Ask(s) ==
    /\ outcome[s] # "eof"
    /\ outcome' = [outcome EXCEPT ![s] = "none"]
    /\ UNCHANGED <<sent, over, given, passed>>

\* The next bytes, at least one.
Give(s) ==
    /\ outcome[s] = "none"
    /\ \E k \in 1..Left(s) :
         /\ given' = [given EXCEPT ![s] = @ \o [i \in 1..k |-> passed[s] + i]]
         /\ passed' = [passed EXCEPT ![s] = @ + k]
    /\ outcome' = [outcome EXCEPT ![s] = "data"]
    /\ UNCHANGED <<sent, over>>

\* An error, and the bytes that it swallows.
Skip(s) ==
    /\ outcome[s] = "none"
    /\ \E k \in 0..Left(s) : passed' = [passed EXCEPT ![s] = @ + k]
    /\ outcome' = [outcome EXCEPT ![s] = "error"]
    /\ UNCHANGED <<sent, over, given>>

Tell(s) ==
    /\ outcome[s] = "none"
    /\ over[s] /\ Left(s) = 0
    /\ outcome' = [outcome EXCEPT ![s] = "eof"]
    /\ UNCHANGED <<sent, over, given, passed>>

Next == \E s \in Streams : Send(s) \/ Finish(s) \/ Ask(s) \/ Give(s) \/ Skip(s) \/ Tell(s)

Spec == Init /\ [][Next]_streamVars

=============================================================================
