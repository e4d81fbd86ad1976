--------------------------- MODULE MessageStreams ---------------------------
(***************************************************************************)
(* What a ConcurrentQueue without tokens promises: every thread that        *)
(* enqueues has a stream of its own, first in first out, and an element     *)
(* that was enqueued is handed to one consumer.  Between streams no order   *)
(* is promised.                                                             *)
(***************************************************************************)
EXTENDS Sequences

CONSTANTS
    Producers,
    Consumers,
    Messages, \* of each producer: what it may enqueue
    NoMessage

VARIABLES
    stream, \* of each producer: what it enqueued and nobody has taken
    hand    \* what each consumer has taken and not yet returned

streamVars == <<stream, hand>>

Init ==
    /\ stream = [p \in Producers |-> <<>>]
    /\ hand = [c \in Consumers |-> NoMessage]

Enqueue(p, m) ==
    /\ stream' = [stream EXCEPT ![p] = Append(@, m)]
    /\ UNCHANGED hand

\* The element leaves its stream for the consumer that claimed it ...
Dequeue(c, p) ==
    /\ hand[c] = NoMessage /\ stream[p] # <<>>
    /\ hand' = [hand EXCEPT ![c] = Head(stream[p])]
    /\ stream' = [stream EXCEPT ![p] = Tail(@)]

\* ... which returns it to its caller.
Return(c) ==
    /\ hand[c] # NoMessage
    /\ hand' = [hand EXCEPT ![c] = NoMessage]
    /\ UNCHANGED stream

Next ==
    \/ \E p \in Producers : \E m \in Messages[p] : Enqueue(p, m)
    \/ \E c \in Consumers, p \in Producers : Dequeue(c, p)
    \/ \E c \in Consumers : Return(c)

Spec == Init /\ [][Next]_streamVars
=============================================================================
