----------------------------- MODULE IdAllocator -----------------------------
(***************************************************************************)
(* What the registration of storages promises: numbers are handed out one   *)
(* after the other, each belongs to one storage for ever, and a storage     *)
(* only ever holds a number of its own and never exchanges it.              *)
(***************************************************************************)
EXTENDS Integers

CONSTANTS Hosts,  \* the storages
          None    \* a storage holds no number

VARIABLES next,   \* the first number that is free
          owner,  \* the storage each number below next belongs to
          held    \* the number each storage holds

vars == <<next, owner, held>>

Init ==
    /\ next = 0
    /\ owner = [i \in 0 .. -1 |-> None]
    /\ held = [h \in Hosts |-> None]

\* The next number becomes h's.  A storage may be given several over time.
Allocate(h) ==
    /\ next' = next + 1
    /\ owner' = [i \in 0 .. next |-> IF i = next THEN h ELSE owner[i]]
    /\ UNCHANGED held

\* h takes one of its numbers.
Take(h) ==
    /\ held[h] = None
    /\ \E n \in 0 .. next - 1 :
        /\ owner[n] = h
        /\ held' = [held EXCEPT ![h] = n]
    /\ UNCHANGED <<next, owner>>

Next == \E h \in Hosts : Allocate(h) \/ Take(h)

Spec == Init /\ [][Next]_vars
=============================================================================
