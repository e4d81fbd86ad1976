------------------------------ MODULE MCLogger ------------------------------
(***************************************************************************)
(* Instances of Logger for TLC.                                             *)
(***************************************************************************)
EXTENDS Logger

CONSTANTS m, w1, w2, w3

\* Two threads meet in the table of two slots and in the one of four.
MCHashOf == [t \in Senders |-> IF t = w1 THEN 1 ELSE IF t = w3 THEN 3 ELSE 0]

Load(n0, n1, n2, n3, faults) ==
    [messages |-> [t \in Senders |-> IF t = m THEN n0 ELSE IF t = w1 THEN n1
                                     ELSE IF t = w2 THEN n2 ELSE n3],
     faults   |-> faults]

\* Three threads register at once, and their streams with the one of the main
\* thread are more than a scan takes; a main thread that logs itself; faults.
MCWorkloads == {Load(0, 2, 1, 1, 0), Load(1, 2, 0, 0, 2)}
=============================================================================
