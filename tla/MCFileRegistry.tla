---------------------------- MODULE MCFileRegistry ----------------------------
(***************************************************************************)
(* Instances of FileRegistry for TLC.                                       *)
(***************************************************************************)
EXTENDS FileRegistry, TLC

CONSTANTS u1, u2, u3, u4

\* u1 and u2 ask for the same name, u3 for another one.
SameBase == [u \in Uploads |-> IF u = u3 THEN "b" ELSE "a"]
\* Every upload asks for a name of its own.
OwnBase == [u \in Uploads |-> IF u = u1 THEN "a" ELSE IF u = u2 THEN "b" ELSE "c"]

\* The first upload has two parts, the last is of a size beyond the table.
MCNbParts == [u \in Uploads |-> IF u = u1 THEN 2 ELSE IF u = u4 THEN 0 ELSE 1]
\* The third upload asks for more redundancy than there are parts.
MCRdcy == [u \in Uploads |-> IF u = u3 THEN 2 ELSE 1]
OneCopy == [u \in Uploads |-> 1]

\* Two of the requests are made.
TwoRequests ==
    Cardinality({u \in Uploads : upload[u] # "new"})
        + Cardinality({d \in Downloads : download[d] # "new"}) <= 2
\* SerialSpec within that bound, and with fairness.
OneCreatesSpec ==
    Init /\ [][Next /\ (OneCreates /\ TwoRequests)']_vars /\ Fairness
=============================================================================
