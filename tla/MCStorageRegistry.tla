-------------------------- MODULE MCStorageRegistry --------------------------
(***************************************************************************)
(* Instances of StorageRegistry for TLC.                                    *)
(***************************************************************************)
EXTENDS StorageRegistry, TLC

CONSTANTS h1, h2, h3

\* The storages report different amounts of space.
MCAvSpace == [h \in Hosts |-> IF h = h1 THEN 1 ELSE IF h = h2 THEN 2 ELSE 4]

\* The starts of storages and the faults are four in all.
FourEvents == FoldFunction(+, faults, boots) <= 4
\* SerialSpec within that bound, and with fairness.
OneRegistersSpec ==
    Init /\ [][Next /\ (OneRegisters /\ FourEvents)']_vars /\ Fairness
=============================================================================
