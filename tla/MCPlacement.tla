----------------------------- MODULE MCPlacement -----------------------------
(***************************************************************************)
(* Instances of Placement for TLC.                                          *)
(***************************************************************************)
EXTENDS Placement

\* A storage with little room, one with enough, one that cannot be joined, and
\* one more at the address of the second.
FourStorages ==
    <<[addr |-> "b", space |-> 1], [addr |-> "a", space |-> 9],
      [addr |-> "c", space |-> 9], [addr |-> "a", space |-> 9]>>

\* Two entries; what is larger has no number of parts.
TwoEntries == <<[size |-> 3, nb |-> 1], [size |-> 7, nb |-> 3]>>

SomeRequests ==
    {[fsize |-> 3, rdcy |-> 1], [fsize |-> 7, rdcy |-> 2], [fsize |-> 8, rdcy |-> 1]}

\* The parts of every file fit it here, as the proof about the turns assumes.
ASSUME TableFits ==
    \A r \in Requests : NumberOfParts(r.fsize) # 0 =>
        FitParts(r.fsize, NumberOfParts(r.fsize))
=============================================================================
