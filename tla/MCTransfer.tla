----------------------------- MODULE MCTransfer -----------------------------
(***************************************************************************)
(* Instances of Transfer for TLC.                                           *)
(***************************************************************************)
EXTENDS Transfer, TLC

CONSTANTS s1, s2

\* Two parts for one storage and one for the other.
ThreeParts == <<[addr |-> s1, nb |-> 2], [addr |-> s2, nb |-> 1]>>

\* The parts fit the file here, as the proofs about its layout assume.
ASSUME LayoutFits == FitParts(Size, NbParts)
=============================================================================
