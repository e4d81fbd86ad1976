--------------------------- MODULE MCImplicitQueue ---------------------------
(***************************************************************************)
(* Instances of ImplicitQueue for TLC.                                      *)
(***************************************************************************)
EXTENDS ImplicitQueue

CONSTANTS p1, p2, c1, c2, b1

\* The first block is from the pool.
MCPool == <<b1>>

Load(n1, n2, by) ==
    [sent |-> [p \in Producers |-> IF p = p1 THEN n1 ELSE n2], by |-> by]

\* A stream whose index grows, for two consumers and for one; two streams for
\* one consumer, as in the logger; and for two.
MCWorkloads ==
    {Load(5, 0, Consumers), Load(1, 1, Consumers)}
        \union {Load(7, 0, {c}) : c \in Consumers}
        \union {Load(3, 1, {c}) : c \in Consumers}

ConsumerSymmetry == Permutations(Consumers)
=============================================================================
