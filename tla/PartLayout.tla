----------------------------- MODULE PartLayout -----------------------------
(***************************************************************************)
(* The arithmetic of parts: how long part i of a file is, where the client  *)
(* cuts it out of the file and where it puts it back, and the chunks over   *)
(* which a buffer is hashed.  Sizes are divided as floats.                  *)
(***************************************************************************)
EXTENDS Integers

CONSTANTS
    FloatBits,  \* significant bits of a float: 24
    WordBits,   \* bits of partsize_type and size_t: 64
    HashChunk   \* the size that parts_for_hashing_size divides by: 1000000

ASSUME LayoutAssumption ==
    /\ FloatBits \in Nat \ {0}
    /\ WordBits \in Nat
    /\ HashChunk \in Nat \ {0}

CeilDiv(a, b) == (a + b - 1) \div b

\* The multiple of 2^k that is nearest to a / b; a tie goes to the even one.
RoundTo(a, b, k) ==
    LET d == b * 2^k
        q == a \div d
        twice == 2 * (a % d)
    IN  2^k * (IF twice > d \/ (twice = d /\ q % 2 = 1) THEN q + 1 ELSE q)

\* a / b as a float, if that is at least 1: FloatBits significant bits.
ToFloat(a, b) ==
    RoundTo(a, b, CHOOSE k \in 0 .. WordBits :
                      /\ a < b * 2^(FloatBits + k)
                      /\ k > 0 => a >= b * 2^(FloatBits + k - 1))

\* std::ceil((float)size / parts): size becomes a float, then the quotient.  The
\* quotient is kept in units of 2^-FloatBits; one below 1 has the ceiling 1.
CeilFloat(size, parts) ==
    LET unit == 2^FloatBits
        s == ToFloat(size, 1)
    IN  IF s < parts THEN (IF s = 0 THEN 0 ELSE 1)
        ELSE CeilDiv(ToFloat(s * unit, parts), unit)

\* Mutant of LastCut: the last part is as long as the others.
LastCutNone(size, offset, length) == length

\* What get_part_size and part_size_for_hashing_size do to the last part; the
\* types are unsigned.
LastCut(size, offset, length) ==
    IF offset + length > size
    THEN (length - (offset + length - size)) % 2^WordBits
    ELSE length

\* get_part_size.
PartSize(fsize, partnum, parts) ==
    LET length == CeilFloat(fsize, parts)
    IN  IF partnum = parts - 1 THEN LastCut(fsize, partnum * length, length)
        ELSE length

\* Mutant of UploadOffset: parts start where the part before ends.
UploadOffsetCeil(fsize, partnum, parts) == CeilFloat(fsize, parts) * partnum

\* Where send_parts takes part partnum from.
UploadOffset(fsize, partnum, parts) == (fsize \div parts) * partnum

\* Where recv_part puts it, from the number of parts the master listed.
DownloadOffset(fsize, partnum, listed) == partnum * (fsize \div listed)

\* hash_buffer_hex: the chunks of a buffer.
HashParts(size) == IF size < HashChunk THEN 1 ELSE size \div HashChunk
HashPartSize(size, i) ==
    LET length == CeilFloat(size, HashParts(size))
    IN  IF i = HashParts(size) - 1 THEN LastCut(size, i * length, length)
        ELSE length
HashOffset(size, i) == i * CeilFloat(size, HashParts(size))

\* Bytes offset .. offset + length - 1.
Bytes(offset, length) == offset .. offset + length - 1

\* What the layout of get_part_size has to give: no part is shorter than the
\* quotient at which the parts start, and all of them together exceed the file by
\* one quotient at most, so that the last is cut to no less than nothing.
FitParts(size, parts) ==
    LET length == CeilFloat(size, parts)
    IN  /\ length \in Nat
        /\ length >= size \div parts
        /\ parts * length <= size + size \div parts
        /\ size < 2^WordBits
=============================================================================
