------------------------------ MODULE MCPackets ------------------------------
EXTENDS Packets

\* An id of one byte, the least or the greatest one, with up to two bytes of data.
MCMessages == {m \in UNION {[1 .. n -> Bytes] : n \in 1 .. 3} : m[1] \in {0, ByteMax}}

\* One byte that depends on all others and on their places.
MCCrc(s) == <<(FoldLeft(LAMBDA sum, b : 2 * sum + b, 1, s) + Len(s)) % (ByteMax + 1)>>
=============================================================================
