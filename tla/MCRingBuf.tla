------------------------------ MODULE MCRingBuf ------------------------------
EXTENDS RingBuf

\* Requests that fit, that wrap and that are cut short by a ring of four
\* slots; two byte values tell any two positions of a stream apart.
MCWrites == {<<0>>, <<1>>, <<0, 1>>, <<1, 0, 0>>, <<1, 1, 0, 1>>}
=============================================================================
