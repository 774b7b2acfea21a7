----------------------------- MODULE MCBootUpdate -----------------------------
EXTENDS BootUpdate

\* Two sectors; a file of two sections, the first of which is longer than the
\* window; an application that is shorter than the new one.
MCSectors  == <<{1, 2}, {3}>>
MCSections == <<<<1, 2>>, <<3>>>>
MCOldImage == {1, 2}
=============================================================================
