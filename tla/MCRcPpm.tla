------------------------------- MODULE MCRcPpm -------------------------------
EXTENDS RcPpm

\* Glitches while the handler is a little late; frames that break off, while it
\* is so late that it misses edges; and frames of any length, endless ones too.
MCScenarios ==
    {[latency |-> 1, glitches |-> TRUE,  long |-> FALSE],
     [latency |-> 4, glitches |-> FALSE, long |-> FALSE],
     [latency |-> 1, glitches |-> FALSE, long |-> TRUE]}
=============================================================================
