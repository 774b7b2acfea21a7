------------------------------- MODULE MCFlight -------------------------------
EXTENDS Flight

\* A receiver, a receiver that is not implemented, and none.
MCRcModes == {"PPM", "DSM2", "NONE"}

\* Limit errors only switch the outputs off on top of everything else.
MCMeasurements == {<<"normal", FALSE>>}
=============================================================================
