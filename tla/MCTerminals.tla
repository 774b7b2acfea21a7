----------------------------- MODULE MCTerminals -----------------------------
EXTENDS Terminals

\* A text with every branch of write_r, longer than one character.
MCTexts == {<<97, LF>>}

\* The shell writes to USB and reads between its calls; two tasks write to the
\* radio while a key may come in; the shell reads lines with every line end.
MCScenarios ==
    {[dev |-> "usb", eol |-> <<CR>>, writers |-> {Shell}, keys |-> 1],
     [dev |-> "xbee", eol |-> <<CR>>, writers |-> Tasks, keys |-> 1],
     [dev |-> "usb", eol |-> <<CR, LF>>, writers |-> {}, keys |-> 3]}
    \cup [dev : {"xbee"}, eol : LineEnds, writers : {{}}, keys : {3}]
=============================================================================
