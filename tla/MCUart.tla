------------------------------- MODULE MCUart -------------------------------
EXTENDS Uart

\* Two bytes that fit the ring and three that do not, so that uart_putc waits
\* for the handler.
MCRequests == {<<0, 1, 1>>}
=============================================================================
