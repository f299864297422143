---------------------------- MODULE MCUartConfig ----------------------------
(* Small instances of UartConfig for TLC. *)
EXTENDS UartConfig

\* An absent option: any number that is not a natural one.
MCUnset == -1

=============================================================================
