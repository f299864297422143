---------------------------- MODULE MCUartPorts -----------------------------
(* Small instances of UartPorts for TLC. *)
EXTENDS UartPorts, TLC

=============================================================================
