----------------------------- MODULE MCWsServer -----------------------------
(* Small instances of WsServer for TLC. *)
EXTENDS WsServer, TLC

CONSTANTS f1, f2, q1, q2

\* Every FID of the instance is routed to one queue, as the UART FIDs are.
MCRoutes == Fids \X {q1}

\* Two FIDs of different peripherals, as a Modbus and a UART FID are.
MCTwoPeripherals == {<<f1, q1>>, <<f2, q2>>}

Symmetry == Permutations(Fds) \cup Permutations(Sessions) \cup Permutations(Calls)

=============================================================================
