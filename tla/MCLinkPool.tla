----------------------------- MODULE MCLinkPool -----------------------------
(* Small instances of LinkPool for TLC. *)
EXTENDS LinkPool, TLC

Symmetry == Permutations(Macs) \cup Permutations(Ips) \cup Permutations(Links)

=============================================================================
