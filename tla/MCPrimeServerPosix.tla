-------------------------- MODULE MCPrimeServerPosix --------------------------
(* PrimeServerPosix with interchangeable clients and names. *)
EXTENDS PrimeServerPosix, TLC

Symmetry == Permutations(Clients) \cup Permutations(Names)
=============================================================================
