------------------------------ MODULE MCPlayers ------------------------------
(***************************************************************************)
(* Instances of Players for TLC.                                           *)
(***************************************************************************)
EXTENDS Players, TLC

\* Threads and names are interchangeable; addresses are ordered.
Symmetry == Permutations(Threads) \cup Permutations(Names)
=============================================================================
