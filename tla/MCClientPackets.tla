--------------------------- MODULE MCClientPackets ---------------------------
(***************************************************************************)
(* An instance of ClientPackets for TLC.                                   *)
(***************************************************************************)
EXTENDS ClientPackets, TLC

\* Clients and players are interchangeable; there is one invitation.
Symmetry == Permutations(Clients) \cup Permutations(Players)
=============================================================================
