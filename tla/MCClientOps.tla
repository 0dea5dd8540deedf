----------------------------- MODULE MCClientOps -----------------------------
(***************************************************************************)
(* Instances of ClientOps for TLC.                                         *)
(***************************************************************************)
EXTENDS ClientOps, TLC

\* Clients, players and invitations are interchangeable.
Symmetry == Permutations(Clients) \cup Permutations(Players) \cup Permutations(Invs)
=============================================================================
