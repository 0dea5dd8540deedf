----------------------------- MODULE GameOutcome -----------------------------
(***************************************************************************)
(* What a GAME promises to the rest of the server: whose turn it is and,   *)
(* once it is over, who won.  The board is hidden; module Game implements  *)
(* this specification, and the modules that play many games at once use it *)
(* in place of the board.                                                  *)
(***************************************************************************)
EXTENDS Roles

VARIABLES turn, winner
gvars == <<turn, winner>>

OutcomeInit == turn = FIRST_PLAYER_ROLE /\ winner = NULL_ROLE

Playing == turn # NULL_ROLE

Play == Playing /\ <<turn', winner'>> \in MoveOutcomes(turn)

Concede == /\ Playing
           /\ turn' = NULL_ROLE
           /\ winner' \in PlayerRole

OutcomeNext == Play \/ Concede

OutcomeSpec == OutcomeInit /\ [][OutcomeNext]_gvars
=============================================================================
