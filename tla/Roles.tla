------------------------------- MODULE Roles -------------------------------
(***************************************************************************)
(* The GAME_ROLE enumeration and the arithmetic the server does on it.     *)
(*                                                                         *)
(* A two-player game gives one participant FIRST_PLAYER_ROLE and the other *)
(* SECOND_PLAYER_ROLE.  NULL_ROLE is the sentinel: an empty cell, "nobody  *)
(* is to move", "there is no winner".                                      *)
(***************************************************************************)
EXTENDS Naturals

NULL_ROLE          == 0
FIRST_PLAYER_ROLE  == 1
SECOND_PLAYER_ROLE == 2

PlayerRole == {FIRST_PLAYER_ROLE, SECOND_PLAYER_ROLE}
GameRole   == {NULL_ROLE} \cup PlayerRole

\* The other participant's role, written role%2+1 throughout the code.
Other(role) == (role % 2) + 1

(***************************************************************************)
(* What a legal move by `role' may do to <<turn, winner>>: hand the turn   *)
(* over, win, or fill the last cell without winning.  The board has nine   *)
(* cells, so only the player who moves first can fill the last one.        *)
(***************************************************************************)
MoveOutcomes(role) ==
    {<<Other(role), NULL_ROLE>>, <<NULL_ROLE, role>>} \cup
    (IF role = FIRST_PLAYER_ROLE THEN {<<NULL_ROLE, NULL_ROLE>>} ELSE {})
=============================================================================
