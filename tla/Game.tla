-------------------------------- MODULE Game --------------------------------
(***************************************************************************)
(* The GAME object of src/game.c: a tic-tac-toe board, the role to move    *)
(* and the winner.  Every operation runs under the game's own mutex, so    *)
(* each is one action; the participants' threads may call them in any      *)
(* order, at any time, with any legal GAME_MOVE.                           *)
(***************************************************************************)
EXTENDS Roles, FiniteSets

VARIABLES
    board,      \* board[p]: the role that holds cell p, or NULL_ROLE
    turn,       \* the role to move, NULL_ROLE once the game is over
    winner      \* the winning role, NULL_ROLE if none (yet)

vars == <<board, turn, winner>>

\* GAME_MOVE positions are 1..9 (game_parse_move refuses all others).
Pos == 1..9

\* game_wins, shifted by one to the positions of a GAME_MOVE.
Lines == { {1,2,3}, {4,5,6}, {7,8,9},
           {1,4,7}, {2,5,8}, {3,6,9},
           {1,5,9}, {3,5,7} }

HasLine(b, r) == \E line \in Lines : \A p \in line : b[p] = r

Full(b) == \A p \in Pos : b[p] # NULL_ROLE

\* Which error returns of game_apply_move let a move through.
\* Mutant: it forgets to look whose turn it is.
LegalAnyTurn(r, p) == turn # NULL_ROLE /\ board[p] = NULL_ROLE
Legal(r, p) == r = turn /\ board[p] = NULL_ROLE

-----------------------------------------------------------------------------
Init ==
    /\ board = [p \in Pos |-> NULL_ROLE]
    /\ turn = FIRST_PLAYER_ROLE
    /\ winner = NULL_ROLE

\* Mutants of ApplyMove: a line does not end the game; a full board does not.
ApplyMoveOnwards(r, p) ==
    /\ Legal(r, p)
    /\ board' = [board EXCEPT ![p] = r]
    /\ turn' = IF Full(board') THEN NULL_ROLE ELSE Other(turn)
    /\ winner' = IF HasLine(board', r) THEN r ELSE winner

ApplyMoveNoTie(r, p) ==
    /\ Legal(r, p)
    /\ board' = [board EXCEPT ![p] = r]
    /\ turn' = IF HasLine(board', r) THEN NULL_ROLE ELSE Other(turn)
    /\ winner' = IF HasLine(board', r) THEN r ELSE winner

\* game_apply_move for a legal move: place, pass the turn, look for a line
\* of the mover, then for a full board that nobody won.
ApplyMove(r, p) ==
    /\ Legal(r, p)
    /\ board' = [board EXCEPT ![p] = r]
    /\ turn' = IF HasLine(board', r) \/ Full(board') THEN NULL_ROLE ELSE Other(turn)
    /\ winner' = IF HasLine(board', r) THEN r
                 ELSE IF Full(board') THEN NULL_ROLE ELSE winner

\* game_apply_move out of turn or on a taken cell: an error, nothing changes.
RejectMove(r, p) ==
    /\ ~Legal(r, p)
    /\ UNCHANGED vars

\* Mutants of Resign: the winner is r+1; a game that is over is resigned too.
ResignNext(r) ==
    /\ turn # NULL_ROLE
    /\ turn' = NULL_ROLE
    /\ winner' = r + 1
    /\ UNCHANGED board

ResignLate(r) ==
    /\ turn' = NULL_ROLE
    /\ winner' = Other(r)
    /\ UNCHANGED board

\* game_resign by role r, and its error return when the game is over.
Resign(r) ==
    /\ turn # NULL_ROLE
    /\ turn' = NULL_ROLE
    /\ winner' = Other(r)
    /\ UNCHANGED board

RejectResign(r) ==
    /\ turn = NULL_ROLE
    /\ UNCHANGED vars

Next == \E r \in PlayerRole :
            \/ \E p \in Pos : ApplyMove(r, p) \/ RejectMove(r, p)
            \/ Resign(r)
            \/ RejectResign(r)

Spec == Init /\ [][Next]_vars

-----------------------------------------------------------------------------
Cells(r) == {p \in Pos : board[p] = r}

TypeOK ==
    /\ board \in [Pos -> GameRole]
    /\ turn \in GameRole
    /\ winner \in GameRole

(***************************************************************************)
(* The turn agrees with the pieces on the board: FIRST moves on a balanced *)
(* board, SECOND when FIRST is one ahead, and however the game ended       *)
(* nobody has ever moved twice in a row.                                   *)
(***************************************************************************)
TurnMatchesBoard ==
    LET x == Cardinality(Cells(FIRST_PLAYER_ROLE))
        o == Cardinality(Cells(SECOND_PLAYER_ROLE))
    IN  /\ turn = FIRST_PLAYER_ROLE => x = o
        /\ turn = SECOND_PLAYER_ROLE => x = o + 1
        /\ turn = NULL_ROLE => x \in {o, o + 1}

(***************************************************************************)
(* A completed line ends the game at once in favour of its owner, so two   *)
(* roles never both have a line.  (game_apply_move looks for lines of the  *)
(* mover only, and only right after the move.)                             *)
(***************************************************************************)
LineDecides == \A r \in PlayerRole : HasLine(board, r) => turn = NULL_ROLE /\ winner = r

(***************************************************************************)
(* A game in progress has no winner yet and somewhere to move; a game that *)
(* ended without a winner filled the board.  A player is therefore never   *)
(* asked to move on a full board, where every move would be refused.       *)
(***************************************************************************)
NoStalemate ==
    /\ turn # NULL_ROLE => winner = NULL_ROLE /\ ~Full(board)
    /\ turn = NULL_ROLE /\ winner = NULL_ROLE => Full(board)

\* The game as its users see it.
Outcome == INSTANCE GameOutcome

\* Every game plays as GameOutcome says; in particular a finished game stays
\* as it ended and only FIRST_PLAYER_ROLE can draw it.
ImplementsOutcome == Outcome!OutcomeSpec
=============================================================================
