---------------------------- MODULE Invitations ----------------------------
(***************************************************************************)
(* What the server promises about an invitation, whatever the service      *)
(* threads of its two clients do at the same time: it is offered, then     *)
(* either taken back or accepted; an accepted one is a game that is played *)
(* move by move to an end, closed exactly once, and its result is posted   *)
(* to the ratings at most once, only after it was closed.                  *)
(*                                                                         *)
(* Every action is one whole request here.  In module ClientOps the same   *)
(* request is several critical sections of a thread, and ClientOps is      *)
(* shown to implement this specification.                                  *)
(***************************************************************************)
EXTENDS Roles, Sequences

CONSTANT Invs       \* the INVITATION objects

VARIABLES
    istate,     \* "unused", then INV_OPEN/ACCEPTED/CLOSED_STATE
    started,    \* whether a GAME was created
    turn,       \* the game's role to move
    winner,     \* the game's winner
    results     \* results[i]: the winners posted to the ratings for game i

ivars == <<istate, started, turn, winner, results>>

InvState == {"unused", "open", "accepted", "closed"}

-----------------------------------------------------------------------------
IInit ==
    /\ istate  = [i \in Invs |-> "unused"]
    /\ started = [i \in Invs |-> FALSE]
    /\ turn    = [i \in Invs |-> NULL_ROLE]
    /\ winner  = [i \in Invs |-> NULL_ROLE]
    /\ results = [i \in Invs |-> << >>]

Become(i, s) == istate' = [istate EXCEPT ![i] = s]

Offer(i) ==
    /\ istate[i] = "unused"
    /\ Become(i, "open")
    /\ UNCHANGED <<started, turn, winner, results>>

\* Revoked by the source or declined by the target, before it is accepted.
TakeBack(i) ==
    /\ istate[i] = "open"
    /\ Become(i, "closed")
    /\ UNCHANGED <<started, turn, winner, results>>

Begin(i) ==
    /\ istate[i] = "open"
    /\ Become(i, "accepted")
    /\ started' = [started EXCEPT ![i] = TRUE]
    /\ turn' = [turn EXCEPT ![i] = FIRST_PLAYER_ROLE]
    /\ winner' = [winner EXCEPT ![i] = NULL_ROLE]
    /\ UNCHANGED results

MoveIn(i) ==
    /\ istate[i] = "accepted" /\ turn[i] # NULL_ROLE
    /\ \E o \in MoveOutcomes(turn[i]) :
           /\ turn' = [turn EXCEPT ![i] = o[1]]
           /\ winner' = [winner EXCEPT ![i] = o[2]]
    /\ UNCHANGED <<istate, started, results>>

\* The game ends: closed as it was decided on the board, or by resignation.
CloseDecided(i) ==
    /\ istate[i] = "accepted" /\ turn[i] = NULL_ROLE
    /\ Become(i, "closed")
    /\ UNCHANGED <<started, turn, winner, results>>

CloseResigned(i) ==
    /\ istate[i] = "accepted" /\ turn[i] # NULL_ROLE
    /\ Become(i, "closed")
    /\ turn' = [turn EXCEPT ![i] = NULL_ROLE]
    /\ winner' \in {[winner EXCEPT ![i] = r] : r \in PlayerRole}
    /\ UNCHANGED <<started, results>>

\* The result posted is the game's.  A game that was drawn on the board may
\* still be posted as a resignation that came before it was closed.
Post(i) ==
    /\ istate[i] = "closed" /\ started[i] /\ results[i] = << >>
    /\ \E v \in (IF winner[i] = NULL_ROLE THEN GameRole ELSE {winner[i]}) :
           results' = [results EXCEPT ![i] = <<v>>]
    /\ UNCHANGED <<istate, started, turn, winner>>

INext == \E i \in Invs :
    Offer(i) \/ TakeBack(i) \/ Begin(i) \/ MoveIn(i)
        \/ CloseDecided(i) \/ CloseResigned(i) \/ Post(i)

ISpec == IInit /\ [][INext]_ivars
=============================================================================
