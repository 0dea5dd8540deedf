------------------------------- MODULE Ratings -------------------------------
(***************************************************************************)
(* What player_post_result of src/player.h promises: the result of a game  *)
(* between two players changes both ratings in one step, by the formula of *)
(* that header, each of them from what the other one was just before.      *)
(* A player is rated from its first LOGIN on, and stays so.                *)
(***************************************************************************)
EXTENDS Elo

CONSTANTS
    Rated,      \* the players that may ever be rated
    Threads,    \* the threads that post results
    NoCall

VARIABLES
    ratings,    \* the rating of every player there is: a function on players
    calls       \* calls[t]: the player_post_result that thread t is in

rvars == <<ratings, calls>>

Posted(call) ==
    LET p == call.first
        q == call.second
    IN  [ratings EXCEPT ![p] = NewRating(ratings[p], ratings[q], Score32(call.result, 1)),
                        ![q] = NewRating(ratings[q], ratings[p], Score32(call.result, 2))]

-----------------------------------------------------------------------------
RInit == ratings = [p \in {} |-> 0] /\ calls = [t \in Threads |-> NoCall]

Rate(p) ==
    /\ ratings' = [q \in DOMAIN ratings \cup {p} |->
                      IF q = p THEN PLAYER_INITIAL_RATING ELSE ratings[q]]
    /\ UNCHANGED calls

Calls == [first : DOMAIN ratings, second : DOMAIN ratings, result : Results]

Call(t) ==
    /\ calls[t] = NoCall
    /\ calls'[t] \in Calls /\ calls'[t].first # calls'[t].second
    /\ calls' = [calls EXCEPT ![t] = calls'[t]]
    /\ UNCHANGED ratings

Post(t) ==
    /\ calls[t] # NoCall
    /\ ratings' = Posted(calls[t])
    /\ calls' = [calls EXCEPT ![t] = NoCall]

RNext ==
    \/ \E t \in Threads : Call(t) \/ Post(t)
    \/ \E p \in Rated \ DOMAIN ratings : Rate(p)

RSpec == RInit /\ [][RNext]_rvars

=============================================================================
