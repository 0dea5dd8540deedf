--------------------------------- MODULE Elo ---------------------------------
(***************************************************************************)
(* The arithmetic of player_post_result, src/player.c: ratings are ints,   *)
(* the formula is in doubles, and what it yields is truncated to an int.   *)
(* It is exact for ratings less than 4000 points apart.                    *)
(***************************************************************************)
EXTENDS Integers, FiniteSets

PLAYER_INITIAL_RATING == 1500

Results == 0..2     \* 0 if draw, 1 if the first player won, 2 if the second

\* A player's score in 32nds of a point, as the first or second of a call.
Score32(result, n) == IF result = 0 THEN 16 ELSE IF result = n THEN 32 ELSE 0

(***************************************************************************)
(* 32 / (1 + 10^(d/400)) exceeds k exactly if the integer d is below       *)
(* 400 * log10((32 - k)/k), which is a real number and no integer but for  *)
(* k = 16: Bound(k) is the least integer that is not below it.             *)
(***************************************************************************)
UpperBounds == <<597, 471, 395, 339, 293, 255, 222, 191, 163, 137, 113, 89, 66, 44, 22>>
Bound(k) == IF k < 16 THEN UpperBounds[k]
            ELSE IF k = 16 THEN 0 ELSE 1 - UpperBounds[32 - k]

\* Mutant: rounded down, so that truncation favours both players.
Expected32Down(d) == Cardinality({k \in 1..31 : d < Bound(k)})

\* 32 times the expected score against an opponent who is d points better,
\* rounded up.  It is an integer itself for d = 0 only.
Expected32(d) == 1 + Cardinality({k \in 1..31 : d < Bound(k)})

\* rating += 32*(s-e): the sum is a double, truncated towards zero.
NewRating(own, other, score) ==
    LET low == own + score - Expected32(other - own)
    IN  IF low >= 0 \/ other = own THEN low ELSE low + 1

(***************************************************************************)
(* What a game does to two ratings that cannot go negative by it, before   *)
(* and after being functions from players to ratings.  Points go from one  *)
(* player to the other, and rounding loses at most one of them: none is    *)
(* ever made.  A winner never loses any; a loser loses 1 to 32.            *)
(***************************************************************************)
FairExchange(call, before, after) ==
    LET dp == after[call.first] - before[call.first]
        dq == after[call.second] - before[call.second]
    IN  before[call.first] >= 32 /\ before[call.second] >= 32 =>
            /\ dp + dq \in {-1, 0}
            /\ call.result = 1 => dp \in 0..31 /\ dq \in -32..-1
            /\ call.result = 2 => dq \in 0..31 /\ dp \in -32..-1
=============================================================================
