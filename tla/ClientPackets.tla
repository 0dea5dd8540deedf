---------------------------- MODULE ClientPackets ----------------------------
(***************************************************************************)
(* What the operations of src/client.c tell the clients: module ClientOps  *)
(* with the packets that its steps send to tell a client of something that *)
(* has happened to an invitation of its.  ACK and NACK answer the client's *)
(* own packets and are left out; RESIGNED goes together with ENDED.        *)
(*                                                                         *)
(* A thread sends such a packet after the critical sections that changed   *)
(* the state, so the packets of two threads may arrive in another order.   *)
(***************************************************************************)
EXTENDS ClientOps

VARIABLES
    sent,   \* sent[i][d]: what client d was told of invitation i
    shown   \* shown[i]: who has been shown the board of game i as it is now

pvars == <<vars, sent, shown>>

Kind == {"INVITED", "REVOKED", "DECLINED", "ACCEPTED", "MOVED", "ENDED"}

\* Mutant of Packets: who makes the decisive move is not told of the end.
PacketsToOther(c) ==
    LET i == cur[c] IN
    CASE pc[c] = "invite_end" -> {<<target[i], "INVITED">>}
      [] pc[c] = "notify" -> {<<Peer(c, i), IF source[i] = c THEN "REVOKED" ELSE "DECLINED">>}
      [] pc[c] = "acc_tell" -> {<<source[i], "ACCEPTED">>}
      [] pc[c] = "mv_tell" -> {<<Peer(c, i), "MOVED">>}
      [] pc[c] = "post" -> {<<Peer(c, i), "ENDED">>}
      [] OTHER -> {}

\* The packets of thread c's next step, each with the client it goes to.
Packets(c) ==
    LET i == cur[c] IN
    CASE pc[c] = "invite_end" -> {<<target[i], "INVITED">>}
      [] pc[c] = "notify" -> {<<Peer(c, i), IF source[i] = c THEN "REVOKED" ELSE "DECLINED">>}
      [] pc[c] = "acc_tell" -> {<<source[i], "ACCEPTED">>}
      [] pc[c] = "mv_tell" -> {<<Peer(c, i), "MOVED">>}
      [] pc[c] = "post" -> {<<c, "ENDED">>, <<Peer(c, i), "ENDED">>}
      [] OTHER -> {}

\* Mutant of Shows: ACCEPTED always carries the board, and ACK never.
ShowsSource(c) ==
    LET i == cur[c] IN
    CASE pc[c] = "acc_tell" -> {source[i]}
      [] pc[c] = "mv_tell" -> {Peer(c, i)}
      [] OTHER -> {}

\* Who is shown what game_unparse_state returns in thread c's next step: the
\* new game goes to who moves first, with ACCEPTED or with the ACK that the
\* thread has yet to send; a move to the other player.  The state is read just
\* before it is sent, when nobody but that player can move.
Shows(c) ==
    LET i == cur[c] IN
    CASE pc[c] = "acc_tell" -> {IF role[i] = FIRST_PLAYER_ROLE THEN target[i] ELSE source[i]}
      [] pc[c] = "mv_tell" -> {Peer(c, i)}
      [] OTHER -> {}

\* A game has any number of moves: a run of MOVED packets counts as one.
Hear(story, k) ==
    IF k = "MOVED" /\ story # << >> /\ story[Len(story)] = "MOVED"
    THEN story ELSE Append(story, k)

PInit ==
    /\ Init
    /\ sent = [i \in Invs |-> [d \in Clients |-> << >>]]
    /\ shown = [i \in Invs |-> {}]

PWork(c) ==
    /\ Work(c)
    /\ sent' = [i \in Invs |-> [d \in Clients |->
                   IF i = cur[c] /\ \E k \in Kind : <<d, k>> \in Packets(c)
                   THEN Hear(sent[i][d], CHOOSE k \in Kind : <<d, k>> \in Packets(c))
                   ELSE sent[i][d]]]
    /\ shown' = [i \in Invs |->
                    IF i # cur[c] THEN shown[i]
                    ELSE IF pc[c] = "move" /\ pc'[c] = "mv_tell" THEN {}
                    ELSE shown[i] \cup Shows(c)]

PRecv(c) == Recv(c) /\ UNCHANGED <<sent, shown>>

PNext == fault = "none" /\ \E c \in Clients : PRecv(c) \/ PWork(c)

PSpec == PInit /\ [][PNext]_pvars

-----------------------------------------------------------------------------
Told(i, d, k) == \E n \in DOMAIN sent[i][d] : sent[i][d][n] = k

LoggedOut(d) == pc[d] \in {"unreg", "free", "gone"}

\* What a client is told of a game: that there is one (first), then the moves of
\* the other player, then its end.  MOVED comes twice when ENDED comes between.
GameStories(first) ==
    { << >>, <<first>>, <<first, "MOVED">>,
      <<"ENDED">>, <<"ENDED", first>>, <<first, "ENDED">>, <<first, "ENDED", "MOVED">>,
      <<first, "MOVED", "ENDED">>, <<first, "MOVED", "ENDED", "MOVED">> }

(***************************************************************************)
(* A client is told one story of an invitation, in this order, whoever     *)
(* sends the packets: the source that it was declined, or accepted and     *)
(* then the moves; the target that it was invited, and then the moves or   *)
(* that the invitation was revoked.  ENDED comes once, and not after       *)
(* DECLINED or REVOKED.  It may come early, for it is sent by whoever ends *)
(* the game: after it comes at most one packet, which the other client's   *)
(* thread had in hand already.  A target that had logged out before the    *)
(* invitation reached it is told of the revocation alone.                  *)
(***************************************************************************)
OneStory ==
    \A i \in Invs, d \in Clients :
        sent[i][d] \in
            IF d = source[i] THEN GameStories("ACCEPTED") \cup {<<"DECLINED">>}
            ELSE IF d # target[i] THEN {<< >>}
            ELSE GameStories("INVITED") \cup {<<"INVITED", "REVOKED">>}
                     \cup (IF LoggedOut(d) THEN {<<"REVOKED">>} ELSE {})

(***************************************************************************)
(* Nobody is left out.  When both ends of an invitation are connected and  *)
(* their threads wait for packets, each has been told what the other did   *)
(* with it: the target that it was invited; the source that the game is    *)
(* on; one of the two that the other one took the invitation back, or both *)
(* that the game is over, and neither that a game is over which is not.    *)
(***************************************************************************)
NobodyLeftOut ==
    \A i \in {j \in Invs : istate[j] # "unused"} :
        LET s == source[i]
            t == target[i]
            ended == istate[i] = "closed" /\ started[i]
        IN  pc[s] = "idle" /\ pc[t] = "idle" =>
                /\ Told(i, t, "INVITED")
                /\ started[i] => Told(i, s, "ACCEPTED")
                /\ Told(i, s, "ENDED") <=> ended
                /\ Told(i, t, "ENDED") <=> ended
                /\ istate[i] = "closed" /\ ~started[i] =>
                       \/ Told(i, t, "REVOKED") /\ ~Told(i, s, "DECLINED")
                       \/ Told(i, s, "DECLINED") /\ ~Told(i, t, "REVOKED")

(***************************************************************************)
(* Who is to move knows the board.  While a game is on and both threads    *)
(* wait for packets, the player whose turn it is has been shown the board  *)
(* as it is: by ACCEPTED or the ACK of ACCEPT if the game is new, which of *)
(* the two being decided by the target's role, and by MOVED later on.      *)
(***************************************************************************)
MoverIsShown ==
    \A i \in {j \in Invs : turn[j] # NULL_ROLE} :
        \A d \in {source[i], target[i]} :
            pc[source[i]] = "idle" /\ pc[target[i]] = "idle" /\ RoleOf(d, i) = turn[i]
                => d \in shown[i]

(***************************************************************************)
(* A move that was made is answered NACK when the opponent's thread closed *)
(* the game before the mover's looked: it resigned, or moved on to the end *)
(* of the game.  That never costs the mover the game: what the opponent's  *)
(* thread has posted or, with the invitation in hand, is going to post is  *)
(* the winner on the board, or else the mover.                             *)
(***************************************************************************)
RefusedMoveCounts ==
    [][\A c \in Clients : pc[c] = "mv_over" /\ pc'[c] = "refuse" =>
           LET i == cur[c]
               d == Peer(c, i)
           IN  \E v \in {RoleOf(c, i), winner[i]} :
                   \/ results[i] = <<v>>
                   \/ pc[d] \in Ending /\ cur[d] = i /\ verdict[d] = v]_pvars
=============================================================================
