------------------------------ MODULE ClientOps ------------------------------
(***************************************************************************)
(* The operations of src/client.c on invitations and games, as the service *)
(* threads of src/server.c call them: one thread per connected client, all *)
(* of them working on each other's CLIENT, INVITATION and GAME objects.    *)
(*                                                                         *)
(* One step of a thread is one critical section, or several neighbouring   *)
(* ones when those in between touch nothing another thread can change.  A  *)
(* thread blocks where the code does: on log_mutex (logm), on the client   *)
(* registry's mutex (crm), and on the mutex of a client whose own thread   *)
(* is in client_logout, which holds it for the whole loop.                 *)
(*                                                                         *)
(* The model stops at the first access the code may not make (fault): what *)
(* the process does after that is undefined.                               *)
(***************************************************************************)
EXTENDS Roles, Integers, Sequences, FiniteSets

CONSTANTS
    Clients,        \* CLIENT objects; each has the service thread of its name
    Players,        \* PLAYER objects, one per user name
    Invs,           \* INVITATION objects: bounds how many are ever made
    InviteRoles,    \* the role bytes that INVITE packets carry
    NoClient, NoPlayer, NoInv

ASSUME NullAssumption ==
    NoClient \notin Clients /\ NoPlayer \notin Players /\ NoInv \notin Invs

\* At any time a process has made finitely many objects.
ASSUME ObjectsAssumption == IsFiniteSet(Clients) /\ IsFiniteSet(Invs)

\* header.role is a byte, and the server does not check it.
ASSUME InviteRolesAssumption == InviteRoles \subseteq 0..255

VARIABLES
    player,     \* client->player
    want,       \* the player that a LOGIN in progress names
    list,       \* client->invitations: an array with NULL (NoInv) holes
    crefs,      \* client->refs
    istate, source, target, irefs,      \* the INVITATION's fields
    role,       \* inv->target_role; the source has the other one
    started,    \* inv->game # NULL
    turn, winner,   \* the GAME's fields (its board is module Game's)
    results,    \* results[i]: what player_post_result was told of game i
    logm, crm,  \* the threads that hold log_mutex and the registry's mutex
    pc, cur, idx, verdict,  \* where a thread is, and its inv, i and winner
    fault       \* "none", or the first access that is undefined behaviour

threadVars == <<pc, cur, idx, verdict>>
gameVars   == <<started, turn, winner>>
madeVars   == <<source, target, role>>
vars == <<player, want, list, crefs, istate, irefs, madeVars, gameVars, results,
          logm, crm, threadVars, fault>>

\* Where a thread is: "idle" is the wait for the next packet.
Label == {"new", "idle", "login", "log_set",
          "add_source", "add_target", "made", "unmade",
          "invite_end", "invite_fail", "close", "rm_source", "rm_target", "unref", "notify",
          "accept", "acc_tell", "resign", "rm_own", "rm_opp", "post", "move",
          "mv_tell", "mv_over", "finish", "refuse", "closing", "logout",
          "unreg", "free", "gone"}

-----------------------------------------------------------------------------
Goto(c, l) == pc' = [pc EXCEPT ![c] = l]

Registered(c) == pc[c] \notin {"new", "free", "gone"}

\* Can thread c take client d's mutex?  Only client_logout keeps it.
LockFree(c, d) == d = c \/ logm # d \/ pc[d] \in {"login", "log_set"}

\* The other end of an invitation, and the role of this one: what inv_get_source,
\* inv_get_target, inv_get_source_role and inv_get_target_role return.
Peer(c, i)   == IF source[i] = c THEN target[i] ELSE source[i]
RoleOf(c, i) == IF source[i] = c THEN Other(role[i]) ELSE role[i]

\* arraylist_find: the first slot that holds x, or the one past the end.
Slot(l, x) ==
    IF \E k \in DOMAIN l : l[k] = x
    THEN CHOOSE k \in DOMAIN l : l[k] = x /\ \A j \in 1..(k - 1) : l[j] # x
    ELSE Len(l) + 1

\* arraylist_set: overwrite a slot, or append.
Put(l, k, x) == IF k \in DOMAIN l THEN [l EXCEPT ![k] = x] ELSE Append(l, x)

Listed(d, i) == \E k \in DOMAIN list[d] : list[d][k] = i

\* client_add_invitation on client d.
AddTo(d, i) ==
    /\ list' = [list EXCEPT ![d] = Put(@, Slot(@, NoInv), i)]
    /\ irefs' = [irefs EXCEPT ![i] = @ + 1]

\* Mutant: taking a slot out of the array moves the later ones.
RemoveFromShifting(d, i) ==
    LET l == list[d]
        k == Slot(l, i)
    IN  IF Listed(d, i)
        THEN /\ list' = [list EXCEPT ![d] = SubSeq(l, 1, k - 1) \o SubSeq(l, k + 1, Len(l))]
             /\ irefs' = [irefs EXCEPT ![i] = @ - 1]
        ELSE UNCHANGED <<list, irefs>>

\* client_remove_invitation on client d; it does nothing when not found.
RemoveFrom(d, i) ==
    IF Listed(d, i)
    THEN /\ list' = [list EXCEPT ![d] = Put(@, Slot(@, i), NoInv)]
         /\ irefs' = [irefs EXCEPT ![i] = @ - 1]
    ELSE UNCHANGED <<list, irefs>>

\* Dropping client d's last reference frees it, by way of client_logout.
LastRef(d) == crefs[d] = 1

\* inv_unref by thread c.  The last one drops the references to both clients.
DropInv(c, i) ==
    /\ irefs' = [irefs EXCEPT ![i] = @ - 1]
    /\ IF irefs[i] > 1 THEN UNCHANGED crefs
       ELSE LET ends == {source[i], target[i]}
            IN  /\ \A d \in ends : LockFree(c, d)
                /\ (\E d \in ends : LastRef(d)) => logm = NoClient
                /\ crefs' = [d \in Clients |->
                                IF d \in ends THEN crefs[d] - 1 ELSE crefs[d]]

\* inv_create: a new invitation, with one reference.
MakeInv(c, d, r, i) ==
    /\ istate[i] = "unused"
    /\ istate' = [istate EXCEPT ![i] = "open"]
    /\ source' = [source EXCEPT ![i] = c]
    /\ target' = [target EXCEPT ![i] = d]
    /\ role' = [role EXCEPT ![i] = r]
    /\ irefs' = [irefs EXCEPT ![i] = 1]

\* client_ref: inv_create refers to both clients, and creg_lookup to the target.
\* Mutant: creg_lookup returns a pointer and counts no reference.
TakeClientsUncounted(c, d) == crefs' = [crefs EXCEPT ![c] = @ + 1, ![d] = @ + 1]
TakeClients(c, d) == crefs' = [crefs EXCEPT ![c] = @ + 1, ![d] = @ + 2]

\* game_is_over.  Mutant: a game that was drawn does not count.
Won(i)  == started[i] /\ winner[i] # NULL_ROLE
Over(i) == started[i] /\ turn[i] = NULL_ROLE

\* Does inv_close(inv, r) let the thread close the invitation?
\* Mutant: it does not look whether somebody has closed it before.
ClosableAgain(i, r) == istate[i] = "open" \/ (started[i] /\ r # NULL_ROLE)
Closable(i, r)      == istate[i] = "open" \/ (istate[i] = "accepted" /\ r # NULL_ROLE)

\* What inv_close does then.  Its game_resign(game, r) leaves a game that is
\* over as it is.  Mutants: it does not; or the winner is r+1; or 3-r.
CloseInvLate(i, r) ==
    /\ istate' = [istate EXCEPT ![i] = "closed"]
    /\ IF started[i]
       THEN turn' = [turn EXCEPT ![i] = NULL_ROLE] /\ winner' = [winner EXCEPT ![i] = Other(r)]
       ELSE UNCHANGED <<turn, winner>>

CloseInvTo(i, w) ==
    /\ istate' = [istate EXCEPT ![i] = "closed"]
    /\ IF istate[i] = "accepted" /\ turn[i] # NULL_ROLE
       THEN turn' = [turn EXCEPT ![i] = NULL_ROLE] /\ winner' = [winner EXCEPT ![i] = w]
       ELSE UNCHANGED <<turn, winner>>

CloseInvNext(i, r)  == CloseInvTo(i, r + 1)
CloseInvMinus(i, r) == CloseInvTo(i, 3 - r)
CloseInv(i, r)      == CloseInvTo(i, Other(r))

\* A thread is done with its invitation: the next packet, or the next slot.
Resume(c) ==
    /\ Goto(c, IF logm = c THEN "logout" ELSE "idle")
    /\ cur' = [cur EXCEPT ![c] = NoInv]

\* Copy a pointer out of c's own list, and take a reference.
Pin(c, i, l) ==
    /\ Listed(c, i)
    /\ cur' = [cur EXCEPT ![c] = i]
    /\ irefs' = [irefs EXCEPT ![i] = @ + 1]
    /\ Goto(c, l)

-----------------------------------------------------------------------------
Init ==
    /\ player = [c \in Clients |-> NoPlayer]
    /\ want = [c \in Clients |-> NoPlayer]
    /\ list = [c \in Clients |-> << >>]
    /\ crefs = [c \in Clients |-> 0]
    /\ istate = [i \in Invs |-> "unused"]
    /\ source = [i \in Invs |-> NoClient]
    /\ target = [i \in Invs |-> NoClient]
    /\ role = [i \in Invs |-> NULL_ROLE]
    /\ irefs = [i \in Invs |-> 0]
    /\ started = [i \in Invs |-> FALSE]
    /\ turn = [i \in Invs |-> NULL_ROLE]
    /\ winner = [i \in Invs |-> NULL_ROLE]
    /\ results = [i \in Invs |-> << >>]
    /\ logm = NoClient
    /\ crm = NoClient
    /\ pc = [c \in Clients |-> "new"]
    /\ cur = [c \in Clients |-> NoInv]
    /\ idx = [c \in Clients |-> 0]
    /\ verdict = [c \in Clients |-> NULL_ROLE]
    /\ fault = "none"

-----------------------------------------------------------------------------
\* Connections: creg_register, client_login, the end of input, creg_unregister.

Connect(c) ==
    /\ pc[c] = "new" /\ crm = NoClient
    /\ crefs' = [crefs EXCEPT ![c] = 1]
    /\ Goto(c, "idle")
    /\ UNCHANGED <<player, want, list, istate, irefs, madeVars, gameVars, results,
                   logm, crm, cur, idx, verdict, fault>>

\* Mutant of RecvLogin: client_login does not wait for log_mutex.
RecvLoginUnlocked(c, p) ==
    /\ pc[c] = "idle" /\ player[c] = NoPlayer
    /\ want' = [want EXCEPT ![c] = p]
    /\ logm' = c
    /\ Goto(c, "login")
    /\ UNCHANGED <<player, list, crefs, istate, irefs, madeVars, gameVars,
                   results, crm, cur, idx, verdict, fault>>

\* A LOGIN packet: preg_register finds or makes the player, and client_login
\* takes log_mutex ...
RecvLogin(c, p) ==
    /\ pc[c] = "idle" /\ player[c] = NoPlayer /\ logm = NoClient
    /\ want' = [want EXCEPT ![c] = p]
    /\ logm' = c
    /\ Goto(c, "login")
    /\ UNCHANGED <<player, list, crefs, istate, irefs, madeVars, gameVars,
                   results, crm, cur, idx, verdict, fault>>

\* ... and under it the registry's mutex, to see who is logged in ...
ScanPlayers(c) ==
    /\ pc[c] = "login" /\ crm = NoClient
    /\ IF \E d \in Clients : Registered(d) /\ player[d] = want[c]
       THEN logm' = NoClient /\ Goto(c, "idle") /\ want' = [want EXCEPT ![c] = NoPlayer]
       ELSE logm' = logm /\ Goto(c, "log_set") /\ want' = want
    /\ UNCHANGED <<player, list, crefs, istate, irefs, madeVars, gameVars, results,
                   crm, cur, idx, verdict, fault>>

\* ... and acts on it when the registry's mutex is free again.
SetPlayer(c) ==
    /\ pc[c] = "log_set"
    /\ player' = [player EXCEPT ![c] = want[c]]
    /\ want' = [want EXCEPT ![c] = NoPlayer]
    /\ logm' = NoClient
    /\ Goto(c, "idle")
    /\ UNCHANGED <<list, crefs, istate, irefs, madeVars, gameVars, results,
                   crm, cur, idx, verdict, fault>>

\* proto_recv_packet fails: the service thread leaves its loop.
EndOfInput(c) ==
    /\ pc[c] = "idle"
    /\ Goto(c, IF player[c] = NoPlayer THEN "unreg" ELSE "closing")
    /\ UNCHANGED <<player, want, list, crefs, istate, irefs, madeVars, gameVars,
                   results, logm, crm, cur, idx, verdict, fault>>

BeginLogout(c) ==
    /\ pc[c] = "closing" /\ logm = NoClient
    /\ logm' = c
    /\ idx' = [idx EXCEPT ![c] = 0]
    /\ Goto(c, "logout")
    /\ UNCHANGED <<player, want, list, crefs, istate, irefs, madeVars, gameVars,
                   results, crm, cur, verdict, fault>>

\* Mutant of Ahead: the loop of client_logout steps over a slot.
AheadSkipping(c) == {k \in DOMAIN list[c] : k > idx[c] + 1 /\ list[c][k] # NoInv}

\* The slots of c's list that the loop of client_logout has yet to visit.
Ahead(c) == {k \in DOMAIN list[c] : k > idx[c] /\ list[c][k] # NoInv}

\* client_logout resigns the game of the next invitation, or else takes the
\* invitation back; the invitation may be accepted right after it looked.
LogoutNext(c) ==
    /\ pc[c] = "logout"
    /\ \E k \in Ahead(c) :
           /\ \A j \in Ahead(c) : k <= j
           /\ idx' = [idx EXCEPT ![c] = k]
           /\ Pin(c, list[c][k], IF started[list[c][k]] THEN "resign" ELSE "close")
    /\ UNCHANGED <<player, want, list, crefs, istate, madeVars, gameVars, results,
                   logm, crm, verdict, fault>>

\* Mutant of EndLogout: log_mutex is not released.
EndLogoutLocked(c) ==
    /\ pc[c] = "logout" /\ Ahead(c) = {}
    /\ player' = [player EXCEPT ![c] = NoPlayer]
    /\ Goto(c, "unreg")
    /\ UNCHANGED <<want, list, crefs, istate, irefs, madeVars, gameVars, results,
                   logm, crm, cur, idx, verdict, fault>>

EndLogout(c) ==
    /\ pc[c] = "logout" /\ Ahead(c) = {}
    /\ player' = [player EXCEPT ![c] = NoPlayer]
    /\ logm' = NoClient
    /\ Goto(c, "unreg")
    /\ UNCHANGED <<want, list, crefs, istate, irefs, madeVars, gameVars, results,
                   crm, cur, idx, verdict, fault>>

\* creg_unregister drops the registry's reference under the registry's mutex;
\* for the last reference client_unref calls client_logout there and then.
Unregister(c) ==
    /\ pc[c] = "unreg" /\ crm = NoClient
    /\ crefs' = [crefs EXCEPT ![c] = @ - 1]
    /\ IF LastRef(c)
       THEN crm' = c /\ Goto(c, "free")
       ELSE crm' = crm /\ Goto(c, "gone")
    /\ UNCHANGED <<player, want, list, istate, irefs, madeVars, gameVars, results,
                   logm, cur, idx, verdict, fault>>

Free(c) ==
    /\ pc[c] = "free" /\ logm = NoClient
    /\ crm' = NoClient
    /\ Goto(c, "gone")
    /\ UNCHANGED <<player, want, list, crefs, istate, irefs, madeVars, gameVars,
                   results, logm, cur, idx, verdict, fault>>

-----------------------------------------------------------------------------
\* INVITE: creg_lookup and inv_create, then client_make_invitation.

RecvInvite(c, p, r) ==
    /\ pc[c] = "idle" /\ player[c] # NoPlayer /\ crm = NoClient
    /\ \E d \in Clients \ {c}, i \in Invs :
           /\ Registered(d) /\ player[d] = p /\ LockFree(c, d)
           /\ MakeInv(c, d, r, i)
           /\ TakeClients(c, d)
           /\ cur' = [cur EXCEPT ![c] = i]
    /\ Goto(c, "add_source")
    /\ UNCHANGED <<player, want, list, gameVars, results, logm, crm, idx, verdict, fault>>

AddSource(c) ==
    /\ pc[c] = "add_source"
    /\ AddTo(c, cur[c])
    /\ Goto(c, "add_target")
    /\ UNCHANGED <<player, want, crefs, istate, madeVars, gameVars, results, logm, crm,
                   cur, idx, verdict, fault>>

\* The target may have logged out since it was looked up.
AddTarget(c) ==
    LET d == target[cur[c]] IN
    /\ pc[c] = "add_target" /\ LockFree(c, d)
    /\ IF player[d] # NoPlayer
       THEN AddTo(d, cur[c]) /\ Goto(c, "made")
       ELSE UNCHANGED <<list, irefs>> /\ Goto(c, "unmade")
    /\ UNCHANGED <<player, want, crefs, istate, madeVars, gameVars, results, logm, crm,
                   cur, idx, verdict, fault>>

\* The maker's own reference goes, whether or not both lists took the inv.
DropMade(c) ==
    /\ pc[c] \in {"made", "unmade"}
    /\ DropInv(c, cur[c])
    /\ Goto(c, IF pc[c] = "made" THEN "invite_end" ELSE "invite_fail")
    /\ UNCHANGED <<player, want, list, istate, madeVars, gameVars, results, logm, crm,
                   cur, idx, verdict, fault>>

\* INVITED to the target and ACK, or only NACK; then client_unref of the target.
EndInvite(c) ==
    LET d == target[cur[c]] IN
    /\ pc[c] \in {"invite_end", "invite_fail"} /\ LockFree(c, d)
    /\ LastRef(d) => logm = NoClient
    /\ crefs' = [crefs EXCEPT ![d] = @ - 1]
    /\ Resume(c)
    /\ UNCHANGED <<player, want, list, istate, irefs, madeVars, gameVars, results,
                   logm, crm, idx, verdict, fault>>

-----------------------------------------------------------------------------
\* The other packets name an invitation of c's own list.

Request(c, i, l) ==
    /\ pc[c] = "idle" /\ player[c] # NoPlayer
    /\ Pin(c, i, l)
    /\ UNCHANGED <<player, want, list, crefs, istate, madeVars, gameVars, results,
                   logm, crm, idx, verdict, fault>>

RecvRevoke(c, i)  == Request(c, i, IF source[i] = c THEN "close" ELSE "refuse")
RecvDecline(c, i) == Request(c, i, IF target[i] = c THEN "close" ELSE "refuse")
RecvAccept(c, i)  == Request(c, i, IF target[i] = c THEN "accept" ELSE "refuse")
RecvResign(c, i)  == Request(c, i, "resign")
RecvMove(c, i)    == Request(c, i, "move")

\* inv_close(inv, NULL_ROLE), of client_revoke_ and client_decline_invitation.
CloseOpen(c) ==
    LET i == cur[c] IN
    /\ pc[c] = "close"
    /\ IF Closable(i, NULL_ROLE)
       THEN CloseInv(i, NULL_ROLE) /\ Goto(c, "rm_source")
       ELSE UNCHANGED <<istate, turn, winner>> /\ Goto(c, "refuse")
    /\ UNCHANGED <<player, want, list, crefs, irefs, madeVars, started, results,
                   logm, crm, cur, idx, verdict, fault>>

\* client_remove_invitation on client d, on the way from label l to m.  It never
\* returns the -1 that its callers test for: when the invitation is not there (a
\* target that logged out while it was invited never had it), they go on.
Remove(c, d, l, m) ==
    /\ pc[c] = l /\ LockFree(c, d)
    /\ RemoveFrom(d, cur[c])
    /\ Goto(c, m)
    /\ UNCHANGED <<player, want, crefs, istate, madeVars, gameVars, results, logm, crm,
                   cur, idx, verdict, fault>>

RemoveSource(c) == Remove(c, source[cur[c]], "rm_source", "rm_target")
\* Mutant of RemoveTarget: the source's list again.
RemoveSourceAgain(c) == Remove(c, source[cur[c]], "rm_target", "unref")
RemoveTarget(c) == Remove(c, target[cur[c]], "rm_target", "unref")
RemoveOwn(c)    == Remove(c, c, "rm_own", "rm_opp")
RemoveOpp(c)    == Remove(c, Peer(c, cur[c]), "rm_opp", "post")

\* Revoke and decline drop their reference before they notify the other side.
Unref(c) ==
    /\ pc[c] = "unref"
    /\ DropInv(c, cur[c])
    /\ Goto(c, "notify")
    /\ UNCHANGED <<player, want, list, istate, madeVars, gameVars, results, logm, crm,
                   cur, idx, verdict, fault>>

Notify(c) ==
    LET d == Peer(c, cur[c]) IN
    /\ pc[c] = "notify" /\ LockFree(c, d)
    /\ fault' = IF crefs[d] = 0 THEN "freed_client" ELSE fault
    /\ Resume(c)
    /\ UNCHANGED <<player, want, list, crefs, istate, irefs, madeVars, gameVars,
                   results, logm, crm, idx, verdict>>

-----------------------------------------------------------------------------
\* client_accept_invitation: inv_accept, then ACCEPTED with the source's id.

\* Mutant of AcceptInv: it takes an invitation that was accepted.
AcceptInvAgain(i) ==
    /\ istate[i] # "closed"
    /\ istate' = [istate EXCEPT ![i] = "accepted"]
    /\ started' = [started EXCEPT ![i] = TRUE]
    /\ turn' = [turn EXCEPT ![i] = FIRST_PLAYER_ROLE]
    /\ winner' = [winner EXCEPT ![i] = NULL_ROLE]

\* inv_accept when it succeeds: the game is created.
AcceptInv(i) ==
    /\ istate[i] = "open"
    /\ istate' = [istate EXCEPT ![i] = "accepted"]
    /\ started' = [started EXCEPT ![i] = TRUE]
    /\ turn' = [turn EXCEPT ![i] = FIRST_PLAYER_ROLE]
    /\ winner' = [winner EXCEPT ![i] = NULL_ROLE]

Accept(c) ==
    LET i == cur[c] IN
    /\ pc[c] = "accept"
    /\ \/ AcceptInv(i) /\ Goto(c, "acc_tell")
       \/ istate[i] # "open" /\ UNCHANGED <<istate, gameVars>> /\ Goto(c, "refuse")
    /\ UNCHANGED <<player, want, list, crefs, irefs, madeVars, results, logm, crm,
                   cur, idx, verdict, fault>>

\* Find the id in the other client's list and send: both under its mutex.
Tell(c, l, m) ==
    /\ pc[c] = l /\ LockFree(c, Peer(c, cur[c]))
    /\ Goto(c, m)
    /\ UNCHANGED <<player, want, list, crefs, istate, irefs, madeVars, gameVars,
                   results, logm, crm, cur, idx, verdict, fault>>

TellAccepted(c) == Tell(c, "acc_tell", "finish")
TellMoved(c)    == Tell(c, "mv_tell", "mv_over")

\* Mutant of ResignGame: what is posted is that the role that resigns has won.
ResignGameWon(c) ==
    LET i == cur[c]
        r == RoleOf(c, i)
    IN
    /\ pc[c] = "resign"
    /\ IF started[i] /\ Closable(i, r)
       THEN /\ CloseInv(i, r)
            /\ verdict' = [verdict EXCEPT ![c] = r]
            /\ Goto(c, "rm_own")
       ELSE UNCHANGED <<istate, turn, winner, verdict>> /\ Goto(c, "refuse")
    /\ UNCHANGED <<player, want, list, crefs, irefs, madeVars, started, results,
                   logm, crm, cur, idx, fault>>

\* client_resign_game: inv_close with c's role, once there is a game.
ResignGame(c) ==
    LET i == cur[c]
        r == RoleOf(c, i)
    IN
    /\ pc[c] = "resign"
    /\ IF started[i] /\ Closable(i, r)
       THEN /\ CloseInv(i, r)
            /\ verdict' = [verdict EXCEPT ![c] = Other(r)]
            /\ Goto(c, "rm_own")
       ELSE UNCHANGED <<istate, turn, winner, verdict>> /\ Goto(c, "refuse")
    /\ UNCHANGED <<player, want, list, crefs, irefs, madeVars, started, results,
                   logm, crm, cur, idx, fault>>

\* client_make_move: game_apply_move, for a move the board allows ...
ApplyMove(c) ==
    LET i == cur[c] IN
    /\ pc[c] = "move" /\ started[i]
    /\ turn[i] # NULL_ROLE /\ turn[i] = RoleOf(c, i)
    /\ \E o \in MoveOutcomes(turn[i]) :
           /\ turn' = [turn EXCEPT ![i] = o[1]]
           /\ winner' = [winner EXCEPT ![i] = o[2]]
    /\ Goto(c, "mv_tell")
    /\ UNCHANGED <<player, want, list, crefs, istate, irefs, madeVars, started, results,
                   logm, crm, cur, idx, verdict, fault>>

\* ... and its error returns; any packet may hold a move that is no move.
RefuseMove(c) ==
    /\ pc[c] = "move"
    /\ Goto(c, "refuse")
    /\ UNCHANGED <<player, want, list, crefs, istate, irefs, madeVars, gameVars,
                   results, logm, crm, cur, idx, verdict, fault>>

\* After the move: if the game is over by now, whoever ended it, close it in
\* the name of who did not win, and remember who did.
MoveOver(c) ==
    LET i == cur[c] IN
    /\ pc[c] = "mv_over"
    /\ IF Over(i) /\ Closable(i, Other(winner[i]))
       THEN /\ CloseInv(i, Other(winner[i]))
            /\ verdict' = [verdict EXCEPT ![c] = winner[i]]
            /\ Goto(c, "rm_own")
       ELSE /\ UNCHANGED <<istate, turn, winner, verdict>>
            /\ Goto(c, IF Over(i) THEN "refuse" ELSE "finish")
    /\ UNCHANGED <<player, want, list, crefs, irefs, madeVars, started, results,
                   logm, crm, cur, idx, fault>>

\* The packets of a game's end, then player_post_result on both PLAYERs: the
\* other client is in nobody's hands here and may have none any more.
PostResult(c) ==
    LET d == Peer(c, cur[c]) IN
    /\ pc[c] = "post" /\ LockFree(c, d)
    /\ IF player[d] = NoPlayer
       THEN fault' = "null_player" /\ UNCHANGED results
       ELSE fault' = fault /\ results' = [results EXCEPT ![cur[c]] = Append(@, verdict[c])]
    /\ verdict' = [verdict EXCEPT ![c] = NULL_ROLE]
    /\ Goto(c, "finish")
    /\ UNCHANGED <<player, want, list, crefs, istate, irefs, madeVars, gameVars,
                   logm, crm, cur, idx>>

\* Mutant of Finish: an error return keeps the reference.
FinishLeaking(c) ==
    /\ pc[c] \in {"finish", "refuse"}
    /\ IF pc[c] = "finish" THEN DropInv(c, cur[c]) ELSE UNCHANGED <<irefs, crefs>>
    /\ Resume(c)
    /\ UNCHANGED <<player, want, list, istate, madeVars, gameVars, results, logm,
                   crm, idx, verdict, fault>>

\* Drop the reference; answer ACK ("finish") or NACK ("refuse").
Finish(c) ==
    /\ pc[c] \in {"finish", "refuse"}
    /\ DropInv(c, cur[c])
    /\ Resume(c)
    /\ UNCHANGED <<player, want, list, istate, madeVars, gameVars, results, logm, crm,
                   idx, verdict, fault>>

-----------------------------------------------------------------------------
\* What the network does, and what a thread does by itself once it is busy.
Recv(c) ==
    \/ Connect(c)
    \/ \E p \in Players : RecvLogin(c, p)
    \/ EndOfInput(c)
    \/ \E p \in Players, r \in InviteRoles : RecvInvite(c, p, r)
    \/ \E i \in Invs : \/ RecvRevoke(c, i) \/ RecvDecline(c, i) \/ RecvAccept(c, i)
                       \/ RecvResign(c, i) \/ RecvMove(c, i)

Work(c) ==
    \/ ScanPlayers(c) \/ SetPlayer(c)
    \/ BeginLogout(c) \/ LogoutNext(c) \/ EndLogout(c)
    \/ Unregister(c) \/ Free(c)
    \/ AddSource(c) \/ AddTarget(c) \/ DropMade(c) \/ EndInvite(c)
    \/ CloseOpen(c) \/ RemoveSource(c) \/ RemoveTarget(c) \/ Unref(c) \/ Notify(c)
    \/ Accept(c) \/ TellAccepted(c)
    \/ ResignGame(c) \/ RemoveOwn(c) \/ RemoveOpp(c) \/ PostResult(c)
    \/ ApplyMove(c) \/ RefuseMove(c) \/ TellMoved(c) \/ MoveOver(c)
    \/ Finish(c)

Next == fault = "none" /\ \E c \in Clients : Recv(c) \/ Work(c)

Spec == Init /\ [][Next]_vars

(***************************************************************************)
(* A busy thread is scheduled again and again, and gets a mutex that is    *)
(* released again and again while it waits: strong fairness, because one   *)
(* client whose LOGINs are refused may take log_mutex for ever.            *)
(***************************************************************************)
FairSpec == Spec /\ \A c \in Clients : SF_vars(fault = "none" /\ Work(c))

-----------------------------------------------------------------------------
\* The labels at which a thread has ended a game and not yet posted it, and
\* those at which it has closed any invitation and not yet dropped it.
Ending  == {"rm_own", "rm_opp", "post"}
Closing == {"rm_source", "rm_target", "unref"} \cup Ending
\* The labels at which the thread that made an invitation holds the target.
Making  == {"add_source", "add_target", "made", "unmade", "invite_end", "invite_fail"}
\* The labels at which cur is kept for its fields only, without a reference.
Unpinned == {"notify", "invite_end", "invite_fail"}

TypeOK ==
    /\ player \in [Clients -> Players \cup {NoPlayer}]
    /\ want \in [Clients -> Players \cup {NoPlayer}]
    /\ list \in [Clients -> Seq(Invs \cup {NoInv})]
    /\ crefs \in [Clients -> Int]
    /\ istate \in [Invs -> {"unused", "open", "accepted", "closed"}]
    /\ source \in [Invs -> Clients \cup {NoClient}]
    /\ target \in [Invs -> Clients \cup {NoClient}]
    /\ role \in [Invs -> 0..255]
    /\ irefs \in [Invs -> Int]
    /\ started \in [Invs -> BOOLEAN]
    /\ turn \in [Invs -> GameRole]
    /\ winner \in [Invs -> GameRole]
    /\ results \in [Invs -> Seq(GameRole)]
    /\ logm \in Clients \cup {NoClient}
    /\ crm \in Clients \cup {NoClient}
    /\ pc \in [Clients -> Label]
    /\ cur \in [Clients -> Invs \cup {NoInv}]
    /\ idx \in [Clients -> Nat]
    /\ verdict \in [Clients -> GameRole]
    /\ fault \in {"none", "null_player", "freed_client"}

(***************************************************************************)
(* Reference counts are exact.  An invitation counts the list slots that   *)
(* hold it and the threads that work on it; a client counts its registry   *)
(* slot, the live invitations it is an end of, and the threads that looked *)
(* it up to invite it.  So nothing in use is freed, and nothing else leaks.*)
(***************************************************************************)
RefsExact ==
    /\ \A i \in Invs :
           irefs[i] = Cardinality({c \in Clients : cur[c] = i /\ pc[c] \notin Unpinned})
                      + Cardinality({d \in Clients : Listed(d, i)})
    /\ \A d \in Clients :
           crefs[d] = (IF Registered(d) THEN 1 ELSE 0)
                      + Cardinality({i \in Invs : irefs[i] > 0 /\ d \in {source[i], target[i]}})
                      + Cardinality({c \in Clients : pc[c] \in Making /\ target[cur[c]] = d})

(***************************************************************************)
(* One thread ends an invitation.  However a revocation, a refusal, a      *)
(* resignation, a last move and the logouts of both sides meet, one of     *)
(* them closes it, and nothing is posted for it before that thread does.   *)
(* What it goes on to post is who won the game, unless the game was drawn. *)
(***************************************************************************)
SingleCloser ==
    \A c \in Clients : pc[c] \in Closing =>
        /\ istate[cur[c]] = "closed" /\ results[cur[c]] = << >>
        /\ \A d \in Clients : pc[d] \in Closing /\ cur[d] = cur[c] => d = c
        /\ pc[c] \in Ending => started[cur[c]] /\ winner[cur[c]] \in {NULL_ROLE, verdict[c]}

(***************************************************************************)
(* A game that was decided on the board is not forgotten: until someone    *)
(* has closed it, the thread that made the deciding move is on its way to  *)
(* close it, and if the game has a winner that thread plays for the winner.*)
(***************************************************************************)
DecidedIsClosed ==
    \A i \in Invs : istate[i] = "accepted" /\ turn[i] = NULL_ROLE =>
        \E c \in Clients :
            /\ pc[c] \in {"mv_tell", "mv_over"} /\ cur[c] = i
            /\ winner[i] \in {NULL_ROLE, RoleOf(c, i)}

(***************************************************************************)
(* The two lists agree with the state of an invitation.  A game in         *)
(* progress is in both, so that both players can name it; what a closing   *)
(* thread has yet to remove is there to be removed (so RESIGNED and ENDED  *)
(* carry a real id); and a closed invitation is in no list but those.      *)
(***************************************************************************)
ListsAgree ==
    /\ \A i \in Invs : istate[i] = "accepted" => Listed(source[i], i) /\ Listed(target[i], i)
    /\ \A c \in Clients :
           /\ pc[c] = "rm_own" => Listed(c, cur[c])
           /\ pc[c] \in {"rm_own", "rm_opp"} => Listed(Peer(c, cur[c]), cur[c])
    /\ \A i \in Invs, d \in Clients : istate[i] = "closed" /\ Listed(d, i) =>
           \E c \in Clients :
               /\ cur[c] = i
               /\ \/ pc[c] = "rm_source"
                  \/ pc[c] = "rm_target" /\ d = target[i]
                  \/ pc[c] = "rm_own"
                  \/ pc[c] = "rm_opp" /\ d = Peer(c, i)

\* At most one client is logged in as a player, though client_login looks at
\* the other clients one by one and they log in and out meanwhile.
LoginUnique ==
    \A c, d \in Clients : player[c] = player[d] /\ player[c] # NoPlayer => c = d

(***************************************************************************)
(* The id a client knows an invitation by is its slot.  It never changes,  *)
(* a slot is not reused while it is taken, and an invitation that has left *)
(* a list does not come back under another id.                             *)
(***************************************************************************)
IdStable ==
    [][\A c \in Clients :
           /\ Len(list'[c]) >= Len(list[c])
           /\ \A k \in DOMAIN list[c] :
                  list[c][k] # NoInv => list'[c][k] \in {list[c][k], NoInv}
           /\ \A k \in DOMAIN list'[c] :
                  list'[c][k] # NoInv => \/ k \in DOMAIN list[c] /\ list'[c][k] = list[c][k]
                                         \/ istate[list'[c][k]] = "open"
                                            /\ ~Listed(c, list'[c][k])]_vars

(***************************************************************************)
(* client_logout leaves no open invitation behind, though others invite    *)
(* the client, revoke, decline and accept while it runs.  One it does      *)
(* leave behind is one that somebody else is closing, or a game: of an     *)
(* invitation of its own that was accepted between its looking for a game  *)
(* and its revoking the invitation; or one that its target was invited to  *)
(* with a role byte of 0, for inv_close lets nobody resign as NULL_ROLE.   *)
(***************************************************************************)
LogoutLeaves ==
    \A c \in Clients, i \in Invs : pc[c] \in {"unreg", "free", "gone"} /\ Listed(c, i) =>
        \/ istate[i] = "closed"
        \/ istate[i] = "accepted" /\ (source[i] = c \/ role[i] = NULL_ROLE)

\* As long as nobody disconnects, no thread touches a freed client or posts a
\* result for a client without a player.
FaultNeedsDisconnect ==
    fault # "none" => \E c \in Clients : pc[c] \in {"unreg", "free", "gone"}

\* The invitations implement what module Invitations promises.
Life == INSTANCE Invitations
ImplementsInvitations == Life!ISpec

-----------------------------------------------------------------------------
\* A thread that must free a client takes log_mutex.  In client_logout it has
\* it already, and the mutex is not recursive.
SelfDeadlock(c) ==
    /\ logm = c /\ pc[c] \in {"unref", "finish", "refuse"} /\ irefs[cur[c]] = 1
    /\ \E d \in {source[cur[c]], target[cur[c]]} : LastRef(d)

\* creg_unregister waits for log_mutex under the registry's mutex, and
\* client_login for the registry's mutex under log_mutex.
LockCycle(c, d) == crm = c /\ pc[c] = "free" /\ logm = d /\ pc[d] = "login"

Stuck == \/ \E c \in Clients : SelfDeadlock(c)
         \/ \E c, d \in Clients : LockCycle(c, d)

Busy(c) == pc[c] \notin {"new", "idle", "gone"}

(***************************************************************************)
(* Every packet is answered and every connection that ends is cleaned up,  *)
(* unless the threads run into one of the two deadlocks above or into      *)
(* undefined behaviour: there is no third way for them to wait for ever.   *)
(***************************************************************************)
Progress == \A c \in Clients : Busy(c) ~> (~Busy(c) \/ Stuck \/ fault # "none")

-----------------------------------------------------------------------------
\* What the comments of the sources say, and the code does not always do.

\* client.h: a client can be passed around without fear of dangling references.
NoDanglingClient == fault # "freed_client"

\* client.h: at the end of a game its result is posted to both players.
BothPlayersPosted == fault # "null_player"

\* client.h, game.h: the result that is posted is the result of the game.
ResultIsWinner == \A i \in Invs : results[i] # << >> => results[i][1] = winner[i]

\* client.h: the operations may be called concurrently.  They do not deadlock.
NoDeadlock == ~Stuck
=============================================================================
