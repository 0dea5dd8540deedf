# Jeux: a TLA+ model of the game server

Jeux is a multi-threaded server for tic-tac-toe, written in C. Clients connect
over TCP, log in under a user name, invite each other, and play. This directory
models the parts of the server that several threads work on at once, checks
them with TLC on small instances, and proves the main results for instances of
any size with TLAPS. Paths below are relative to the root of the repository.

## 1. The system

| component | state | operations | shared with |
|---|---|---|---|
| GAME (`src/game.c`) | board, turn, winner, under the game's mutex | apply a move, resign, ask | the two players' threads, through their INVITATION |
| INVITATION (`src/invitation.c`) | source and target CLIENT, their roles, state (open, accepted, closed), the GAME, a reference count | create, ref/unref, accept, close | both clients' lists, and every thread that works on it |
| CLIENT (`src/client.c`) | player, list of invitations (ids are slots), fd, reference count, under a recursive mutex; one global `log_mutex` | login, logout, make, revoke, decline, accept, resign, move, send | its own service thread, the threads of its opponents, the registry |
| service thread (`src/server.c`) | its connection, its client, its player | receive a packet, dispatch it; at the end log out and unregister | - |
| client registry (`src/client_registry.c`) | the clients, their number, a count of waiters, a semaphore, a mutex | register, unregister, lookup, all_players, shutdown_all, wait_for_empty, fini | all threads |
| main thread (`src/main.c`) | listening socket | accept; `terminate()` on SIGHUP | the registry |
| PLAYER, player registry (`src/player.c`, `src/player_registry.c`) | name, rating, reference count; all players ever seen | find or create by name; post a result | clients; two at a time when a result is posted |
| array (`src/arraylist.c`) | slots with NULL holes | find, get, set, push, pop | under its owner's mutex |
| protocol (`src/protocol.c`) | - | send and receive a packet with short counts | one connection |

There is one service thread per connection and no thread that owns a game: a
thread works directly on its opponent's CLIENT (removes invitations from its
list, sends packets on its connection), on the INVITATION and on the GAME, each
under its own mutex, one after the other. What makes the code hard to get right
is what can come between two of these critical sections:

* up to six ways to end one invitation (revoke, decline, resign by either side,
  a last move, a logout of either side) meet in `inv_close`;
* a client or an invitation is freed by whoever drops the last reference, and
  freeing a client takes `log_mutex`, in whatever function that happens;
* `client_logout` holds `log_mutex` and the client's own mutex through a loop
  over its invitations, and calls the other operations from there;
* `terminate()` waits for all clients to unregister, on a thread that a signal
  interrupted, and then frees what they may still be using.

What would make the components correct: a game is decided by its rules and
stays decided; an invitation is ended once and by one thread, and the result
posted is the game's; both lists agree with it; references are exact; a name is
logged in once; every request is answered; a client is told what happened to its
invitations, in an order it can follow; a name has one PLAYER and one rating,
which games move between players and never make; packets stay whole however
`send` and `recv` cut them; the registry loses no wake-up and is not freed while
in use. `PROJECT.json` lists the hazards one by one at the line
of the code where they bite.

## 2. The modules

| module | models | extends |
|---|---|---|
| `Roles` | GAME_ROLE, `role%2+1`, what a legal move does to turn and winner | - |
| `GameOutcome` | abstract: turn and winner of a game, without its board | `Roles` |
| `Game` | `game.c` with the board; implements `GameOutcome` | `Roles` |
| `Invitations` | abstract: the life cycle of invitations, a whole request per step | `Roles` |
| `ClientOps` | `client.c`, `invitation.c`, the dispatch of `server.c`; implements `Invitations` | `Roles` |
| `ClientPackets` | what the operations of `client.c` tell and show the clients | `ClientOps` |
| `ClientRegistry` | `client_registry.c`, the accept loop and `terminate()` of `main.c` | - |
| `Elo` | the rating arithmetic of `player_post_result`, as operators | - |
| `Ratings` | abstract: a posting changes both ratings in one step | `Elo` |
| `Players` | `player.c`, `player_registry.c`, and what `server.c`, `client.c` and `client_registry.c` do with a PLAYER; implements `Ratings` | `Elo` |
| `PacketChannel` | abstract: whole packets arrive in order, until they stop | - |
| `Connection` | `protocol.c` and `client_send_packet` on one connection; implements `PacketChannel` twice | - |
| `MCClientOps`, `MCClientPackets`, `MCPlayers` | the symmetry set for TLC | the module they are named after |
| `GameProofs`, `ClientOpsProofs`, `ClientRegistryProofs`, `EloProofs`, `PlayersProofs`, `ConnectionProofs` | theorems | the module they are named after |
| `ClientListsProofs` | theorems about the lists and references of `ClientOps` | `ClientOpsProofs` |
| `ClientPacketsProofs` | theorems | `ClientPackets`, `ClientListsProofs` |

`ClientOps` is the centre. `Game` justifies its games without boards,
`ClientPackets` adds what it sends, `Players` is what happens behind its steps
`RecvLogin` and `PostResult`, `ClientRegistry` what happens around its `Connect`
and `Unregister`, and `Connection` what happens inside each of its packets.

### Game

`board`, `turn` and `winner` are the fields of `struct game`. The game's mutex
covers each function, so each is an action; the error returns are the actions
`RejectMove` and `RejectResign`. `ClientOps` does not carry boards: its moves
change turn and winner as `MoveOutcomes` allows. `ImplementsOutcome` says that
the board game never does anything else, so that nothing is lost by that.

### ClientOps

One service thread per client. `pc[c]` says which critical section thread `c`
is about to run, `cur[c]` which invitation it has pinned, `idx[c]` how far the
loop of `client_logout` is, `verdict[c]` the result it is to post. The rest is
the objects' fields: `player`, `list`, `crefs` (CLIENT), `istate`, `source`,
`target`, `role`, `irefs` (INVITATION), `started`, `turn`, `winner` (GAME), and
`logm`, `crm` for `log_mutex` and the registry's mutex when a thread blocks
while it holds them. `results[i]` is what was posted for game `i`.

| code | actions |
|---|---|
| `creg_register`; `LOGIN` with `client_login` | `Connect`; `RecvLogin`, `ScanPlayers`, `SetPlayer` |
| end of input, `client_logout`, `creg_unregister` | `EndOfInput`, `BeginLogout`, `LogoutNext`, `EndLogout`, `Unregister`, `Free` |
| `INVITE` with `client_make_invitation` | `RecvInvite`, `AddSource`, `AddTarget`, `DropMade`, `EndInvite` |
| `client_revoke_invitation`, `client_decline_invitation` | `RecvRevoke`/`RecvDecline`, `CloseOpen`, `RemoveSource`, `RemoveTarget`, `Unref`, `Notify` |
| `client_accept_invitation` | `RecvAccept`, `Accept`, `TellAccepted`, `Finish` |
| `client_resign_game` | `RecvResign`, `ResignGame`, `RemoveOwn`, `RemoveOpp`, `PostResult`, `Finish` |
| `client_make_move` | `RecvMove`, `ApplyMove`/`RefuseMove`, `TellMoved`, `MoveOver`, then as for a resignation |

`client_logout` runs the same actions for each invitation with `logm = c`;
`Resume` leads back to its loop instead of the next packet.

What is merged or left out, and why that loses nothing the properties tell apart:

* Steps are merged when what lies between touches nothing another thread can
  change: looking a client up and creating the invitation; reading
  `inv_get_game`, which never changes back to NULL, and closing; finding an id
  and sending it; the packets at the end of a game and reading the players.
* A request that changes nothing (an id that is not in use, not logged in, an
  invitation to oneself, USERS) is a stuttering step. A refused request that
  holds a reference meanwhile is not: it has its own steps (label `refuse`).
* A client's mutex is held for long only by its own thread in `client_logout`
  (the mutex is recursive); everyone else's use is within one step. `LockFree`
  is the wait for it. `creg_lookup` and USERS, which lock every client in turn,
  are not made to wait; that allows more behaviours, never fewer.
* `client_remove_invitation` never returns the -1 its callers test for: when
  it does not find the invitation it returns the size of the array. The model
  goes on, as the code does.
* The model stops at the first access that is undefined behaviour (`fault`): a
  freed client, a NULL player.
* Each element of `Clients` and `Invs` is used once. So their numbers bound how
  many connections and invitations a run sees.
* `role` is the byte of the INVITE packet, 0..255. `role%2+1` is the source's.
* What the packets tell is in `ClientPackets`; that they arrive whole, and that
  sending one may take for ever, is in `Connection`.

### ClientPackets

`ClientOps` with two more variables, which its steps fill and never read:
`sent[i][d]` is what client `d` was told of invitation `i`, and `shown[i]` who
has been shown the board of game `i` as it is now. A packet that tells of a
change is sent after the critical section that made it, so another thread's
packet may overtake it; that is what the properties of this module are about.
A run of MOVED packets counts as one, as a game may have any number of moves.
Reading the board and sending it are one step, because between the two only the
player that it is sent to could move. ACK and NACK answer a client's own
packets and are left out, but for the board that the ACK of an ACCEPT carries
when the target moves first. RESIGNED goes where ENDED goes.

### Players

A PLAYER is its address, since `player_post_result` orders its two mutexes by
address. `pm[a]` is the holder of a PLAYER's mutex; the function is modelled
lock by lock and write by write (`Lock1`, `Lock2`, `Expect`, `Write1`, `Write2`,
`Unlock`), all other uses of the mutex are one step that waits for it.
`preg_register` takes the registry's mutex (`RegBegin`) and compares names
(`RegFound`, `RegNone`: one step, as names never change and nobody else changes
the array meanwhile), and creates the PLAYER in a step of its own. USERS visits
the clients one after the other while they log in and out, and has a pointer
that is not counted between `client_get_player` and `player_ref`, as has
`player_post_result` for both its arguments. A thread that ends games within
`client_logout` does so after its service thread dropped its own reference
(label `out`). `client_login` is one step here; its own steps are in `ClientOps`.

`Elo` computes with integers what the code computes with doubles:
`rating += 32*(s-e)` truncates, and 32 times the expected score, rounded up, is
a matter of comparing the difference of the ratings with 31 bounds. `UpperBounds`
are 400 log10((32-k)/k) rounded up; none of them is a whole number except for
k = 16, and a double is exact enough to tell which side it is on as long as the
ratings are less than 4000 points apart.

### Connection

One connection: its service thread, the threads of other clients that notify
it, its mutex, two socket buffers of limited room, and a peer. Packets are cut
in units, and a `send()` or `recv()` moves at least one and no more than it was
asked for. `left[t]` is what sender `t` has left to send, `rbuf` what
`proto_recv_packet` has got so far. The peer keeps to the format of packets; it
may write, read, stop, close its side and leave at any time, within a packet
too. SIGHUP (`Hangup`, `Shutdown`) is `creg_shutdown_all` as one connection sees
it: it waits for the client's mutex and shuts the input down, not the output.
Timestamps, byte order and the meaning of the fields are left out; a packet of
a type that the server does not know gets no answer (`Ignore`).

### ClientRegistry

One service thread per connection, and the main thread. A function of the
registry called by a service thread takes the mutex in one step and works in
the next, so that a signal can interrupt it with the mutex held. `hpc[t]` is
where thread `t` is in `terminate()`; SIGHUP is delivered to any thread, as
POSIX allows, and the handler blocks all signals, so its calls are one step
each. `creg_unregister` posts the semaphore (`Unregister`) before it unlocks
(`EndUnregister`), and `creg_wait_for_empty` is split at its `sem_wait`. `input`
is a connection's input: shut down by `creg_shutdown_all` or closed by the peer.
Closing the listening socket is merged with the arrival of the signal. `slots`
is what `cr->clients` holds and `size` the counter kept beside it, by which the
code decides who gets in, who waits and when to post: `SlotsExact` says that the
two agree. This module and `ClientOps` share the idea of a client that registers,
lives and unregisters; what clients do to each other is in one and what signals
do is in the other.

## 3. What is checked

| run | instance | states | shows |
|---|---|---|---|
| `game` | the whole game | 15 thousand | every board, exhaustively: `TurnMatchesBoard`, `LineDecides`, `NoStalemate`, and that it implements `GameOutcome` |
| `client_ops` | 3 clients, 2 names, 2 invitations | 1.2 million (symmetry) | `RefsExact`, `SingleCloser`, `DecidedIsClosed`, `ListsAgree`, `LoginUnique`, `FaultNeedsDisconnect`, `LogoutLeaves`, `IdStable`, `ImplementsInvitations` |
| `client_packets` | 3 clients, 1 invitation, role bytes 0 to 4 | 164 thousand (symmetry) | `OneStory`, `NobodyLeftOut`, `MoverIsShown`, `RefusedMoveCounts`; and `LogoutLeaves`, `ImplementsInvitations` whatever the role byte |
| `client_ops_live` | 3 clients, 1 invitation, fairness, no symmetry | 185 thousand | `Progress` |
| `client_registry` | 3 connections, 2 slots, 2 SIGHUPs, fairness | 140 thousand | `TokensExact`, `SlotsExact`, `ShutIsGone`, `Terminates` |
| `players` | 3 threads, 3 names, 3 addresses, 5 calls | 327 thousand (symmetry) | `RefsExact`, `NoFreedPlayer`, `OnePlayerPerName`, `NoLockCycle`, `FairPosting`, `ImplementsRatings` |
| `connection` | own and 2 other threads, 2 requests, 1 notification, fairness | 288 thousand | `NothingLost`, `ImplementsRequests`, `ImplementsMessages`, `SendsComplete`, `HangsUp` |

Why the bounds are enough for the interesting cases. Two clients and one
invitation already have every race on it, as both sides' threads may revoke,
decline, accept, resign, move and log out. The third client is there to share a
name with one of the others, to be logged in under it later, and to hold
`log_mutex` or be invited by both. The second invitation lets the same pair
play twice at once, in either direction, reuse a slot while the first is still
in someone's hands, and lets the loop of `client_logout` find two. Role bytes
from 3 on differ from 1 and 2 only in that they never are a turn, and among
themselves by parity. With three connections for two slots one is refused, and
may be let in after another left; two SIGHUPs give two handlers at once, which
is when tokens can be taken by the wrong one.

In `players` the five calls are LOGINs, USERS and ends of games together: two
threads log in and three calls are left, or three log in and two are left. That
is enough for two postings that want the same two players in opposite orders,
with a LOGIN of a name in use or a USERS running into them, and for a posting on
ratings that earlier ones have moved. Three postings around a circle of three
players take six calls; they, and the arithmetic on arbitrary ratings, are left
to the theorems. In `connection` a header of two units can be cut, both buffers
hold less than a request or a notification with its payload, so every call can
block or fall short, and of two requests one can be in hand and the other still
on its way. `MaxRequests` also stands for a peer that does not go on sending for
ever after SIGHUP: as long as it did, its requests would be served.

Deadlock checking is off where the system may stop: when all clients have gone
and every invitation has been used, when the process has exited, and at a fault.
`Game` never stops. The mutants in `PROJECT.json` change one definition each,
the way a slip in the code would; each makes its property fail.

**Fairness.** `ClientOps` assumes that a thread that has work to do, other than
waiting for its client's next packet, gets to do it, strongly fair: `log_mutex`
and the registry's mutex become free again and again while a thread waits, and
a client whose LOGINs are refused may take `log_mutex` for ever in between, so
weak fairness would let a thread starve, which no mutex of the C library does
to a waiting thread in practice. Nothing is assumed about what clients send or
whether they ever hang up. `ClientRegistry` assumes the same of all threads,
handlers included, and again not that clients leave or send. Both assume that
`send()` completes.

`Connection` is about that assumption. Its `ServerFairness` is that the threads
run and get the client's mutex if it is released again and again (strong
fairness for the steps that wait for it), and that a `recv()` or `send()` that
can make progress makes some. `FairSpec` adds that a peer reads while it is
there; `SendsComplete` and `HangsUp` hold under it, and neither would without it
(run `shutdown_ends_service`). `Game` and `Players` have no liveness
property: no operation of theirs waits for anything but a mutex, and
`NoLockCycle` is the reason why none waits for ever.

### Where code and comments disagree

Five runs state what a comment promises and are violated by what the code does;
each uses the smallest instance that shows it.

| run | comment | what happens |
|---|---|---|
| `dangling_client` | `client.h:24-28` | revoke and decline send to the other client after dropping what kept it alive |
| `both_players_posted` | `client.h:301-302` | the opponent logs out between leaving the list and the posting of the result, whose player is then NULL |
| `deadlock` | `client.h:34-35` | the last reference to a client is dropped inside `client_logout`, which waits for its own `log_mutex`; or in `creg_unregister`, against a LOGIN |
| `result_is_winner` | `client.h:298-302` | a resignation right after the opponent's drawing move posts a loss; `inv_close` ignores that `game_resign` failed |
| `shutdown_ends_service` | `client_registry.h:125-128` | a sender that is blocked by a peer that does not read keeps the client's mutex, which `terminate()` waits for |

Five more are in `PROJECT.json` without a run of their own; a passing property
or the model's own steps have them:

* An invitation accepted while a client that is its source logs out stays, with
  a game that nobody resigns (`client.h:95-98`; `LogoutLeaves`).
* So does a game whose target was invited with role byte 0 when the target logs
  out: `inv_close` lets nobody close a game as `NULL_ROLE` (`client.h:95-98`;
  `LogoutLeaves`).
* The registry is freed before the thread that posted the semaphore unlocks it,
  or while a thread has yet to register (`client_registry.h:52-56`; the model
  stops there, and `ShutIsGone` says what holds nevertheless).
* `client_remove_invitation` never returns -1 (`client.h:184-185`), so a client
  is told REVOKED of an invitation that it never had (`OneStory`).
* A move that was made is answered NACK if the opponent's thread closed the game
  since (`client.h:308`; `RefusedMoveCounts`: it counts all the same).

The passing properties say how far these go. `FaultNeedsDisconnect`: without a
disconnection neither fault happens. `SingleCloser`: the result is wrong only
for a game that was drawn. `Progress`: the two deadlocks are the only ways to
wait for ever. `LogoutLeaves`: a logout leaves no open invitation.
`ShutIsGone`: what the registry is freed under is never a client that was shut
down and not waited for. `Terminates`: only a signal on a registered service
thread, or a client that came too late to be shut down, keeps `terminate()`
waiting. `NobodyLeftOut`: late packets do arrive; once both threads are idle,
each client knows. `HangsUp`: a peer that reads, or leaves, does not hold up
`terminate()`.

## 4. What is proved

All for any number of clients, players, invitations, connections, senders and
signals, any role bytes, any limit of clients, any addresses, any ratings, any
lengths of packets and buffers. The assumptions are those named in the modules:
the null values are not members of the sets they stand outside of
(`NullAssumption`, `ThreadsAssumption`), role bytes are bytes, `Clients`, `Invs`,
`Conns` and the threads of `Players` are finite (a reference count counts
something), `MAX_CLIENTS`, addresses, and the sizes of packets and of the
sockets' buffers (`UnitsAssumption`) are positive numbers.

Every safety property that a passing run checks, the action properties and the
refinements included, is a theorem.

* `GameProofs`: `GameTypeOK`, `GameTurns`, `GameLineDecides`, `GameNoStalemate`,
  `GameImplementsOutcome`. The four invariants are inductive together (`Inv`),
  none of the last three alone: that no line is there before a move needs that
  the game was not over, and that a full board is FIRST's doing, so that only
  FIRST can draw, needs the count of pieces (nine is odd).
* `ClientOpsProofs`: `ClientTypeOK`, `ClientSingleCloser`, `ClientDecidedIsClosed`,
  `ClientLoginUnique`, `ClientImplementsInvitations`. `TypeOK` is not inductive,
  as most steps look at the invitation in a thread's hand: `TInv` adds that a
  thread at such a label has one (`HasInv`). `EInv` says that an invitation that
  was made has two different ends, and that only they list it or work on it;
  so two threads that close one invitation are its two ends. `Phases` ties an
  invitation's state to its game and to `results`. With these, `SingleCloser`
  and `DecidedIsClosed` are inductive (`CInv`), and again not one without the
  other: the winner of a decided game is known by who is on the way to close it.
  For the refinement, each action is shown to be a step of `Invitations` or a
  stutter under `CInv`. `LInv`, for logins: the thread that is at work under
  `log_mutex` holds it (`LogHeld`), and after its scan wants a player that no
  client has (`Wanted`), because players are only given under that mutex.
* `ClientRegistryProofs`: `RegistryTypeOK`, `RegistrySlotsExact`,
  `RegistryTokensExact`, `RegistryShutIsGone`. `TypeOK` and `SlotsExact` are
  inductive together: that `cr->size` does not drop below zero needs that it
  counts the slots, and `TokensExact`, given both, that the threads are woken by
  that count when the slots are empty. The cardinalities need `Conns` finite. For
  the last, `ShutWaited` says that while a client that was shut down is still
  registered some handler is counted as waiting or about to be, and `FreedAlone`
  that creg_fini found nobody waiting; with `TokensExact` the count is then 0.
* `EloProofs`: `EloFairExchange`. For all ratings, a game between two players
  whose ratings cannot become negative by it moves points from one to the other
  and makes none; rounding loses at most one; a winner never loses any, a loser
  loses 1 to 32. The heart is that the rounded expectations of the two sides
  add up to 33, or to 32 for equal ratings: as `Bound(k) + Bound(32 - k) = 1`, the
  bounds that one side's difference is below mirror those the other's is not.
* `PlayersProofs`: `PlayersTypeOK`, `PlayersOnePerName`, `PlayersNoLockCycle`,
  `PlayersFairPosting`, `PlayersImplementRatings`. `OnePlayerPerName` needs that
  at most one thread is between its look for a name and the slot, that it holds
  the registry's mutex, and that the name it is about to create is in no slot.
  `NoLockCycle` needs who holds a PLAYER's mutex beyond a statement (`MInv`: only
  a thread that posts, at the labels between its lock and its unlock, and its
  own two players, the lower address first). So a thread that is waited for and
  waits itself is at its second lock, and waits for a higher address than the
  one it holds: the chain of such threads climbs, and there are finitely many
  threads. `PInv` adds that a thread's pointers are to registered players, its
  two players different, and that no player is logged in twice. For the
  refinement and `FairPosting`, `MInv` gives that no rating changes between
  `Expect`, which reads it, and the two writes that use it. The half of
  `FairPosting` about all other ratings is read off the refinement: only the
  step that posts changes a rating that is there, and only its own two.

* `ClientListsProofs`, about `ClientOps` too: `ClientListsAgree`,
  `ClientIdStable`, `ClientLogoutLeaves`, `ClientRefsExact`,
  `ClientFaultNeedsDisconnect`.
  - `ListInv`, for `ListsAgree`: an invitation is in no list twice (`Once`); while
    it is being added it is open and nobody else has it in hand (`Fresh`); a
    thread that has one in hand which is not closed has it in its list
    (`Pinned`); an open one is in its source's list (`Offered`); and only the
    target accepts (`Accepting`). That is why a game is in both lists: the target
    has it in its list when it accepts, and the source has had it there before.
  - `LeaveInv`, for `LogoutLeaves`: the loop of `client_logout` has dealt with
    every slot it has passed (`Visited`), and nobody adds to the list of a client
    that has no player any more (`NotIn`), for the client's mutex is held over
    the loop and `client->player` is cleared before it is released.
  - `RefInv`, for `RefsExact`: both kinds of counts as cardinalities of the sets
    of threads, lists, registries and invitations that refer to the object, and
    `Known`: the two ends of an invitation have logged in. `RefStep` says once
    for all what a step that adds or takes a member does to a count; the rest is
    which sets each action changes. `FaultNeedsDisconnect` follows, as a count
    is 0 only for a client whose thread is at the end.
* `PlayersProofs` further has `PlayersRefsExact` and `PlayersNoFreedPlayer`, by
  the same argument over slots, clients and threads (`Counted`). `UInv` says that
  whatever player a thread has a pointer to is in the registry, counted pointer
  or not; the registry's own reference keeps it until `preg_fini`, which takes
  players out only when no thread is left.
* `ConnectionProofs`: `ConnectionType`, `ConnectionNothingLost`,
  `ConnectionRequests`, `ConnectionMessages`. `InInv` and `OutInv`: the packets
  received are the first of those sent (`Leads`), and the stream of the former,
  what is on the way and what is left to send is the stream of the latter, as
  long as nothing was cut off. The heart is `NextPacket`: a buffer that holds
  as many units as its header asks for, at the front of a stream of whole
  packets, is the next one of them. `FlattenSeq` is a recursive function; that
  it exists, and grows at its end by the packet appended, is shown by the least
  index at which it would not (`LeastNat`, from the well-foundedness of finite
  subsets), as the theorems for induction cannot be instantiated.
* `ClientPacketsProofs`: `PacketsOneStory`, `PacketsNobodyLeftOut`,
  `PacketsMoverIsShown`, `PacketsRefusedMoveCounts`; and, because the packets
  follow the operations and hold none of them up (`PacketsFollow`: `PSpec`
  implies `Spec`), all theorems of `ClientOps`, of which `PacketsLogoutLeaves`
  and `PacketsImplementInvitations` state what the run checks.
  - `TaleInv`, for the first two: the story that each end of an invitation was
    told is a function of the state of the invitation, of whether some thread
    has one of three packets still to send (the first one, a MOVED, or the end),
    and, for the target, of whether it has logged out. `StepKinds` reduces the
    30 actions to the eight kinds of steps that this function can notice, and
    each kind has a lemma. `TellInv` says who can be at those labels at all: one
    thread withdraws an invitation (two may not even race to say so, unlike two
    that end a game), the source's thread sends INVITED, the target's ACCEPTED.
    `OneStory` reads off what the function may return, `NobodyLeftOut` what it
    returns when neither thread has anything to send.
  - `ShowInv`: who is to move has been shown the board, or some thread is at the
    label that shows it.
  - `Movers` and `Answered`: while a mover has yet to see whether its game is
    over, a closed game is either posted or in the hands of the opponent's
    thread with the right verdict; a mover plays a real role, for with role
    byte 0 there would be no winner to name.

Only model-checked: `Progress`, `Terminates`, `SendsComplete` and `HangsUp`. They
are liveness properties under fairness and out of the prover's reach, as is
`ENABLED`, which fairness is defined by. That `Elo`'s `UpperBounds` are what the
comments say (31 roundings of a logarithm) is computed, not proved; the proofs
use that they mirror each other. The five runs that are violated need no proof:
each has its counterexample.

## 5. What is not modelled, and the plan

Left out for good: `csapp.c` (a textbook's wrappers, one function of which is
called at start-up); debug output and the test scaffold; the command line and
out-of-memory and failed system calls at start-up, when there is one thread; the
growth of the array, which has no state that a caller can see, and
`arraylist_pop`, which nobody calls; memory that is leaked, which is in nobody's
state (a parsed move that is refused, a payload whose `recv` fails).

Left out as out of reach or without a property: the width of an id (a byte; 256
invitations in one list at a time) and of the length of the USERS text; that
`strtol` yields a `long` which is cut to an `int`; the layout of payloads.

Planned, in this order:

1. A run with two connections that share a descriptor: `close` in the service
   thread while others still hold the CLIENT.
2. Proofs of what the passing runs say about the violated ones: that the two
   deadlocks of run `deadlock` are the only waits for `log_mutex` by its holder,
   and that the only wrong result is the one for a drawn game, as invariants.
3. Safety parts of the liveness properties (what a thread that waits for ever
   waits for), as invariants that can be proved.
