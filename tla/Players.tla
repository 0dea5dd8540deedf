------------------------------- MODULE Players -------------------------------
(***************************************************************************)
(* The PLAYER objects and their registry: src/player.c and                 *)
(* src/player_registry.c, with every use the service threads of            *)
(* src/server.c and the operations of src/client.c make of a PLAYER.       *)
(*                                                                         *)
(* A PLAYER is its address, a positive number: player_post_result orders   *)
(* the two mutexes it takes by them.  Its mutex is taken for a statement   *)
(* everywhere else, and such a statement is one step that waits for it.    *)
(* A thread is a connection's service thread; its name then serves the     *)
(* next connection.  Who may log in is module ClientOps; here client_login *)
(* is one step.  A thread that posts, or that asks for USERS, may have     *)
(* pointers to players that have logged out since it read them.            *)
(***************************************************************************)
EXTENDS Elo, Sequences

CONSTANTS
    Names,      \* the user names
    Threads,    \* the service threads
    Addresses,  \* where malloc may put a PLAYER
    NoName, NoThread, NoCall,
    MaxCalls    \* bound: the LOGINs, USERS and ends of games there are in all

NULL == 0

ASSUME AddressesAssumption == Addresses \subseteq Nat \ {NULL}
ASSUME ThreadsAssumption == IsFiniteSet(Threads)
ASSUME MaxCallsAssumption == MaxCalls \in Nat
ASSUME NoneAssumption ==
    /\ NoThread \notin Threads /\ NoName \notin Names
    /\ NoCall \notin [first : Addresses, second : Addresses, result : Results]

VARIABLES
    slots,      \* preg->players: the array's order plays no role
    pname, refs, rating,    \* the PLAYERs' fields; pname is NoName before it exists
    pm,         \* pm[a]: who holds the mutex of the PLAYER at a
    pregm, cregm,   \* who holds the mutex of the player, the client registry
    mine,       \* the service thread's variable `player'
    logged,     \* client->player of the thread's client
    pc, want,   \* where a thread is; the name it registers
    seen, got, list,    \* creg_all_players: the slots it is past, pp, plist
    args, gap,  \* the arguments of player_post_result; the ratings' distance
    ncalls,     \* counts those
    fini        \* preg_fini has begun

players == <<slots, pname, rating>>
usersVars == <<seen, got, list>>
postVars  == <<args, gap>>
vars == <<players, refs, pm, pregm, cregm, mine, logged, pc, want,
          usersVars, postVars, ncalls, fini>>

Label == {"idle", "scan", "create", "login", "in", "users", "users_ref", "show",
          "lock1", "lock2", "expect", "write1", "write2", "unlock", "out"}

Goto(t, l) == pc' = [pc EXCEPT ![t] = l]

\* The PLAYER's mutex is free, for a statement that takes and releases it.
Free(a) == pm[a] = NoThread

\* player_create, and references up to r: its own is for the caller.
player_create(a, n, r) ==
    /\ pname' = [pname EXCEPT ![a] = n]
    /\ rating' = [rating EXCEPT ![a] = PLAYER_INITIAL_RATING]
    /\ refs' = [refs EXCEPT ![a] = r]

player_ref(a)   == refs' = [refs EXCEPT ![a] = @ + 1]
player_unref(a) == refs' = [refs EXCEPT ![a] = @ - 1]

-----------------------------------------------------------------------------
Init ==
    /\ slots = {}
    /\ pname = [a \in Addresses |-> NoName]
    /\ refs = [a \in Addresses |-> 0]
    /\ rating = [a \in Addresses |-> 0]
    /\ pm = [a \in Addresses |-> NoThread]
    /\ pregm = NoThread
    /\ cregm = NoThread
    /\ mine = [t \in Threads |-> NULL]
    /\ logged = [t \in Threads |-> NULL]
    /\ pc = [t \in Threads |-> "idle"]
    /\ want = [t \in Threads |-> NoName]
    /\ seen = [t \in Threads |-> {}]
    /\ got = [t \in Threads |-> NULL]
    /\ list = [t \in Threads |-> << >>]
    /\ args = [t \in Threads |-> NoCall]
    /\ gap = [t \in Threads |-> 0]
    /\ ncalls = 0
    /\ fini = FALSE

-----------------------------------------------------------------------------
\* A LOGIN packet: preg_register, under the registry's mutex ...

\* Mutant: it does not wait for the mutex.
RegBeginUnlocked(t, n) ==
    /\ pc[t] = "idle" /\ ~fini /\ ncalls < MaxCalls
    /\ pregm' = t
    /\ ncalls' = ncalls + 1
    /\ want' = [want EXCEPT ![t] = n]
    /\ Goto(t, "scan")
    /\ UNCHANGED <<players, refs, pm, cregm, mine, logged, usersVars, postVars, fini>>

RegBegin(t, n) ==
    /\ pc[t] = "idle" /\ ~fini /\ pregm = NoThread /\ ncalls < MaxCalls
    /\ pregm' = t
    /\ ncalls' = ncalls + 1
    /\ want' = [want EXCEPT ![t] = n]
    /\ Goto(t, "scan")
    /\ UNCHANGED <<players, refs, pm, cregm, mine, logged, usersVars, postVars, fini>>

RegDone(t, a) ==
    /\ mine' = [mine EXCEPT ![t] = a]
    /\ pregm' = NoThread
    /\ want' = [want EXCEPT ![t] = NoName]
    /\ Goto(t, "login")
    /\ UNCHANGED <<pm, cregm, logged, usersVars, postVars, ncalls, fini>>

\* ... compares the names, taking the mutex of one player after the other.
\* One step, for names do not change, nor the array under the registry's
\* mutex; it does not wait for the mutexes, which may be taken again behind
\* it, but Needs counts them.  It refers to the player it finds ...
RegFound(t) ==
    /\ pc[t] = "scan"
    /\ \E a \in slots : pname[a] = want[t] /\ Free(a) /\ player_ref(a) /\ RegDone(t, a)
    /\ UNCHANGED players

RegNone(t) ==
    /\ pc[t] = "scan"
    /\ \A a \in slots : pname[a] # want[t]
    /\ Goto(t, "create")
    /\ UNCHANGED <<players, refs, pm, pregm, cregm, mine, logged, want, usersVars,
                   postVars, ncalls, fini>>

\* Mutant: the registry keeps the pointer and no reference.
RegCreateUncounted(t) ==
    /\ pc[t] = "create"
    /\ \E a \in Addresses \ slots :
           /\ player_create(a, want[t], 1)
           /\ slots' = slots \cup {a}
           /\ RegDone(t, a)

\* ... or creates one: a reference for the caller and one for the registry.
RegCreate(t) ==
    /\ pc[t] = "create"
    /\ \E a \in Addresses \ slots :
           /\ player_create(a, want[t], 2)
           /\ slots' = slots \cup {a}
           /\ RegDone(t, a)

\* Mutant of Login: a refused login keeps its reference.
LoginLeaking(t) ==
    LET p == mine[t] IN
    /\ pc[t] = "login" /\ Free(p)
    /\ IF \E u \in Threads : logged[u] = p
       THEN /\ mine' = [mine EXCEPT ![t] = NULL]
            /\ UNCHANGED <<logged, refs>>
            /\ Goto(t, "idle")
       ELSE /\ logged' = [logged EXCEPT ![t] = p]
            /\ player_ref(p)
            /\ UNCHANGED mine
            /\ Goto(t, "in")
    /\ UNCHANGED <<players, pm, pregm, cregm, want, usersVars, postVars, ncalls, fini>>

\* client_login takes a reference of its own; a refused one is given back.
Login(t) ==
    LET p == mine[t] IN
    /\ pc[t] = "login" /\ Free(p)
    /\ IF \E u \in Threads : logged[u] = p
       THEN /\ player_unref(p)
            /\ mine' = [mine EXCEPT ![t] = NULL]
            /\ UNCHANGED logged
            /\ Goto(t, "idle")
       ELSE /\ player_ref(p)
            /\ logged' = [logged EXCEPT ![t] = p]
            /\ UNCHANGED mine
            /\ Goto(t, "in")
    /\ UNCHANGED <<players, pm, pregm, cregm, want, usersVars, postVars, ncalls, fini>>

-----------------------------------------------------------------------------
\* A USERS packet: creg_all_players visits the clients, under the client
\* registry's mutex, which keeps nobody from logging in or out meanwhile.

UsersBegin(t) ==
    /\ pc[t] = "in" /\ cregm = NoThread /\ ncalls < MaxCalls
    /\ cregm' = t
    /\ ncalls' = ncalls + 1
    /\ Goto(t, "users")
    /\ UNCHANGED <<players, refs, pm, pregm, mine, logged, want, usersVars,
                   postVars, fini>>

\* Mutant: a client that is not logged in has a player, too.
UsersLookUnchecked(t, u) ==
    /\ pc[t] = "users" /\ u \notin seen[t]
    /\ seen' = [seen EXCEPT ![t] = @ \cup {u}]
    /\ got' = [got EXCEPT ![t] = logged[u]]
    /\ Goto(t, "users_ref")
    /\ UNCHANGED <<players, refs, pm, pregm, cregm, mine, logged, want, list,
                   postVars, ncalls, fini>>

\* client_get_player, which releases the client's mutex ...
UsersLook(t, u) ==
    /\ pc[t] = "users" /\ u \notin seen[t]
    /\ seen' = [seen EXCEPT ![t] = @ \cup {u}]
    /\ got' = [got EXCEPT ![t] = logged[u]]
    /\ Goto(t, IF logged[u] = NULL THEN "users" ELSE "users_ref")
    /\ UNCHANGED <<players, refs, pm, pregm, cregm, mine, logged, want, list,
                   postVars, ncalls, fini>>

\* ... before player_ref takes the player's.
UsersRef(t) ==
    /\ pc[t] = "users_ref" /\ Free(got[t])
    /\ player_ref(got[t])
    /\ list' = [list EXCEPT ![t] = Append(@, got[t])]
    /\ got' = [got EXCEPT ![t] = NULL]
    /\ Goto(t, "users")
    /\ UNCHANGED <<players, pm, pregm, cregm, mine, logged, want, seen,
                   postVars, ncalls, fini>>

UsersEnd(t) ==
    /\ pc[t] = "users" /\ seen[t] = Threads
    /\ cregm' = NoThread
    /\ seen' = [seen EXCEPT ![t] = {}]
    /\ Goto(t, "show")
    /\ UNCHANGED <<players, refs, pm, pregm, mine, logged, want, got, list,
                   postVars, ncalls, fini>>

\* The service thread prints name and rating and drops the reference.
Show(t) ==
    /\ pc[t] = "show" /\ list[t] # << >> /\ Free(Head(list[t]))
    /\ player_unref(Head(list[t]))
    /\ list' = [list EXCEPT ![t] = Tail(@)]
    /\ UNCHANGED <<players, pm, pregm, cregm, mine, logged, pc, want, seen, got,
                   postVars, ncalls, fini>>

ShowEnd(t) ==
    /\ pc[t] = "show" /\ list[t] = << >>
    /\ Goto(t, "in")
    /\ UNCHANGED <<players, refs, pm, pregm, cregm, mine, logged, want, usersVars,
                   postVars, ncalls, fini>>

-----------------------------------------------------------------------------
\* player_post_result, at the end of a game of two clients; client_logout
\* may end one after the service thread has dropped its reference.

PostCall(t, u, r) ==
    /\ pc[t] \in {"in", "out"} /\ u # t /\ logged[u] # NULL /\ ncalls < MaxCalls
    /\ args' = [args EXCEPT ![t] = [first |-> logged[t], second |-> logged[u], result |-> r]]
    /\ ncalls' = ncalls + 1
    /\ Goto(t, "lock1")
    /\ UNCHANGED <<players, refs, pm, pregm, cregm, mine, logged, want, usersVars,
                   gap, fini>>

\* Mutants: the arguments as they are; the players swapped and the result not.
AsGiven(t) == args[t]
PlayersSwapped(t) ==
    LET a == args[t] IN
    IF a.first > a.second
    THEN [first |-> a.second, second |-> a.first, result |-> a.result]
    ELSE a

\* The arguments once they are in the order of the addresses.
Ordered(t) ==
    LET a == args[t] IN
    IF a.first > a.second
    THEN [first |-> a.second, second |-> a.first,
          result |-> IF a.result = 0 THEN 0 ELSE (a.result % 2) + 1]
    ELSE a

First(t)  == Ordered(t).first
Second(t) == Ordered(t).second
Score(t, n) == Score32(Ordered(t).result, n)

\* Lock or unlock a player's mutex, on the way from label l to m.
SetMutex(t, l, m, a, from, to) ==
    /\ pc[t] = l /\ pm[a] = from
    /\ pm' = [pm EXCEPT ![a] = to]
    /\ Goto(t, m)
    /\ UNCHANGED <<players, refs, pregm, cregm, mine, logged, want, usersVars,
                   postVars, ncalls, fini>>

Lock1(t)   == SetMutex(t, "lock1", "lock2", First(t), NoThread, t)
Lock2(t)   == SetMutex(t, "lock2", "expect", Second(t), NoThread, t)

\* Both expectations follow from how far the ratings are apart.
Expect(t) ==
    /\ pc[t] = "expect"
    /\ gap' = [gap EXCEPT ![t] = rating[Second(t)] - rating[First(t)]]
    /\ Goto(t, "write1")
    /\ UNCHANGED <<players, refs, pm, pregm, cregm, mine, logged, want, usersVars,
                   args, ncalls, fini>>

\* The new rating of the second player; of the first one.
Rating1(t) == NewRating(rating[First(t)], rating[First(t)] + gap[t], Score(t, 1))
Rating2(t) == NewRating(rating[Second(t)], rating[Second(t)] - gap[t], Score(t, 2))

Write1(t) ==
    /\ pc[t] = "write1"
    /\ rating' = [rating EXCEPT ![First(t)] = Rating1(t)]
    /\ Goto(t, "write2")
    /\ UNCHANGED <<slots, pname, refs, pm, pregm, cregm, mine, logged, want,
                   usersVars, postVars, ncalls, fini>>

Write2(t) ==
    /\ pc[t] = "write2"
    /\ rating' = [rating EXCEPT ![Second(t)] = Rating2(t)]
    /\ Goto(t, "unlock")
    /\ UNCHANGED <<slots, pname, refs, pm, pregm, cregm, mine, logged, want,
                   usersVars, postVars, ncalls, fini>>

\* Nobody gets the second player's mutex and learns that the first is taken.
Unlock(t) ==
    /\ pc[t] = "unlock"
    /\ pm' = [pm EXCEPT ![First(t)] = NoThread, ![Second(t)] = NoThread]
    /\ args' = [args EXCEPT ![t] = NoCall]
    /\ gap' = [gap EXCEPT ![t] = 0]
    /\ Goto(t, IF mine[t] = NULL THEN "out" ELSE "in")
    /\ UNCHANGED <<players, refs, pregm, cregm, mine, logged, want, usersVars,
                   ncalls, fini>>

-----------------------------------------------------------------------------
\* The end of a connection: the service thread's reference goes, then that
\* of the client.

DropOwn(t) ==
    /\ pc[t] = "in" /\ Free(mine[t])
    /\ player_unref(mine[t])
    /\ mine' = [mine EXCEPT ![t] = NULL]
    /\ Goto(t, "out")
    /\ UNCHANGED <<players, pm, pregm, cregm, logged, want, usersVars, postVars, ncalls, fini>>

Logout(t) ==
    /\ pc[t] = "out" /\ Free(logged[t])
    /\ player_unref(logged[t])
    /\ logged' = [logged EXCEPT ![t] = NULL]
    /\ Goto(t, "idle")
    /\ UNCHANGED <<players, pm, pregm, cregm, mine, want, usersVars, postVars, ncalls, fini>>

\* The main thread, once no client is registered any more: preg_fini drops
\* the registry's references.
Fini ==
    /\ ~fini /\ \A t \in Threads : pc[t] = "idle"
    /\ fini' = TRUE
    /\ UNCHANGED <<players, refs, pm, pregm, cregm, mine, logged, pc, want, usersVars,
                   postVars, ncalls>>

FiniNext(a) ==
    /\ fini /\ a \in slots
    /\ player_unref(a)
    /\ slots' = slots \ {a}
    /\ UNCHANGED <<pname, rating, pm, pregm, cregm, mine, logged, pc, want, usersVars,
                   postVars, ncalls, fini>>

-----------------------------------------------------------------------------
Next ==
    \/ \E t \in Threads :
           \/ \E n \in Names : RegBegin(t, n)
           \/ RegFound(t) \/ RegNone(t) \/ RegCreate(t) \/ Login(t)
           \/ UsersBegin(t) \/ UsersRef(t) \/ UsersEnd(t) \/ Show(t) \/ ShowEnd(t)
           \/ Lock1(t) \/ Lock2(t) \/ Expect(t) \/ Write1(t) \/ Write2(t) \/ Unlock(t)
           \/ DropOwn(t) \/ Logout(t)
    \/ \E t, u \in Threads : UsersLook(t, u) \/ \E r \in Results : PostCall(t, u, r)
    \/ Fini \/ \E a \in Addresses : FiniNext(a)

Spec == Init /\ [][Next]_vars

-----------------------------------------------------------------------------
NoneOrCall == {NoCall} \cup [first : Addresses, second : Addresses, result : Results]

\* The labels at which a thread is a player's, or posts for two of them.
Posting  == {"lock1", "lock2", "expect", "write1", "write2", "unlock"}
LoggedIn == {"in", "out", "users", "users_ref", "show"} \cup Posting

\* The pointers that the code follows without a look are not NULL.
NoNull ==
    \A t \in Threads :
        /\ pc[t] \in {"login", "in", "users", "users_ref", "show"} => mine[t] # NULL
        /\ pc[t] \in LoggedIn => logged[t] # NULL
        /\ pc[t] = "users_ref" => got[t] # NULL
        /\ pc[t] \in Posting => args[t] # NoCall

TypeOK ==
    /\ slots \in SUBSET Addresses
    /\ pname \in [Addresses -> Names \cup {NoName}]
    /\ refs \in [Addresses -> Int]
    /\ rating \in [Addresses -> Int]
    /\ pm \in [Addresses -> Threads \cup {NoThread}]
    /\ pregm \in Threads \cup {NoThread}
    /\ cregm \in Threads \cup {NoThread}
    /\ mine \in [Threads -> Addresses \cup {NULL}]
    /\ logged \in [Threads -> Addresses \cup {NULL}]
    /\ pc \in [Threads -> Label]
    /\ want \in [Threads -> Names \cup {NoName}]
    /\ seen \in [Threads -> SUBSET Threads]
    /\ got \in [Threads -> Addresses \cup {NULL}]
    /\ list \in [Threads -> Seq(Addresses)]
    /\ args \in [Threads -> NoneOrCall]
    /\ gap \in [Threads -> Int]
    /\ ncalls \in 0..MaxCalls
    /\ fini \in BOOLEAN
    /\ NoNull

(***************************************************************************)
(* Reference counts are exact: a player counts its slot in the registry,   *)
(* the service threads and clients that have it, and its places in the     *)
(* lists of USERS.  So the registry's references are the last ones, and    *)
(* preg_fini frees every player.                                           *)
(***************************************************************************)
RefsExact ==
    \A a \in Addresses :
        refs[a] = (IF a \in slots THEN 1 ELSE 0)
                  + Cardinality({t \in Threads : mine[t] = a})
                  + Cardinality({t \in Threads : logged[t] = a})
                  + Cardinality({e \in Threads \X (1..Cardinality(Threads)) :
                                     /\ e[2] \in DOMAIN list[e[1]]
                                     /\ list[e[1]][e[2]] = a})

(***************************************************************************)
(* A thread never uses a PLAYER that has been freed, though the pointers   *)
(* that client_get_player returns to creg_all_players and for              *)
(* player_post_result are not counted, and their clients may log out.      *)
(***************************************************************************)
InHand(t) ==
    {mine[t], logged[t], got[t]} \cup {list[t][k] : k \in DOMAIN list[t]}
    \cup (IF args[t] = NoCall THEN {} ELSE {args[t].first, args[t].second})
    \cup (IF pc[t] = "scan" THEN slots ELSE {})

NoFreedPlayer == \A t \in Threads : \A a \in InHand(t) \ {NULL} : refs[a] > 0

(***************************************************************************)
(* There is one PLAYER for a name, however many clients log in with it at  *)
(* the same time: its rating is the rating of everybody of that name.      *)
(***************************************************************************)
OnePlayerPerName ==
    \A a, b \in Addresses : pname[a] = pname[b] /\ pname[a] # NoName => a = b

\* The players whose mutex a thread needs to go on.
Needs(t) ==
    CASE pc[t] = "scan" -> slots
      [] pc[t] \in {"login", "in"} -> {mine[t]}
      [] pc[t] = "users_ref" -> {got[t]}
      [] pc[t] = "show" /\ list[t] # << >> -> {Head(list[t])}
      [] pc[t] = "lock1" -> {First(t)}
      [] pc[t] = "lock2" -> {Second(t)}
      [] pc[t] = "out" -> {logged[t]}
      [] OTHER -> {}

(***************************************************************************)
(* No set of threads waits for each other: three games among the same      *)
(* three players that end at once do not stop, whichever way round their   *)
(* results are posted, nor does a LOGIN or a USERS that runs into them.    *)
(***************************************************************************)
NoLockCycle ==
    \A S \in (SUBSET Threads) \ {{}} :
        \E t \in S : \A a \in Needs(t) : pm[a] \notin S

\* A rating as it is once the posting that is writing ratings is through: it
\* takes effect on both players when it writes the first one.
Writing(a) == {t \in Threads : pc[t] = "write2" /\ Second(t) = a}
Shown(a) ==
    IF Writing(a) = {} THEN rating[a] ELSE Rating2(CHOOSE t \in Writing(a) : TRUE)

\* The threads, two locks and three statements each, implement the postings
\* of module Ratings: none is lost, none is seen by half, none goes to the
\* wrong player, and a player keeps its rating from one login to the next.
Promise == INSTANCE Ratings WITH
    Rated   <- Addresses,
    ratings <- [a \in {b \in Addresses : pname[b] # NoName} |-> Shown(a)],
    calls   <- [t \in Threads |->
                    IF pc[t] \in {"lock1", "lock2", "expect", "write1"}
                    THEN args[t] ELSE NoCall]
ImplementsRatings == Promise!RSpec

\* Games move points from one player to the other and make none, whatever the
\* threads do meanwhile; every rating is rounded on its own.  Nothing but a game
\* of its own changes the rating of a player once there is one: no other
\* posting, no LOGIN under its name, and no disconnect.
Ratings == [a \in Addresses |-> Shown(a)]
Posts(t) == pc[t] = "write1" /\ pc'[t] # "write1"
FairPosting ==
    [][/\ \A t \in Threads : Posts(t) => FairExchange(args[t], Ratings, Ratings')
       /\ \A a \in Addresses : pname[a] # NoName /\ Ratings'[a] # Ratings[a] =>
              \E t \in Threads : Posts(t) /\ a \in {args[t].first, args[t].second}]_vars
=============================================================================
