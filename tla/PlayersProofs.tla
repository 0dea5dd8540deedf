---------------------------- MODULE PlayersProofs ----------------------------
(***************************************************************************)
(* Proofs about module Players, for any number of threads, user names and  *)
(* addresses, and for any bound on the number of calls.                    *)
(***************************************************************************)
EXTENDS Players, EloProofs, SequenceTheorems, FiniteSetTheorems, WellFoundedInduction

USE DEF NULL

\* A new rating is an int.
LEMMA NewRatingInt ==
    ASSUME NEW own \in Int, NEW other \in Int, NEW score \in Int
    PROVE  NewRating(own, other, score) \in Int
<1>1. Expected32(other - own) \in Int
  BY other - own \in Int, ExpectedRange
<1>2. QED
  BY <1>1 DEF NewRating

\* The two players of a call, ordered, are the players of the call.
LEMMA OrderedType ==
    ASSUME TypeOK, NEW t \in Threads, args[t] # NoCall
    PROVE  /\ First(t) \in Addresses /\ Second(t) \in Addresses
           /\ {First(t), Second(t)} = {args[t].first, args[t].second}
           /\ Ordered(t).result \in Results
           /\ Score(t, 1) \in Int /\ Score(t, 2) \in Int
           /\ First(t) <= Second(t)
<1>1. args[t] \in [first : Addresses, second : Addresses, result : Results]
  BY DEF TypeOK, NoneOrCall
<1>2. args[t].first \in Nat /\ args[t].second \in Nat /\ args[t].result \in 0..2
  BY <1>1, AddressesAssumption DEF Results
<1>3. CASE args[t].first > args[t].second
  <2>1. Ordered(t) = [first |-> args[t].second, second |-> args[t].first,
                      result |-> IF args[t].result = 0 THEN 0 ELSE (args[t].result % 2) + 1]
    BY <1>3 DEF Ordered
  <2>2. Ordered(t).result \in 0..2
    BY <1>2, <2>1
  <2>3. QED
    BY <1>1, <1>2, <1>3, <2>1, <2>2 DEF First, Second, Score, Score32, Results
<1>4. CASE ~(args[t].first > args[t].second)
  BY <1>1, <1>2, <1>4 DEF Ordered, First, Second, Score, Score32, Results
<1>5. QED
  BY <1>3, <1>4

LEMMA InitType == Init => TypeOK
<1> SUFFICES ASSUME Init PROVE TypeOK
  OBVIOUS
<1>1. NoNull
  BY DEF Init, NoNull, LoggedIn, Posting
<1>3. /\ slots \in SUBSET Addresses /\ pname \in [Addresses -> Names \cup {NoName}]
      /\ refs \in [Addresses -> Int] /\ rating \in [Addresses -> Int]
      /\ pm \in [Addresses -> Threads \cup {NoThread}]
      /\ pregm \in Threads \cup {NoThread} /\ cregm \in Threads \cup {NoThread}
  BY DEF Init
<1>4. /\ mine \in [Threads -> Addresses \cup {NULL}]
      /\ logged \in [Threads -> Addresses \cup {NULL}]
      /\ pc \in [Threads -> Label] /\ want \in [Threads -> Names \cup {NoName}]
      /\ seen \in [Threads -> SUBSET Threads] /\ got \in [Threads -> Addresses \cup {NULL}]
  BY DEF Init, Label
<1>5. list \in [Threads -> Seq(Addresses)]
  BY DEF Init
<1>6. /\ args \in [Threads -> NoneOrCall] /\ gap \in [Threads -> Int]
      /\ ncalls \in 0..MaxCalls /\ fini \in BOOLEAN
  <2>1. args \in [Threads -> NoneOrCall]
    <3>1. NoCall \in NoneOrCall
      BY DEF NoneOrCall
    <3>2. QED
      BY <3>1 DEF Init
  <2>2. ncalls \in 0..MaxCalls
    BY MaxCallsAssumption DEF Init
  <2>3. gap \in [Threads -> Int]
    BY DEF Init
  <2>4. fini \in BOOLEAN
    BY Zenon DEF Init
  <2>5. QED
    BY <2>1, <2>2, <2>3, <2>4
<1>7. QED
  BY <1>1, <1>3, <1>4, <1>5, <1>6 DEF TypeOK

-----------------------------------------------------------------------------
\* Type correctness.  A step keeps the types of what it assigns; a label at
\* which a pointer is followed is entered only with the pointer set.

LEMMA TypeRegister ==
    ASSUME TypeOK, NEW t \in Threads,
           \/ \E n \in Names : RegBegin(t, n)
           \/ RegFound(t) \/ RegNone(t) \/ RegCreate(t) \/ Login(t)
    PROVE  TypeOK'
<1> USE DEF TypeOK
<1>1. CASE \E n \in Names : RegBegin(t, n)
  <2>1. PICK n \in Names : RegBegin(t, n)
    BY <1>1
  <2>2. ncalls' \in 0..MaxCalls
    BY <2>1, MaxCallsAssumption DEF RegBegin
  <2>3. NoNull'
    BY <2>1 DEF RegBegin, Goto, NoNull, LoggedIn, Posting, usersVars, postVars, Label
  <2>4. QED
    BY <2>1, <2>2, <2>3 DEF RegBegin, Goto, players, usersVars, postVars, Label
<1>2. CASE RegFound(t)
  BY <1>2, AddressesAssumption DEF RegFound, RegDone, player_ref, Goto, NoNull, LoggedIn,
     Posting, players, usersVars, postVars, Label
<1>3. CASE RegNone(t)
  BY <1>3 DEF RegNone, Goto, NoNull, LoggedIn, Posting, players, usersVars, postVars, Label
<1>4. CASE RegCreate(t)
  <2>1. PICK a \in Addresses \ slots :
            /\ pname' = [pname EXCEPT ![a] = want[t]]
            /\ rating' = [rating EXCEPT ![a] = PLAYER_INITIAL_RATING]
            /\ refs' = [refs EXCEPT ![a] = 2]
            /\ slots' = slots \cup {a}
            /\ RegDone(t, a)
    BY <1>4 DEF RegCreate, player_create
  <2>2. /\ slots' \in SUBSET Addresses /\ pname' \in [Addresses -> Names \cup {NoName}]
        /\ refs' \in [Addresses -> Int] /\ rating' \in [Addresses -> Int]
    BY <2>1 DEF PLAYER_INITIAL_RATING
  <2>3. NoNull'
    BY <1>4, <2>1, AddressesAssumption
    DEF RegCreate, player_create, RegDone, Goto, NoNull, LoggedIn, Posting, usersVars, postVars
  <2>4. /\ mine' \in [Threads -> Addresses \cup {NULL}] /\ pc' \in [Threads -> Label]
        /\ pregm' \in Threads \cup {NoThread} /\ want' \in [Threads -> Names \cup {NoName}]
    BY <2>1 DEF RegDone, Goto, Label
  <2>5. UNCHANGED <<pm, cregm, logged, seen, got, list, args, gap, ncalls, fini>>
    BY <2>1 DEF RegDone, usersVars, postVars
  <2>6. /\ pm' \in [Addresses -> Threads \cup {NoThread}] /\ cregm' \in Threads \cup {NoThread}
        /\ logged' \in [Threads -> Addresses \cup {NULL}]
        /\ seen' \in [Threads -> SUBSET Threads] /\ got' \in [Threads -> Addresses \cup {NULL}]
        /\ list' \in [Threads -> Seq(Addresses)] /\ args' \in [Threads -> NoneOrCall]
        /\ gap' \in [Threads -> Int] /\ ncalls' \in 0..MaxCalls /\ fini' \in BOOLEAN
    BY <2>5
  <2>7. QED
    BY <2>2, <2>3, <2>4, <2>6
<1>5. CASE Login(t)
  <2>1. mine[t] \in Addresses
    BY <1>5 DEF Login, NoNull
  <2>2. \/ Goto(t, "idle") /\ mine' = [mine EXCEPT ![t] = NULL] /\ logged' = logged
        \/ Goto(t, "in") /\ mine' = mine /\ logged' = [logged EXCEPT ![t] = mine[t]]
    BY <1>5 DEF Login
  <2>3. refs' \in [Addresses -> Int]
    BY <1>5, <2>1 DEF Login, player_ref, player_unref
  <2>4. UNCHANGED <<players, pm, pregm, cregm, want, usersVars, postVars, ncalls, fini>>
    BY <1>5 DEF Login
  <2>5. /\ mine' \in [Threads -> Addresses \cup {NULL}] /\ pc' \in [Threads -> Label]
        /\ logged' \in [Threads -> Addresses \cup {NULL}]
    BY <2>1, <2>2 DEF Goto, Label
  <2>6. NoNull'
    BY <2>1, <2>2, <2>4, AddressesAssumption
    DEF Goto, NoNull, LoggedIn, Posting, usersVars, postVars
  <2>7. QED
    BY <2>3, <2>4, <2>5, <2>6 DEF players, usersVars, postVars
<1>6. QED
  BY <1>1, <1>2, <1>3, <1>4, <1>5

LEMMA TypeUsers ==
    ASSUME TypeOK, NEW t \in Threads,
           \/ UsersBegin(t) \/ UsersRef(t) \/ UsersEnd(t) \/ Show(t) \/ ShowEnd(t)
           \/ \E u \in Threads : UsersLook(t, u)
    PROVE  TypeOK'
<1> USE DEF TypeOK
<1>1. CASE UsersBegin(t)
  <2>1. ncalls' \in 0..MaxCalls
    BY <1>1, MaxCallsAssumption DEF UsersBegin
  <2>2. NoNull'
    BY <1>1 DEF UsersBegin, Goto, NoNull, LoggedIn, Posting, usersVars, postVars, Label
  <2>3. QED
    BY <1>1, <2>1, <2>2 DEF UsersBegin, Goto, players, usersVars, postVars, Label
<1>2. CASE UsersRef(t)
  <2>1. got[t] \in Addresses
    BY <1>2 DEF UsersRef, NoNull
  <2>2. /\ refs' \in [Addresses -> Int] /\ list' \in [Threads -> Seq(Addresses)]
        /\ got' \in [Threads -> Addresses \cup {NULL}] /\ pc' \in [Threads -> Label]
    BY <1>2, <2>1 DEF UsersRef, player_ref, Goto, Label
  <2>3. NoNull'
    BY <1>2 DEF UsersRef, Goto, NoNull, LoggedIn, Posting, postVars, Label
  <2>4. QED
    BY <1>2, <2>2, <2>3 DEF UsersRef, players, postVars
<1>3. CASE UsersEnd(t)
  <2>1. /\ seen' \in [Threads -> SUBSET Threads] /\ pc' \in [Threads -> Label]
    BY <1>3 DEF UsersEnd, Goto, Label
  <2>2. NoNull'
    BY <1>3 DEF UsersEnd, Goto, NoNull, LoggedIn, Posting, postVars, Label
  <2>3. QED
    BY <1>3, <2>1, <2>2 DEF UsersEnd, players, postVars
<1>4. CASE Show(t)
  <2>1. /\ Head(list[t]) \in Addresses /\ Tail(list[t]) \in Seq(Addresses)
    BY <1>4 DEF Show
  <2>2. /\ refs' \in [Addresses -> Int] /\ list' \in [Threads -> Seq(Addresses)]
    BY <1>4, <2>1 DEF Show, player_unref
  <2>3. NoNull'
    BY <1>4 DEF Show, NoNull, LoggedIn, Posting, postVars
  <2>4. QED
    BY <1>4, <2>2, <2>3 DEF Show, players, postVars
<1>5. CASE ShowEnd(t)
  <2>1. NoNull'
    BY <1>5 DEF ShowEnd, Goto, NoNull, LoggedIn, Posting, usersVars, postVars, Label
  <2>2. QED
    BY <1>5, <2>1 DEF ShowEnd, Goto, players, usersVars, postVars, Label
<1>6. CASE \E u \in Threads : UsersLook(t, u)
  <2>1. PICK u \in Threads : UsersLook(t, u)
    BY <1>6
  <2>2. /\ seen' \in [Threads -> SUBSET Threads] /\ got' \in [Threads -> Addresses \cup {NULL}]
        /\ pc' \in [Threads -> Label]
    BY <2>1 DEF UsersLook, Goto, Label
  <2>3. NoNull'
    BY <2>1 DEF UsersLook, Goto, NoNull, LoggedIn, Posting, postVars, Label
  <2>4. QED
    BY <2>1, <2>2, <2>3 DEF UsersLook, players, postVars
<1>7. QED
  BY <1>1, <1>2, <1>3, <1>4, <1>5, <1>6

LEMMA TypePost ==
    ASSUME TypeOK, NEW t \in Threads,
           \/ \E u \in Threads, r \in Results : PostCall(t, u, r)
           \/ Lock1(t) \/ Lock2(t) \/ Expect(t) \/ Write1(t) \/ Write2(t) \/ Unlock(t)
    PROVE  TypeOK'
<1> USE DEF TypeOK
<1>1. CASE \E u \in Threads, r \in Results : PostCall(t, u, r)
  <2>1. PICK u \in Threads, r \in Results : PostCall(t, u, r)
    BY <1>1
  <2> DEFINE call == [first |-> logged[t], second |-> logged[u], result |-> r]
  <2>2. call \in [first : Addresses, second : Addresses, result : Results]
    BY <2>1 DEF PostCall, NoNull, LoggedIn
  <2>3. args' \in [Threads -> NoneOrCall] /\ args'[t] # NoCall
    BY <2>1, <2>2, NoneAssumption DEF PostCall, NoneOrCall
  <2>4. ncalls' \in 0..MaxCalls
    BY <2>1, MaxCallsAssumption DEF PostCall
  <2>5. NoNull'
    BY <2>1, <2>3 DEF PostCall, Goto, NoNull, LoggedIn, Posting, usersVars
  <2>6. pc' \in [Threads -> Label]
    BY <2>1 DEF PostCall, Goto, Label
  <2>7. QED
    BY <2>1, <2>3, <2>4, <2>5, <2>6 DEF PostCall, players, usersVars
<1>2. ASSUME NEW l \in Posting, pc[t] \in Posting, Goto(t, l),
             UNCHANGED <<slots, pname, refs, pregm, cregm, mine, logged, want, usersVars,
                         args, ncalls, fini>>,
             rating' \in [Addresses -> Int], pm' \in [Addresses -> Threads \cup {NoThread}],
             gap' \in [Threads -> Int]
      PROVE  TypeOK'
  <2>1. NoNull'
    BY <1>2 DEF Goto, NoNull, LoggedIn, Posting, usersVars
  <2>2. pc' \in [Threads -> Label]
    BY <1>2 DEF Goto, Label, Posting
  <2>3. QED
    BY <1>2, <2>1, <2>2 DEF usersVars
<1>3. ASSUME pc[t] \in Posting
      PROVE  /\ First(t) \in Addresses /\ Second(t) \in Addresses
             /\ Rating1(t) \in Int /\ Rating2(t) \in Int
             /\ rating[Second(t)] - rating[First(t)] \in Int
  <2>1. args[t] # NoCall
    BY <1>3 DEF NoNull
  <2>2. /\ First(t) \in Addresses /\ Second(t) \in Addresses
        /\ Score(t, 1) \in Int /\ Score(t, 2) \in Int
    BY <2>1, OrderedType
  <2>3. /\ rating[First(t)] \in Int /\ rating[Second(t)] \in Int /\ gap[t] \in Int
    BY <2>2
  <2>4. /\ rating[First(t)] + gap[t] \in Int /\ rating[Second(t)] - gap[t] \in Int
        /\ rating[Second(t)] - rating[First(t)] \in Int
    BY <2>3
  <2>5. QED
    BY <2>2, <2>3, <2>4, NewRatingInt DEF Rating1, Rating2
<1>4. CASE Lock1(t) \/ Lock2(t)
  <2>1. pc[t] \in Posting
    BY <1>4 DEF Lock1, Lock2, SetMutex, Posting
  <2>2. \E a \in Addresses : pm' = [pm EXCEPT ![a] = t]
    BY <1>3, <1>4, <2>1 DEF Lock1, Lock2, SetMutex
  <2>3. pm' \in [Addresses -> Threads \cup {NoThread}]
    BY <2>2
  <2>4. QED
    BY <1>2, <1>4, <2>1, <2>3 DEF Lock1, Lock2, SetMutex, Posting, players, postVars
<1>5. CASE Expect(t)
  <2>1. pc[t] \in Posting
    BY <1>5 DEF Expect, Posting
  <2>2. gap' \in [Threads -> Int]
    BY <1>3, <1>5, <2>1 DEF Expect
  <2>3. QED
    BY <1>2, <1>5, <2>1, <2>2 DEF Expect, Posting, players
<1>6. CASE Write1(t) \/ Write2(t)
  <2>1. pc[t] \in Posting
    BY <1>6 DEF Write1, Write2, Posting
  <2>2. rating' \in [Addresses -> Int]
    BY <1>3, <1>6, <2>1 DEF Write1, Write2
  <2>3. QED
    BY <1>2, <1>6, <2>1, <2>2 DEF Write1, Write2, Posting, postVars
<1>7. CASE Unlock(t)
  <2>1. pc[t] \in Posting /\ logged[t] # NULL
    BY <1>7 DEF Unlock, Posting, NoNull, LoggedIn
  <2>2. /\ pm' \in [Addresses -> Threads \cup {NoThread}]
        /\ gap' \in [Threads -> Int] /\ pc' \in [Threads -> Label]
    <3>1. pm' \in [Addresses -> Threads \cup {NoThread}]
      BY <1>3, <1>7, <2>1 DEF Unlock
    <3>2. gap' \in [Threads -> Int]
      BY <1>7 DEF Unlock
    <3>3. pc' \in [Threads -> Label]
      BY <1>7 DEF Unlock, Goto, Label
    <3>4. QED
      BY <3>1, <3>2, <3>3
  <2>3. args' \in [Threads -> NoneOrCall]
    <3>1. NoCall \in NoneOrCall
      BY DEF NoneOrCall
    <3>2. QED
      BY <1>7, <3>1 DEF Unlock
  <2>4. NoNull'
    BY <1>7, <2>1 DEF Unlock, Goto, NoNull, LoggedIn, Posting, usersVars
  <2>5. QED
    BY <1>7, <2>2, <2>3, <2>4 DEF Unlock, players, usersVars
<1>8. QED
  BY <1>1, <1>4, <1>5, <1>6, <1>7

LEMMA TypeEnd ==
    ASSUME TypeOK,
           \/ \E t \in Threads : DropOwn(t) \/ Logout(t)
           \/ Fini \/ \E a \in Addresses : FiniNext(a)
    PROVE  TypeOK'
<1> USE DEF TypeOK
<1>1. ASSUME NEW t \in Threads, DropOwn(t) PROVE TypeOK'
  <2>1. mine[t] \in Addresses
    BY <1>1 DEF DropOwn, NoNull
  <2>2. /\ refs' \in [Addresses -> Int] /\ mine' \in [Threads -> Addresses \cup {NULL}]
        /\ pc' \in [Threads -> Label]
    BY <1>1, <2>1 DEF DropOwn, player_unref, Goto, Label
  <2>3. NoNull'
    BY <1>1 DEF DropOwn, Goto, NoNull, LoggedIn, Posting, usersVars, postVars
  <2>4. QED
    BY <1>1, <2>2, <2>3 DEF DropOwn, players, usersVars, postVars
<1>2. ASSUME NEW t \in Threads, Logout(t) PROVE TypeOK'
  <2>1. logged[t] \in Addresses
    BY <1>2 DEF Logout, NoNull, LoggedIn
  <2>2. /\ refs' \in [Addresses -> Int] /\ logged' \in [Threads -> Addresses \cup {NULL}]
        /\ pc' \in [Threads -> Label]
    BY <1>2, <2>1 DEF Logout, player_unref, Goto, Label
  <2>3. NoNull'
    BY <1>2 DEF Logout, Goto, NoNull, LoggedIn, Posting, usersVars, postVars
  <2>4. QED
    BY <1>2, <2>2, <2>3 DEF Logout, players, usersVars, postVars
<1>3. CASE Fini
  <2>1. fini' \in BOOLEAN
    BY <1>3, Zenon DEF Fini
  <2>2. NoNull'
    BY <1>3 DEF Fini, NoNull, usersVars, postVars
  <2>3. QED
    BY <1>3, <2>1, <2>2 DEF Fini, players, usersVars, postVars
<1>4. ASSUME NEW a \in Addresses, FiniNext(a) PROVE TypeOK'
  <2>1. slots' \in SUBSET Addresses /\ refs' \in [Addresses -> Int]
    BY <1>4 DEF FiniNext, player_unref
  <2>2. NoNull'
    BY <1>4 DEF FiniNext, NoNull, usersVars, postVars
  <2>3. QED
    BY <1>4, <2>1, <2>2 DEF FiniNext, usersVars, postVars
<1>5. QED
  BY <1>1, <1>2, <1>3, <1>4

LEMMA TypeNext == TypeOK /\ [Next]_vars => TypeOK'
<1> SUFFICES ASSUME TypeOK, [Next]_vars PROVE TypeOK'
  OBVIOUS
<1>1. CASE Next
  BY <1>1, TypeRegister, TypeUsers, TypePost, TypeEnd DEF Next
<1>2. CASE UNCHANGED vars
  BY <1>2 DEF vars, players, usersVars, postVars, TypeOK, NoNull
<1>3. QED
  BY <1>1, <1>2

\* TypeOK: every PLAYER pointer that is followed without a look is set.
THEOREM PlayersTypeOK == Spec => []TypeOK
<1>1. Init => TypeOK
  BY InitType
<1>2. TypeOK /\ [Next]_vars => TypeOK'
  BY TypeNext
<1>3. QED
  BY <1>1, <1>2, PTL DEF Spec

-----------------------------------------------------------------------------
\* One player for a name.  The registry's mutex keeps it true while a thread
\* registers a name; and what is not in the registry has no name yet, until
\* preg_fini takes players out, when every thread has ended.

NInv ==
    /\ TypeOK
    /\ \A t \in Threads : pc[t] \in {"scan", "create"} => pregm = t /\ want[t] \in Names
    /\ \A t \in Threads : pc[t] = "create" => \A a \in slots : pname[a] # want[t]
    /\ \A a \in slots : pname[a] # NoName
    /\ ~fini => \A a \in Addresses : pname[a] # NoName => a \in slots
    /\ fini => \A t \in Threads : pc[t] = "idle"
    /\ OnePlayerPerName

LEMMA InitNames == Init => NInv
BY InitType DEF Init, NInv, OnePlayerPerName

\* A step of a thread that does not register a name.
LEMMA NamesKept ==
    ASSUME NInv, TypeOK', NEW t \in Threads, NEW l \in Label \ {"scan", "create"},
           Goto(t, l), pc[t] \notin {"idle", "scan", "create"},
           UNCHANGED <<slots, pname, pregm, want, fini>>
    PROVE  NInv'
<1>1. \A u \in Threads \ {t} : pc'[u] = pc[u]
  BY DEF Goto, NInv, TypeOK
<1>2. pc'[t] = l
  BY DEF Goto, NInv, TypeOK
<1>3. ~fini
  BY DEF NInv
<1>4. QED
  BY <1>1, <1>2, <1>3 DEF NInv, OnePlayerPerName

LEMMA NamesRegister ==
    ASSUME NInv, TypeOK', NEW t \in Threads,
           \/ \E n \in Names : RegBegin(t, n)
           \/ RegFound(t) \/ RegNone(t) \/ RegCreate(t)
    PROVE  NInv'
<1>1. /\ ~fini
      /\ \A u \in Threads \ {t} : pc'[u] = pc[u] /\ pc[u] \notin {"scan", "create"}
  <2>1. \A u \in Threads \ {t} : pc'[u] = pc[u]
    BY DEF RegBegin, RegFound, RegNone, RegCreate, player_create, RegDone, Goto, NInv, TypeOK
  <2>2. CASE \E n \in Names : RegBegin(t, n)
    <3>1. pregm = NoThread /\ ~fini
      BY <2>2 DEF RegBegin
    <3>2. QED
      BY <2>1, <3>1, NoneAssumption DEF NInv
  <2>3. CASE RegFound(t) \/ RegNone(t) \/ RegCreate(t)
    <3>1. pc[t] \in {"scan", "create"}
      BY <2>3 DEF RegFound, RegNone, RegCreate, player_create
    <3>2. QED
      BY <2>1, <3>1 DEF NInv
  <2>4. QED
    BY <2>2, <2>3
<1>2. CASE \E n \in Names : RegBegin(t, n)
  <2>1. PICK n \in Names : RegBegin(t, n)
    BY <1>2
  <2>2. /\ pregm' = t /\ want'[t] = n /\ pc'[t] = "scan"
        /\ UNCHANGED <<slots, pname, fini>>
    BY <2>1 DEF RegBegin, Goto, players, NInv, TypeOK
  <2>3. QED
    BY <1>1, <2>2 DEF NInv, OnePlayerPerName
<1>3. CASE RegFound(t)
  <2>1. pc'[t] = "login" /\ UNCHANGED <<slots, pname, fini>>
    BY <1>3 DEF RegFound, RegDone, Goto, players, NInv, TypeOK
  <2>2. QED
    BY <1>1, <2>1 DEF NInv, OnePlayerPerName
<1>4. CASE RegNone(t)
  <2>1. /\ pc[t] = "scan" /\ pc'[t] = "create" /\ UNCHANGED <<slots, pname, pregm, want, fini>>
        /\ \A a \in slots : pname[a] # want[t]
    BY <1>4 DEF RegNone, Goto, players, NInv, TypeOK
  <2>2. QED
    BY <1>1, <2>1 DEF NInv, OnePlayerPerName
<1>5. CASE RegCreate(t)
  <2>1. PICK a \in Addresses \ slots :
            pname' = [pname EXCEPT ![a] = want[t]] /\ slots' = slots \cup {a}
    BY <1>5 DEF RegCreate, player_create
  <2>2. /\ pc[t] = "create" /\ pc'[t] = "login" /\ fini' = fini
    BY <1>5 DEF RegCreate, player_create, RegDone, Goto, NInv, TypeOK
  <2>3. pname'[a] = want[t] /\ \A b \in Addresses \ {a} : pname'[b] = pname[b]
    BY <2>1 DEF NInv, TypeOK
  <2>4. want[t] \in Names /\ \A b \in Addresses : pname[b] # NoName => b \in slots /\ pname[b] # want[t]
    BY <1>1, <2>2 DEF NInv
  <2>5. OnePlayerPerName'
    BY <2>1, <2>3, <2>4 DEF NInv, OnePlayerPerName
  <2>6. \A b \in Addresses : pname'[b] # NoName => b \in slots'
    BY <2>1, <2>3, <2>4
  <2>7. \A b \in slots' : pname'[b] # NoName
    BY <2>1, <2>3, <2>4, NoneAssumption DEF NInv, TypeOK
  <2>8. QED
    BY <1>1, <2>2, <2>5, <2>6, <2>7 DEF NInv
<1>6. QED
  BY <1>2, <1>3, <1>4, <1>5

LEMMA NamesNext == NInv /\ [Next]_vars => NInv'
<1> SUFFICES ASSUME NInv, [Next]_vars PROVE NInv'
  OBVIOUS
<1>1. TypeOK /\ TypeOK'
  BY TypeNext DEF NInv
<1>2. ASSUME NEW t \in Threads,
             \/ \E n \in Names : RegBegin(t, n)
             \/ RegFound(t) \/ RegNone(t) \/ RegCreate(t)
      PROVE  NInv'
  BY <1>1, <1>2, NamesRegister
<1>3. ASSUME NEW t \in Threads,
             \/ Login(t) \/ UsersBegin(t) \/ UsersRef(t) \/ UsersEnd(t) \/ ShowEnd(t)
             \/ Lock1(t) \/ Lock2(t) \/ Expect(t) \/ Write1(t) \/ Write2(t) \/ Unlock(t)
             \/ DropOwn(t) \/ Logout(t)
             \/ \E u \in Threads : UsersLook(t, u) \/ \E r \in Results : PostCall(t, u, r)
      PROVE  NInv'
  <2>1. pc[t] \notin {"idle", "scan", "create"} /\ UNCHANGED <<slots, pname, pregm, want, fini>>
    BY <1>3 DEF Login, UsersBegin, UsersRef, UsersEnd, ShowEnd, Lock1, Lock2, Expect, Write1,
                Write2, Unlock, DropOwn, Logout, UsersLook, PostCall, SetMutex, players
  <2>2. \E l \in Label \ {"scan", "create"} : Goto(t, l)
    BY <1>3 DEF Login, UsersBegin, UsersRef, UsersEnd, ShowEnd, Lock1, Lock2, Expect, Write1,
                Write2, Unlock, DropOwn, Logout, UsersLook, PostCall, SetMutex, Label
  <2>3. QED
    BY <1>1, <2>1, <2>2, NamesKept
<1>4. CASE \/ \E t \in Threads : Show(t)
           \/ UNCHANGED vars
  <2>1. UNCHANGED <<slots, pname, pregm, want, fini, pc>>
    BY <1>4 DEF Show, players, vars
  <2>2. QED
    BY <1>1, <2>1 DEF NInv, OnePlayerPerName
<1>5. CASE Fini
  <2>1. fini' /\ UNCHANGED <<slots, pname, pc>> /\ \A t \in Threads : pc[t] = "idle"
    BY <1>5 DEF Fini, players
  <2>2. QED
    BY <1>1, <2>1 DEF NInv, OnePlayerPerName
<1>6. ASSUME NEW a \in Addresses, FiniNext(a) PROVE NInv'
  <2>1. fini /\ fini' /\ slots' \subseteq slots /\ UNCHANGED <<pname, pc>>
    BY <1>6 DEF FiniNext
  <2>2. QED
    BY <1>1, <2>1 DEF NInv, OnePlayerPerName
<1>7. QED
  BY <1>2, <1>3, <1>4, <1>5, <1>6 DEF Next

\* There is one PLAYER for a name.
THEOREM PlayersOnePerName == Spec => []OnePlayerPerName
<1>1. Init => NInv
  BY InitNames
<1>2. NInv /\ [Next]_vars => NInv'
  BY NamesNext
<1>3. NInv => OnePlayerPerName
  BY DEF NInv
<1>4. QED
  BY <1>1, <1>2, <1>3, PTL DEF Spec

-----------------------------------------------------------------------------
\* Who has which player.  All pointers are to players of the registry, two
\* clients are not logged in as one, and so the players of a call differ.

Without == {"idle", "scan", "create", "out"}

PInv ==
    /\ NInv
    /\ \A t \in Threads :
           /\ pc[t] \in Without => mine[t] = NULL
           /\ pc[t] \notin LoggedIn => logged[t] = NULL
           /\ pc[t] \notin Posting => args[t] = NoCall
           /\ mine[t] # NULL => mine[t] \in slots
           /\ logged[t] # NULL => logged[t] \in slots
           /\ args[t] # NoCall => /\ args[t].first \in slots /\ args[t].second \in slots
                                  /\ args[t].first # args[t].second
    /\ \A t, u \in Threads : logged[t] = logged[u] /\ logged[t] # NULL => t = u

LEMMA InitPointers == Init => PInv
BY InitNames DEF Init, PInv, LoggedIn, Posting

\* A step that moves no pointer.
LEMMA PointersKept ==
    ASSUME PInv, NInv', slots \subseteq slots', UNCHANGED <<mine, logged, args>>,
           NEW t \in Threads, NEW l, Goto(t, l),
           l \in Without => pc[t] \in Without,
           l \notin LoggedIn => pc[t] \notin LoggedIn,
           l \notin Posting => pc[t] \notin Posting
    PROVE  PInv'
<1>1. pc'[t] = l /\ \A u \in Threads \ {t} : pc'[u] = pc[u]
  BY DEF Goto, PInv, NInv, TypeOK
<1>2. \A u \in Threads : /\ pc'[u] \in Without => pc[u] \in Without
                         /\ pc'[u] \notin LoggedIn => pc[u] \notin LoggedIn
                         /\ pc'[u] \notin Posting => pc[u] \notin Posting
  BY <1>1
<1>3. QED
  BY <1>2 DEF PInv

LEMMA PointersRegister ==
    ASSUME PInv, NInv', NEW t \in Threads, RegFound(t) \/ RegCreate(t) \/ Login(t)
    PROVE  PInv'
<1> USE DEF PInv, Without, LoggedIn, Posting
<1>0. TypeOK
  BY DEF NInv
<1>1. CASE RegFound(t) \/ RegCreate(t)
  <2>1. PICK a \in Addresses : RegDone(t, a) /\ a \in slots' /\ slots \subseteq slots'
    BY <1>1, <1>0 DEF RegFound, RegCreate, player_create, players, TypeOK
  <2>2. /\ pc'[t] = "login" /\ mine'[t] = a
        /\ \A u \in Threads \ {t} : pc'[u] = pc[u] /\ mine'[u] = mine[u]
        /\ UNCHANGED <<logged, args>>
    BY <1>0, <2>1 DEF RegDone, Goto, TypeOK, postVars
  <2>3. pc[t] \in {"scan", "create"}
    BY <1>1 DEF RegFound, RegCreate, player_create
  <2>4. QED
    BY <2>1, <2>2, <2>3
<1>2. CASE Login(t)
  <2>1. pc[t] = "login" /\ mine[t] \in slots /\ args[t] = NoCall /\ logged[t] = NULL
    BY <1>0, <1>2 DEF Login, TypeOK, NoNull
  <2>2. UNCHANGED <<slots, args>>
    BY <1>2 DEF Login, players, postVars
  <2>3. CASE \E u \in Threads : logged[u] = mine[t]
    <3>1. /\ pc'[t] = "idle" /\ mine'[t] = NULL /\ logged' = logged
          /\ \A u \in Threads \ {t} : pc'[u] = pc[u] /\ mine'[u] = mine[u]
      BY <1>0, <1>2, <2>3 DEF Login, Goto, TypeOK
    <3>2. QED
      BY <2>1, <2>2, <3>1
  <2>4. CASE ~\E u \in Threads : logged[u] = mine[t]
    <3>1. /\ pc'[t] = "in" /\ logged'[t] = mine[t] /\ mine' = mine
          /\ \A u \in Threads \ {t} : pc'[u] = pc[u] /\ logged'[u] = logged[u]
      BY <1>0, <1>2, <2>4 DEF Login, Goto, TypeOK
    <3>2. QED
      BY <2>1, <2>2, <2>4, <3>1
  <2>5. QED
    BY <2>3, <2>4
<1>3. QED
  BY <1>1, <1>2

LEMMA PointersPost ==
    ASSUME PInv, NInv', NEW t \in Threads,
           Unlock(t) \/ \E u \in Threads, r \in Results : PostCall(t, u, r)
    PROVE  PInv'
<1> USE DEF PInv, Without, LoggedIn, Posting
<1>0. TypeOK
  BY DEF NInv
<1>1. CASE Unlock(t)
  <2>1. /\ pc'[t] = (IF mine[t] = NULL THEN "out" ELSE "in") /\ args'[t] = NoCall
        /\ \A u \in Threads \ {t} : pc'[u] = pc[u] /\ args'[u] = args[u]
        /\ UNCHANGED <<slots, mine, logged>> /\ pc[t] = "unlock"
    BY <1>0, <1>1 DEF Unlock, Goto, TypeOK, players
  <2>2. QED
    BY <2>1
<1>2. CASE \E u \in Threads, r \in Results : PostCall(t, u, r)
  <2>1. PICK u \in Threads, r \in Results : PostCall(t, u, r)
    BY <1>2
  <2>2. /\ pc[t] \in {"in", "out"} /\ u # t /\ logged[u] # NULL /\ logged[t] # NULL
        /\ pc'[t] = "lock1" /\ UNCHANGED <<slots, mine, logged>>
        /\ args'[t] = [first |-> logged[t], second |-> logged[u], result |-> r]
        /\ \A v \in Threads \ {t} : pc'[v] = pc[v] /\ args'[v] = args[v]
    BY <1>0, <2>1 DEF PostCall, Goto, TypeOK, NoNull, players
  <2>3. args'[t].first \in slots /\ args'[t].second \in slots /\ args'[t].first # args'[t].second
    BY <2>2
  <2>4. QED
    BY <2>2, <2>3
<1>3. QED
  BY <1>1, <1>2

LEMMA PointersEnd ==
    ASSUME PInv, NInv',
           \/ \E t \in Threads : DropOwn(t) \/ Logout(t)
           \/ Fini \/ \E a \in Addresses : FiniNext(a)
    PROVE  PInv'
<1> USE DEF PInv, Without, LoggedIn, Posting
<1>0. TypeOK
  BY DEF NInv
<1>1. ASSUME NEW t \in Threads, DropOwn(t) PROVE PInv'
  <2>1. /\ pc[t] = "in" /\ pc'[t] = "out" /\ mine'[t] = NULL /\ UNCHANGED <<slots, logged, args>>
        /\ \A u \in Threads \ {t} : pc'[u] = pc[u] /\ mine'[u] = mine[u]
    BY <1>0, <1>1 DEF DropOwn, Goto, TypeOK, players, postVars
  <2>2. QED
    BY <2>1
<1>2. ASSUME NEW t \in Threads, Logout(t) PROVE PInv'
  <2>1. /\ pc[t] = "out" /\ pc'[t] = "idle" /\ logged'[t] = NULL /\ UNCHANGED <<slots, mine, args>>
        /\ \A u \in Threads \ {t} : pc'[u] = pc[u] /\ logged'[u] = logged[u]
    BY <1>0, <1>2 DEF Logout, Goto, TypeOK, players, postVars
  <2>2. QED
    BY <2>1
<1>3. CASE Fini
  BY <1>3 DEF Fini, players, postVars
<1>4. ASSUME NEW a \in Addresses, FiniNext(a) PROVE PInv'
  <2>1. fini /\ UNCHANGED <<pc, mine, logged, args>>
    BY <1>4 DEF FiniNext, postVars
  <2>2. \A t \in Threads : pc[t] = "idle"
    BY <2>1 DEF NInv
  <2>3. \A t \in Threads : mine[t] = NULL /\ logged[t] = NULL /\ args[t] = NoCall
    BY <2>2
  <2>4. QED
    BY <2>1, <2>2, <2>3
<1>5. QED
  BY <1>1, <1>2, <1>3, <1>4

LEMMA PointersNext == PInv /\ [Next]_vars => PInv'
<1> SUFFICES ASSUME PInv, [Next]_vars PROVE PInv'
  OBVIOUS
<1>1. NInv'
  BY NamesNext DEF PInv
<1>2. ASSUME NEW t \in Threads,
             \/ \E n \in Names : RegBegin(t, n)
             \/ RegNone(t) \/ UsersBegin(t) \/ UsersRef(t) \/ UsersEnd(t) \/ ShowEnd(t)
             \/ Lock1(t) \/ Lock2(t) \/ Expect(t) \/ Write1(t) \/ Write2(t)
             \/ \E u \in Threads : UsersLook(t, u)
      PROVE  PInv'
  <2>1. UNCHANGED <<slots, mine, logged, args>>
    BY <1>2 DEF RegBegin, RegNone, UsersBegin, UsersRef, UsersEnd, ShowEnd, Lock1, Lock2,
                Expect, Write1, Write2, UsersLook, SetMutex, players, postVars
  <2>2. \E l : /\ Goto(t, l)
               /\ l \in Without => pc[t] \in Without
               /\ l \notin LoggedIn => pc[t] \notin LoggedIn
               /\ l \notin Posting => pc[t] \notin Posting
    BY <1>2 DEF RegBegin, RegNone, UsersBegin, UsersRef, UsersEnd, ShowEnd, Lock1, Lock2,
                Expect, Write1, Write2, UsersLook, SetMutex, Without, LoggedIn, Posting
  <2>3. QED
    BY <1>1, <2>1, <2>2, PointersKept
<1>3. CASE UNCHANGED vars \/ \E t \in Threads : Show(t)
  <2>1. UNCHANGED <<slots, mine, logged, args, pc>>
    BY <1>3 DEF Show, players, postVars, vars
  <2>2. QED
    BY <1>1, <2>1 DEF PInv
<1>4. QED
  BY <1>1, <1>2, <1>3, PointersRegister, PointersPost, PointersEnd DEF Next

-----------------------------------------------------------------------------
\* The mutexes of the players.  A thread has those of its call that it has
\* locked and no other one, and while it has both the ratings are its own.

Owning  == {"expect", "write1", "write2", "unlock"}
Holding == Owning \cup {"lock2"}

MInv ==
    /\ PInv
    /\ \A t \in Threads :
           /\ pc[t] \in Holding => pm[First(t)] = t
           /\ pc[t] \in Owning => pm[Second(t)] = t
           /\ pc[t] = "write1" => gap[t] = rating[Second(t)] - rating[First(t)]
    /\ \A t \in Threads, a \in Addresses : pm[a] = t =>
           pc[t] \in Holding /\ (a = First(t) \/ (pc[t] \in Owning /\ a = Second(t)))

LEMMA InitMutexes == Init => MInv
BY InitPointers, NoneAssumption DEF Init, MInv, Holding, Owning

\* The players of a thread that posts.
LEMMA TwoPlayers ==
    ASSUME PInv, NEW t \in Threads, pc[t] \in Posting
    PROVE  /\ First(t) \in Addresses /\ Second(t) \in Addresses /\ First(t) # Second(t)
           /\ First(t) \in slots /\ Second(t) \in slots /\ First(t) < Second(t)
<1>1. TypeOK /\ args[t] # NoCall
  BY DEF PInv, NInv, TypeOK, NoNull
<1>2. /\ First(t) \in Addresses /\ Second(t) \in Addresses /\ First(t) <= Second(t)
      /\ {First(t), Second(t)} = {args[t].first, args[t].second}
  BY <1>1, OrderedType
<1>3. args[t].first # args[t].second /\ args[t].first \in slots /\ args[t].second \in slots
  BY <1>1 DEF PInv
<1>4. First(t) # Second(t) /\ First(t) \in slots /\ Second(t) \in slots
  BY <1>2, <1>3
<1>5. First(t) \in Nat /\ Second(t) \in Nat
  BY <1>2, AddressesAssumption
<1>6. QED
  BY <1>2, <1>4, <1>5

LEMMA SameCall ==
    ASSUME NEW t, args'[t] = args[t]
    PROVE  /\ Ordered(t)' = Ordered(t) /\ First(t)' = First(t) /\ Second(t)' = Second(t)
           /\ Score(t, 1)' = Score(t, 1) /\ Score(t, 2)' = Score(t, 2)
BY DEF Ordered, First, Second, Score

\* A step that locks, unlocks and posts nothing.
LEMMA MutexesKept ==
    ASSUME MInv, PInv', UNCHANGED <<pm, gap>>, \A a \in slots : rating'[a] = rating[a],
           \A u \in Threads : pc[u] \in Holding \/ pc'[u] \in Holding =>
               pc'[u] = pc[u] /\ args'[u] = args[u]
    PROVE  MInv'
<1>1. \A u \in Threads : pc'[u] \in Holding => pc[u] = pc'[u] /\ First(u)' = First(u) /\ Second(u)' = Second(u)
  BY SameCall
<1>2. \A u \in Threads : pc[u] \in Holding => pc[u] = pc'[u] /\ First(u)' = First(u) /\ Second(u)' = Second(u)
  BY SameCall
<1>3. \A u \in Threads : pc[u] \in Holding => rating'[First(u)] = rating[First(u)] /\ rating'[Second(u)] = rating[Second(u)]
  BY TwoPlayers DEF MInv, Holding, Owning, Posting
<1>4. \A u \in Threads : /\ pc'[u] \in Holding => pm'[First(u)'] = u
                         /\ pc'[u] \in Owning => pm'[Second(u)'] = u
  BY <1>1 DEF MInv, Holding
<1>5. \A u \in Threads : pc'[u] = "write1" => gap'[u] = rating'[Second(u)'] - rating'[First(u)']
  <2> SUFFICES ASSUME NEW u \in Threads, pc'[u] = "write1"
               PROVE  gap'[u] = rating'[Second(u)'] - rating'[First(u)']
    OBVIOUS
  <2>1. pc'[u] \in Holding /\ pc[u] \in Holding /\ pc[u] = "write1"
    BY <1>1 DEF Holding, Owning
  <2>2. QED
    BY <1>1, <1>3, <2>1 DEF MInv
<1>6. \A u \in Threads, a \in Addresses : pm'[a] = u =>
          pc'[u] \in Holding /\ (a = First(u)' \/ (pc'[u] \in Owning /\ a = Second(u)'))
  BY <1>2 DEF MInv
<1>7. QED
  BY <1>4, <1>5, <1>6 DEF MInv

\* A step of a thread that posts, between two labels at which it holds a
\* mutex or waits for its first one.
LEMMA MutexesPost ==
    ASSUME MInv, PInv', NEW t \in Threads,
           Lock1(t) \/ Lock2(t) \/ Expect(t) \/ Write1(t) \/ Write2(t)
    PROVE  MInv'
<1> DEFINE p == First(t)
           q == Second(t)
<1>0. TypeOK /\ TypeOK'
  BY DEF MInv, PInv, NInv
<1>1. pc[t] \in Posting /\ args' = args
  BY DEF Lock1, Lock2, Expect, Write1, Write2, SetMutex, Posting, postVars
<1>2. p \in Addresses /\ q \in Addresses /\ p # q
  BY <1>1, TwoPlayers DEF MInv
<1>3. \A u \in Threads : First(u)' = First(u) /\ Second(u)' = Second(u)
  BY <1>1, SameCall
<1>4. \A u \in Threads \ {t} : pc'[u] = pc[u] /\ gap'[u] = gap[u]
  BY <1>0 DEF Lock1, Lock2, Expect, Write1, Write2, SetMutex, postVars, Goto, TypeOK
<1>5. \A a \in Addresses \ {p, q} : pm'[a] = pm[a] /\ rating'[a] = rating[a]
  BY <1>0 DEF Lock1, Lock2, Expect, Write1, Write2, SetMutex, players, TypeOK
<1>6. /\ \/ /\ pc[t] = "lock1" /\ pc'[t] = "lock2" /\ pm[p] = NoThread
             /\ pm'[p] = t /\ pm'[q] = pm[q] /\ rating' = rating
          \/ /\ pc[t] = "lock2" /\ pc'[t] = "expect" /\ pm[q] = NoThread
             /\ pm'[q] = t /\ pm'[p] = pm[p] /\ rating' = rating
          \/ /\ pc[t] = "expect" /\ pc'[t] = "write1" /\ pm' = pm /\ rating' = rating
             /\ gap'[t] = rating[q] - rating[p]
          \/ /\ pc[t] = "write1" /\ pc'[t] = "write2" /\ pm' = pm
          \/ /\ pc[t] = "write2" /\ pc'[t] = "unlock" /\ pm' = pm
  BY <1>0, <1>2 DEF Lock1, Lock2, Expect, Write1, Write2, SetMutex, players, Goto, TypeOK
<1>7. /\ pc[t] \in Holding => pm[p] = t
      /\ pc[t] \in Owning => pm[q] = t
      /\ \A a \in Addresses : pm[a] = t =>
            pc[t] \in Holding /\ (a = p \/ (pc[t] \in Owning /\ a = q))
  BY DEF MInv
<1>8. /\ pc'[t] \in Holding /\ pm'[p] = t
      /\ pc'[t] \in Owning => pm'[q] = t
      /\ pc'[t] = "write1" => gap'[t] = rating'[q] - rating'[p]
      /\ \A a \in Addresses : pm'[a] = t => a = p \/ (pc'[t] \in Owning /\ a = q)
  BY <1>2, <1>5, <1>6, <1>7 DEF Holding, Owning
<1>9. ASSUME NEW u \in Threads \ {t}
      PROVE  /\ pc'[u] \in Holding => pm'[First(u)'] = u
             /\ pc'[u] \in Owning => pm'[Second(u)'] = u
             /\ pc'[u] = "write1" => gap'[u] = rating'[Second(u)'] - rating'[First(u)']
             /\ \A a \in Addresses : pm'[a] = u =>
                   pc'[u] \in Holding /\ (a = First(u)' \/ (pc'[u] \in Owning /\ a = Second(u)'))
  <2>1. pc[u] \in Holding => First(u) \in Addresses /\ Second(u) \in Addresses
    BY TwoPlayers DEF MInv, Holding, Owning, Posting
  <2>2. \A a \in Addresses : pm[a] = u <=> pm'[a] = u
    BY <1>2, <1>5, <1>6, <1>7, NoneAssumption DEF Holding, Owning
  <2>3. \A a \in Addresses : pm[a] = u => rating'[a] = rating[a]
    <3> SUFFICES ASSUME NEW a \in Addresses, pm[a] = u PROVE rating'[a] = rating[a]
      OBVIOUS
    <3>1. CASE rating' = rating
      BY <3>1
    <3>2. CASE pc[t] \in Owning
      <4>1. a # p /\ a # q
        BY <1>7, <3>2 DEF Holding
      <4>2. QED
        BY <1>5, <4>1
    <3>3. QED
      BY <1>6, <3>1, <3>2 DEF Owning
  <2>4. /\ pc[u] \in Holding => pm[First(u)] = u
        /\ pc[u] \in Owning => pm[Second(u)] = u
        /\ pc[u] = "write1" => gap[u] = rating[Second(u)] - rating[First(u)]
        /\ \A a \in Addresses : pm[a] = u =>
              pc[u] \in Holding /\ (a = First(u) \/ (pc[u] \in Owning /\ a = Second(u)))
    BY DEF MInv
  <2>5. pc[u] = "write1" => pc[u] \in Holding /\ pc[u] \in Owning
    BY DEF Holding, Owning
  <2>6. pc[u] \in Owning => pc[u] \in Holding
    BY DEF Holding
  <2>7. pc'[u] = pc[u] /\ gap'[u] = gap[u] /\ First(u)' = First(u) /\ Second(u)' = Second(u)
    BY <1>3, <1>4
  <2>8. pc[u] = "write1" => rating'[First(u)] = rating[First(u)] /\ rating'[Second(u)] = rating[Second(u)]
    BY <2>1, <2>3, <2>4, <2>5
  <2>9. QED
    BY <2>1, <2>2, <2>4, <2>5, <2>6, <2>7, <2>8
<1>10. QED
  BY <1>3, <1>8, <1>9 DEF MInv

LEMMA MutexesUnlock == ASSUME MInv, PInv', NEW t \in Threads, Unlock(t) PROVE MInv'
<1>0. TypeOK /\ TypeOK'
  BY DEF MInv, PInv, NInv
<1>1. First(t) \in Addresses /\ Second(t) \in Addresses /\ First(t) # Second(t)
  BY TwoPlayers DEF MInv, Unlock, Posting
<1>2. /\ pc[t] = "unlock" /\ pc'[t] \notin Holding
      /\ pm'[First(t)] = NoThread /\ pm'[Second(t)] = NoThread
      /\ \A a \in Addresses \ {First(t), Second(t)} : pm'[a] = pm[a]
      /\ rating' = rating
      /\ \A u \in Threads \ {t} : pc'[u] = pc[u] /\ gap'[u] = gap[u] /\ args'[u] = args[u]
  BY <1>0, <1>1 DEF Unlock, Goto, TypeOK, players, Holding, Owning
<1>3. \A a \in Addresses : pm'[a] # t
  BY <1>2, NoneAssumption DEF MInv
<1>4. pm[First(t)] = t /\ pm[Second(t)] = t
  BY <1>2 DEF MInv, Holding, Owning
<1>5. ASSUME NEW u \in Threads \ {t}
      PROVE  /\ pc'[u] \in Holding => pm'[First(u)'] = u
             /\ pc'[u] \in Owning => pm'[Second(u)'] = u
             /\ pc'[u] = "write1" => gap'[u] = rating'[Second(u)'] - rating'[First(u)']
             /\ \A a \in Addresses : pm'[a] = u =>
                   pc'[u] \in Holding /\ (a = First(u)' \/ (pc'[u] \in Owning /\ a = Second(u)'))
  <2>1. pc[u] \in Holding => First(u) \in Addresses /\ Second(u) \in Addresses
    BY TwoPlayers DEF MInv, Holding, Owning, Posting
  <2>2. \A a \in Addresses : pm[a] = u <=> pm'[a] = u
    BY <1>2, <1>4, NoneAssumption
  <2>3. First(u)' = First(u) /\ Second(u)' = Second(u)
    BY <1>2, SameCall
  <2>4. /\ pc[u] \in Holding => pm[First(u)] = u
        /\ pc[u] \in Owning => pm[Second(u)] = u
        /\ pc[u] = "write1" => gap[u] = rating[Second(u)] - rating[First(u)]
        /\ \A a \in Addresses : pm[a] = u =>
              pc[u] \in Holding /\ (a = First(u) \/ (pc[u] \in Owning /\ a = Second(u)))
    BY DEF MInv
  <2>5. pc[u] \in Owning => pc[u] \in Holding
    BY DEF Holding
  <2>6. QED
    BY <1>2, <2>1, <2>2, <2>3, <2>4, <2>5
<1>6. QED
  BY <1>2, <1>3, <1>5 DEF MInv, Holding, Owning

LEMMA MutexesNext == MInv /\ [Next]_vars => MInv'
<1> SUFFICES ASSUME MInv, [Next]_vars PROVE MInv'
  OBVIOUS
<1>0. PInv' /\ TypeOK
  BY PointersNext DEF MInv, PInv, NInv
<1>1. ASSUME NEW t \in Threads,
             \/ \E n \in Names : RegBegin(t, n)
             \/ RegFound(t) \/ RegNone(t) \/ Login(t)
             \/ UsersBegin(t) \/ UsersRef(t) \/ UsersEnd(t) \/ Show(t) \/ ShowEnd(t)
             \/ \E u \in Threads : UsersLook(t, u)
             \/ DropOwn(t) \/ Logout(t)
      PROVE  MInv'
  <2>1. UNCHANGED <<pm, gap, args, rating>>
    BY <1>1 DEF RegBegin, RegFound, RegDone, RegNone, Login, UsersBegin, UsersRef, UsersEnd, Show,
                ShowEnd, UsersLook, DropOwn, Logout, players, postVars
  <2>2. pc[t] \notin Holding
    BY <1>1 DEF RegBegin, RegFound, RegNone, Login, UsersBegin, UsersRef, UsersEnd, Show,
                ShowEnd, UsersLook, DropOwn, Logout, Holding, Owning
  <2>3. pc'[t] \notin Holding /\ \A u \in Threads \ {t} : pc'[u] = pc[u]
    <3>1. CASE pc' = pc
      BY <2>2, <3>1
    <3>2. CASE \E l \in {"scan", "create", "login", "idle", "in", "users", "users_ref", "show", "out"} :
                   Goto(t, l)
      BY <1>0, <3>2 DEF Goto, TypeOK, Holding, Owning
    <3>3. QED
      BY <1>1, <3>1, <3>2
      DEF RegBegin, RegFound, RegDone, RegNone, Login, UsersBegin, UsersRef, UsersEnd, Show,
          ShowEnd, UsersLook, DropOwn, Logout
  <2>4. QED
    BY <1>0, <2>1, <2>2, <2>3, MutexesKept
<1>2. ASSUME NEW t \in Threads, RegCreate(t) PROVE MInv'
  <2>1. /\ UNCHANGED <<pm, gap, args>> /\ pc[t] = "create" /\ pc'[t] = "login"
        /\ \A u \in Threads \ {t} : pc'[u] = pc[u]
    BY <1>0, <1>2 DEF RegCreate, player_create, RegDone, Goto, TypeOK, postVars
  <2>2. \A a \in slots : rating'[a] = rating[a]
    BY <1>0, <1>2 DEF RegCreate, player_create, TypeOK
  <2>3. QED
    BY <1>0, <2>1, <2>2, MutexesKept DEF Holding, Owning
<1>3. ASSUME NEW t \in Threads, \E u \in Threads, r \in Results : PostCall(t, u, r)
      PROVE  MInv'
  <2>1. /\ UNCHANGED <<pm, gap, rating>> /\ pc[t] \in {"in", "out"} /\ pc'[t] = "lock1"
        /\ \A u \in Threads \ {t} : pc'[u] = pc[u] /\ args'[u] = args[u]
    BY <1>0, <1>3 DEF PostCall, Goto, TypeOK, players
  <2>2. QED
    BY <1>0, <2>1, MutexesKept DEF Holding, Owning
<1>4. CASE Fini \/ (\E a \in Addresses : FiniNext(a)) \/ UNCHANGED vars
  <2>1. UNCHANGED <<pm, gap, args, rating, pc>>
    BY <1>4 DEF Fini, FiniNext, players, postVars, vars
  <2>2. QED
    BY <1>0, <2>1, MutexesKept
<1>5. QED
  BY <1>0, <1>1, <1>2, <1>3, <1>4, MutexesPost, MutexesUnlock DEF Next

-----------------------------------------------------------------------------
\* A thread that is waited for holds a mutex and waits itself: it has the
\* first player of its call, and the one it needs has a larger address.
LEMMA WaitingHolders ==
    ASSUME MInv, NEW S \in SUBSET Threads, \A t \in S : \E a \in Needs(t) : pm[a] \in S,
           NEW t \in S
    PROVE  \E u \in S : pc[u] = "lock2" /\ First(u) \in Needs(t)
<1>1. PICK a \in Needs(t) : pm[a] \in S
  OBVIOUS
<1>2. TypeOK
  BY DEF MInv, PInv, NInv
<1>3. a \in Addresses
  <2>1. pc[t] \in {"scan", "login", "in", "users_ref", "show", "lock1", "lock2", "out"}
    BY <1>1 DEF Needs
  <2>2. CASE pc[t] \in {"lock1", "lock2"}
    <3>1. First(t) \in Addresses /\ Second(t) \in Addresses
      BY <2>2, TwoPlayers DEF MInv, Posting
    <3>2. QED
      BY <1>1, <2>2, <3>1 DEF Needs
  <2>3. CASE pc[t] = "scan"
    BY <1>1, <1>2, <2>3 DEF Needs, TypeOK
  <2>4. CASE pc[t] = "show"
    <3>1. list[t] \in Seq(Addresses) /\ list[t] # << >> /\ a = Head(list[t])
      BY <1>1, <1>2, <2>4 DEF Needs, TypeOK
    <3>2. QED
      BY <3>1
  <2>5. CASE pc[t] \in {"login", "in", "users_ref", "out"}
    BY <1>1, <1>2, <2>5 DEF Needs, TypeOK, NoNull, LoggedIn
  <2>6. QED
    BY <2>1, <2>2, <2>3, <2>4, <2>5
<1> DEFINE u == pm[a]
<1>4. u \in Threads /\ pc[u] \in Holding /\ (a = First(u) \/ (pc[u] \in Owning /\ a = Second(u)))
  BY <1>1, <1>3 DEF MInv
<1>5. pc[u] \notin Owning
  <2>1. Needs(u) # {}
    BY <1>1
  <2>2. QED
    BY <2>1 DEF Needs, Owning
<1>6. pc[u] = "lock2" /\ a = First(u)
  BY <1>4, <1>5 DEF Holding
<1>7. QED
  BY <1>1, <1>6

LEMMA MutexesNoCycle == MInv => NoLockCycle
<1> SUFFICES ASSUME MInv, NEW S \in SUBSET Threads, S # {},
                    \A t \in S : \E a \in Needs(t) : pm[a] \in S
             PROVE  FALSE
  BY DEF NoLockCycle
<1> DEFINE L == {t \in S : pc[t] = "lock2"}
           Up(t) == {u \in L : First(u) >= First(t)}
           Ups == {Up(t) : t \in L}
<1>1. L # {}
  BY WaitingHolders
<1>2. \A t \in L : First(t) \in Nat /\ Second(t) \in Nat /\ First(t) < Second(t)
  BY TwoPlayers, AddressesAssumption DEF MInv, Posting
<1>3. ASSUME NEW t \in L PROVE \E u \in L : First(u) > First(t)
  <2>1. PICK u \in S : pc[u] = "lock2" /\ First(u) \in Needs(t)
    BY WaitingHolders
  <2>2. First(u) = Second(t)
    BY <2>1 DEF Needs
  <2>3. QED
    BY <1>2, <2>1, <2>2
<1>4. IsFiniteSet(L)
  BY FS_Subset, ThreadsAssumption
<1>5. IsWellFoundedOn(StrictSubsetOrdering(L), SUBSET L)
  BY <1>4, FS_StrictSubsetOrderingWellFounded, FS_FiniteSubsetsOfFinite
<1>6. Ups \subseteq SUBSET L /\ Ups # {}
  <2>1. Up(CHOOSE t \in L : TRUE) \in Ups
    BY <1>1
  <2>2. \A t \in L : Up(t) \subseteq L
    OBVIOUS
  <2>3. QED
    BY <2>1, <2>2
<1>7. PICK X \in Ups : \A Y \in Ups : <<Y, X>> \notin StrictSubsetOrdering(L)
  <2> HIDE DEF Ups
  <2>1. QED
    BY <1>5, <1>6, WFMin
<1>8. PICK t \in L : X = Up(t)
  BY <1>7
<1>9. PICK u \in L : First(u) > First(t)
  BY <1>3
<1>10. Up(u) \subseteq Up(t) /\ t \in Up(t) /\ t \notin Up(u)
  BY <1>2, <1>9
<1>11. <<Up(u), Up(t)>> \in StrictSubsetOrdering(L)
  BY <1>10 DEF StrictSubsetOrdering
<1>12. Up(u) \in Ups
  OBVIOUS
<1>13. QED
  BY <1>7, <1>8, <1>11, <1>12

\* The mutexes of the players, taken in the order of the addresses, never
\* make a set of threads wait for each other.
THEOREM PlayersNoLockCycle == Spec => []NoLockCycle
<1>1. Init => MInv
  BY InitMutexes
<1>2. MInv /\ [Next]_vars => MInv'
  BY MutexesNext
<1>3. MInv => NoLockCycle
  BY MutexesNoCycle
<1>4. QED
  BY <1>1, <1>2, <1>3, PTL DEF Spec

-----------------------------------------------------------------------------
\* What a posting does to the ratings, from the one step at which it takes
\* effect.

LEMMA ShownOf ==
    ASSUME NEW a
    PROVE  /\ Writing(a) = {} => Shown(a) = rating[a]
           /\ \A t : Writing(a) = {t} => Shown(a) = Rating2(t)
BY DEF Shown

LEMMA ShownOfNext ==
    ASSUME NEW a
    PROVE  /\ Writing(a)' = {} => Shown(a)' = rating'[a]
           /\ \A t : Writing(a)' = {t} => Shown(a)' = Rating2(t)'
<1>1. Writing(a)' = {} => Shown(a)' = rating'[a]
  BY DEF Shown
<1>2. ASSUME NEW t, Writing(a)' = {t} PROVE Shown(a)' = Rating2(t)'
  <2>1. (CHOOSE u \in Writing(a)' : TRUE) = t
    BY <1>2
  <2>2. QED
    BY <1>2, <2>1 DEF Shown
<1>3. QED
  BY <1>1, <1>2

\* The first thread to hold a player's mutex and to write is the only one.
LEMMA WritingOwner ==
    ASSUME MInv, NEW a \in Addresses, NEW t \in Threads, pm[a] = t
    PROVE  Writing(a) \subseteq {t}
BY DEF MInv, Writing, Owning

LEMMA Write1Shown ==
    ASSUME MInv, MInv', NEW t \in Threads, Write1(t),
           NEW p, NEW q, p = First(t), q = Second(t)
    PROVE  /\ Shown(p) = rating[p] /\ Shown(q) = rating[q]
           /\ Shown(p)' = NewRating(rating[p], rating[q], Score(t, 1))
           /\ Shown(q)' = NewRating(rating[q], rating[p], Score(t, 2))
           /\ \A a \in Addresses \ {p, q} : Shown(a)' = Shown(a)
<1>0. /\ TypeOK /\ pc[t] = "write1"
      /\ pm[p] = t /\ pm[q] = t /\ gap[t] = rating[q] - rating[p]
  BY DEF MInv, PInv, NInv, Write1, Holding, Owning
<1>1. p \in Addresses /\ q \in Addresses /\ p # q
  BY <1>0, TwoPlayers DEF MInv, Posting
<1>2. /\ UNCHANGED <<args, gap, pm>> /\ rating' = [rating EXCEPT ![p] = Rating1(t)]
      /\ pc' = [pc EXCEPT ![t] = "write2"]
  BY DEF Write1, Goto, postVars
<1>3. /\ pc'[t] = "write2" /\ \A u \in Threads \ {t} : pc'[u] = pc[u]
      /\ rating'[p] = Rating1(t) /\ \A a \in Addresses \ {p} : rating'[a] = rating[a]
  BY <1>0, <1>1, <1>2 DEF TypeOK
<1>4. rating[p] \in Int /\ rating[q] \in Int
  BY <1>0, <1>1 DEF TypeOK
<1>5. \A u \in Threads : Second(u)' = Second(u) /\ Score(u, 2)' = Score(u, 2)
  BY <1>2, SameCall
<1>6. Writing(p) = {} /\ Writing(q) = {}
  <2>1. Writing(p) \subseteq {t} /\ Writing(q) \subseteq {t}
    BY <1>0, <1>1, WritingOwner
  <2>2. t \notin Writing(p) /\ t \notin Writing(q)
    BY <1>0 DEF Writing
  <2>3. QED
    BY <2>1, <2>2
<1>7. \A a : Writing(a)' = IF a = q THEN Writing(a) \cup {t} ELSE Writing(a)
  BY <1>0, <1>3, <1>5 DEF Writing
<1>8. Shown(p) = rating[p] /\ Shown(q) = rating[q]
  BY <1>6, ShownOf
<1>9. Shown(p)' = NewRating(rating[p], rating[q], Score(t, 1))
  <2>1. Shown(p)' = Rating1(t)
    BY <1>1, <1>3, <1>6, <1>7, ShownOfNext
  <2>2. rating[p] + gap[t] = rating[q]
    BY <1>0, <1>4
  <2>3. QED
    BY <2>1, <2>2 DEF Rating1
<1>10. Shown(q)' = NewRating(rating[q], rating[p], Score(t, 2))
  <2>1. Shown(q)' = Rating2(t)'
    BY <1>6, <1>7, ShownOfNext
  <2>2. rating'[q] = rating[q] /\ gap'[t] = gap[t] /\ rating[q] - gap[t] = rating[p]
    BY <1>0, <1>1, <1>2, <1>3, <1>4
  <2>3. Rating2(t)' = NewRating(rating'[Second(t)'], rating'[Second(t)'] - gap'[t], Score(t, 2)')
    BY DEF Rating2, NewRating, Expected32, Bound, UpperBounds
  <2>4. QED
    BY <1>5, <2>1, <2>2, <2>3
<1>11. ASSUME NEW a \in Addresses \ {p, q} PROVE Shown(a)' = Shown(a)
  <2>1. Writing(a)' = Writing(a) /\ rating'[a] = rating[a]
    BY <1>3, <1>7
  <2>2. CASE Writing(a) = {}
    BY <2>1, <2>2, ShownOf, ShownOfNext
  <2>3. CASE Writing(a) # {}
    <3>1. PICK u \in Threads : pc[u] = "write2" /\ Second(u) = a
      BY <2>3 DEF Writing
    <3>2. Writing(a) = {u}
      BY <3>1, WritingOwner DEF MInv, Owning, Writing
    <3>3. Rating2(u)' = Rating2(u)
      <4>1. Rating2(u)' = NewRating(rating'[Second(u)'], rating'[Second(u)'] - gap'[u], Score(u, 2)')
        BY DEF Rating2, NewRating, Expected32, Bound, UpperBounds
      <4>2. QED
        BY <1>2, <1>5, <2>1, <3>1, <4>1 DEF Rating2
    <3>4. QED
      BY <2>1, <3>2, <3>3, ShownOf, ShownOfNext
  <2>4. QED
    BY <2>2, <2>3
<1>12. QED
  BY <1>8, <1>9, <1>10, <1>11

\* The call and its ordered form say the same of its two players.
LEMMA OrderedCall ==
    ASSUME MInv, NEW t \in Threads, pc[t] \in Posting
    PROVE  /\ args[t] \in [first : Addresses, second : Addresses, result : Results]
           /\ args[t].first # args[t].second
           /\ \/ /\ First(t) = args[t].first /\ Second(t) = args[t].second
                 /\ Score(t, 1) = Score32(args[t].result, 1)
                 /\ Score(t, 2) = Score32(args[t].result, 2)
              \/ /\ First(t) = args[t].second /\ Second(t) = args[t].first
                 /\ Score(t, 1) = Score32(args[t].result, 2)
                 /\ Score(t, 2) = Score32(args[t].result, 1)
<1>1. args[t] # NoCall /\ args[t] \in [first : Addresses, second : Addresses, result : Results]
  BY DEF MInv, PInv, NInv, TypeOK, NoNull, NoneOrCall
<1>2. args[t].first # args[t].second
  BY <1>1 DEF MInv, PInv
<1>3. CASE args[t].first > args[t].second
  <2>1. Ordered(t) = [first |-> args[t].second, second |-> args[t].first,
                      result |-> IF args[t].result = 0 THEN 0 ELSE (args[t].result % 2) + 1]
    BY <1>3 DEF Ordered
  <2>2. args[t].result \in 0..2
    BY <1>1 DEF Results
  <2>3. \/ args[t].result = 0 /\ Ordered(t).result = 0
        \/ args[t].result = 1 /\ Ordered(t).result = 2
        \/ args[t].result = 2 /\ Ordered(t).result = 1
    BY <2>1, <2>2
  <2>4. QED
    BY <1>1, <1>2, <2>1, <2>3 DEF First, Second, Score, Score32
<1>4. CASE ~(args[t].first > args[t].second)
  BY <1>1, <1>2, <1>4 DEF Ordered, First, Second, Score
<1>5. QED
  BY <1>3, <1>4

\* A step that writes the first rating writes both of the promise's.
LEMMA Write1Posts ==
    ASSUME MInv, MInv', NEW t \in Threads, Write1(t),
           NEW p, NEW q, p = args[t].first, q = args[t].second
    PROVE  /\ Shown(p) = rating[p] /\ Shown(q) = rating[q]
           /\ Shown(p)' = NewRating(rating[p], rating[q], Score32(args[t].result, 1))
           /\ Shown(q)' = NewRating(rating[q], rating[p], Score32(args[t].result, 2))
           /\ \A a \in Addresses \ {p, q} : Shown(a)' = Shown(a)
<1>1. pc[t] \in Posting
  BY DEF Write1, Posting
<1>2. CASE /\ First(t) = p /\ Second(t) = q
           /\ Score(t, 1) = Score32(args[t].result, 1)
           /\ Score(t, 2) = Score32(args[t].result, 2)
  BY <1>2, Write1Shown
<1>3. CASE /\ First(t) = q /\ Second(t) = p
           /\ Score(t, 1) = Score32(args[t].result, 2)
           /\ Score(t, 2) = Score32(args[t].result, 1)
  BY <1>3, Write1Shown
<1>4. QED
  BY <1>1, <1>2, <1>3, OrderedCall

\* The result of a game moves points from one player to the other and makes
\* none, whatever the other threads do in the meantime.
LEMMA StepFair ==
    ASSUME MInv, MInv', NEW t \in Threads, Write1(t)
    PROVE  FairExchange(args[t], Ratings, Ratings')
<1>0. /\ args[t] \in [first : Addresses, second : Addresses, result : Results]
      /\ args[t].first # args[t].second
  BY OrderedCall DEF Write1, Posting
<1>1. PICK p \in Addresses, q \in Addresses, res \in Results :
          p # q /\ args[t] = [first |-> p, second |-> q, result |-> res]
  BY <1>0
<1>2. p = args[t].first /\ q = args[t].second /\ res = args[t].result
  BY <1>1
<1>3. /\ Ratings[p] = rating[p] /\ Ratings[q] = rating[q]
      /\ Ratings'[p] = NewRating(rating[p], rating[q], Score32(res, 1))
      /\ Ratings'[q] = NewRating(rating[q], rating[p], Score32(res, 2))
  <2>1. /\ Shown(p) = rating[p] /\ Shown(q) = rating[q]
        /\ Shown(p)' = NewRating(rating[p], rating[q], Score32(res, 1))
        /\ Shown(q)' = NewRating(rating[q], rating[p], Score32(res, 2))
    BY <1>2, Write1Posts
  <2>2. QED
    BY <1>1, <2>1 DEF Ratings
<1>4. rating \in [Addresses -> Int]
  BY DEF MInv, PInv, NInv, TypeOK
<1>5. FairExchange([first |-> p, second |-> q, result |-> res], rating, Ratings')
  BY <1>1, <1>3, <1>4, EloFairExchange
<1>6. QED
  BY <1>1, <1>3, <1>5 DEF FairExchange

\* Nobody but the thread itself takes it on from the label "write1".
LEMMA FromWrite1 ==
    ASSUME MInv, [Next]_vars, NEW t \in Threads, pc[t] = "write1", pc'[t] # "write1"
    PROVE  Write1(t)
<1>0. TypeOK
  BY DEF MInv, PInv, NInv
<1>1. ASSUME NEW u \in Threads,
             \/ \E n \in Names : RegBegin(u, n)
             \/ RegFound(u) \/ RegNone(u) \/ RegCreate(u) \/ Login(u)
             \/ UsersBegin(u) \/ UsersRef(u) \/ UsersEnd(u) \/ Show(u) \/ ShowEnd(u)
             \/ Lock1(u) \/ Lock2(u) \/ Expect(u) \/ Write2(u) \/ Unlock(u)
             \/ DropOwn(u) \/ Logout(u)
             \/ \E v \in Threads : UsersLook(u, v) \/ \E r \in Results : PostCall(u, v, r)
      PROVE  FALSE
  <2>1. pc[u] # "write1"
    BY <1>1 DEF RegBegin, RegFound, RegNone, RegCreate, player_create, Login, UsersBegin,
       UsersRef,
                UsersEnd, Show, ShowEnd, Lock1, Lock2, Expect, Write2, Unlock, SetMutex,
                DropOwn, Logout, UsersLook, PostCall
  <2>2. pc' = pc \/ \E l : Goto(u, l)
    BY <1>1 DEF RegBegin, RegFound, RegNone, RegCreate, player_create, RegDone, Login,
       UsersBegin, UsersRef,
                UsersEnd, Show, ShowEnd, Lock1, Lock2, Expect, Write2, Unlock, SetMutex,
                DropOwn, Logout, UsersLook, PostCall
  <2>3. QED
    BY <1>0, <2>1, <2>2 DEF Goto, TypeOK
<1>2. CASE Fini \/ (\E a \in Addresses : FiniNext(a)) \/ UNCHANGED vars
  BY <1>2 DEF Fini, FiniNext, vars
<1>3. ASSUME NEW u \in Threads, Write1(u) PROVE Write1(t)
  BY <1>0, <1>3 DEF Write1, Goto, TypeOK
<1>4. QED
  BY <1>1, <1>2, <1>3 DEF Next

-----------------------------------------------------------------------------
\* The threads implement module Ratings.

Early == {"lock1", "lock2", "expect", "write1"}
Rated == {b \in Addresses : pname[b] # NoName}
RatingsBar == [a \in Rated |-> Shown(a)]
CallsBar == [t \in Threads |-> IF pc[t] \in Early THEN args[t] ELSE NoCall]

\* The arithmetic of the promise is the arithmetic of the code.
LEMMA SameElo ==
    /\ \A own, other, score : Promise!NewRating(own, other, score) = NewRating(own, other, score)
    /\ \A res, n : Promise!Score32(res, n) = Score32(res, n)
    /\ Promise!PLAYER_INITIAL_RATING = PLAYER_INITIAL_RATING
    /\ Promise!Results = Results
<1>1. \A k : Promise!Bound(k) = Bound(k)
  BY DEF Promise!Bound, Bound, Promise!UpperBounds, UpperBounds
<1>2. \A d : Promise!Expected32(d) = Expected32(d)
  <2> SUFFICES ASSUME NEW d PROVE Promise!Expected32(d) = Expected32(d)
    OBVIOUS
  <2>1. {k \in 1..31 : d < Promise!Bound(k)} = {k \in 1..31 : d < Bound(k)}
    BY <1>1
  <2>2. \A S : Promise!Cardinality(S) = Cardinality(S)
    BY Zenon DEF Promise!Cardinality, Cardinality
  <2>3. QED
    BY <2>1, <2>2, Zenon DEF Promise!Expected32, Expected32
<1>3. \A own, other, score : Promise!NewRating(own, other, score) = NewRating(own, other, score)
  BY <1>2, Zenon DEF Promise!NewRating, NewRating
<1>4. QED
  BY <1>3 DEF Promise!Score32, Score32, Promise!PLAYER_INITIAL_RATING, PLAYER_INITIAL_RATING,
              Promise!Results, Results

LEMMA InitRatings == Init => Promise!RInit
<1> SUFFICES ASSUME Init PROVE Promise!RInit
  OBVIOUS
<1>1. {b \in Addresses : pname[b] # NoName} = {}
  BY DEF Init
<1>2. \A t \in Threads : pc[t] \notin {"lock1", "lock2", "expect", "write1"}
  BY DEF Init
<1>3. QED
  BY <1>1, <1>2 DEF Promise!RInit

\* The rating of a player that nobody writes.
LEMMA ShownKept ==
    ASSUME MInv, NEW a \in Addresses, rating'[a] = rating[a],
           \A u \in Threads : pc[u] = "write2" \/ pc'[u] = "write2" =>
               pc'[u] = pc[u] /\ args'[u] = args[u] /\ gap'[u] = gap[u]
    PROVE  Shown(a)' = Shown(a)
<1>1. \A u \in Threads : pc[u] = "write2" \/ pc'[u] = "write2" =>
          pc'[u] = pc[u] /\ Second(u)' = Second(u) /\ Score(u, 2)' = Score(u, 2)
  BY SameCall
<1>2. Writing(a)' = Writing(a)
  BY <1>1 DEF Writing
<1>3. CASE Writing(a) = {}
  BY <1>2, <1>3, ShownOf, ShownOfNext
<1>4. CASE Writing(a) # {}
  <2>1. PICK u \in Threads : pc[u] = "write2" /\ Second(u) = a
    BY <1>4 DEF Writing
  <2>2. Writing(a) = {u}
    BY <2>1, WritingOwner DEF MInv, Owning, Writing
  <2>3. Rating2(u)' = NewRating(rating'[Second(u)'], rating'[Second(u)'] - gap'[u], Score(u, 2)')
    BY DEF Rating2, NewRating, Expected32, Bound, UpperBounds
  <2>4. Rating2(u)' = Rating2(u)
    BY <1>1, <2>1, <2>3 DEF Rating2
  <2>5. QED
    BY <1>2, <2>2, <2>4, ShownOf, ShownOfNext
<1>5. QED
  BY <1>3, <1>4

\* A step that neither rates a player nor begins or ends a posting.
LEMMA StutterRatings ==
    ASSUME MInv, pname' = pname, \A a \in Addresses : Shown(a)' = Shown(a),
           \A u \in Threads : pc[u] \in Early \/ pc'[u] \in Early =>
               pc[u] \in Early /\ pc'[u] \in Early /\ args'[u] = args[u]
    PROVE  UNCHANGED Promise!rvars
<1>1. Rated' = Rated /\ Rated \subseteq Addresses
  BY DEF Rated
<1>2. RatingsBar' = RatingsBar
  BY <1>1 DEF RatingsBar
<1>3. CallsBar' = CallsBar
  BY DEF CallsBar
<1>4. Promise!rvars = <<RatingsBar, CallsBar>>
  BY DEF Promise!rvars, RatingsBar, CallsBar, Rated, Early
<1>5. Promise!rvars' = <<RatingsBar', CallsBar'>>
  BY DEF Promise!rvars, RatingsBar, CallsBar, Rated, Early
<1>6. QED
  BY <1>2, <1>3, <1>4, <1>5

\* The first LOGIN of a name rates a player.
LEMMA RatesPlayer ==
    ASSUME MInv, MInv', NEW t \in Threads, RegCreate(t)
    PROVE  Promise!RNext
<1>0. TypeOK /\ pc[t] = "create" /\ want[t] \in Names /\ ~fini
  BY DEF MInv, PInv, NInv, RegCreate, player_create
<1>1. PICK a \in Addresses \ slots :
          /\ pname' = [pname EXCEPT ![a] = want[t]]
          /\ rating' = [rating EXCEPT ![a] = PLAYER_INITIAL_RATING]
          /\ RegDone(t, a)
  BY DEF RegCreate, player_create
<1>2. a \notin Rated /\ Rated' = Rated \cup {a} /\ Rated \subseteq Addresses
  <2>1. pname[a] = NoName /\ pname'[a] # NoName
    BY <1>0, <1>1, NoneAssumption DEF TypeOK, MInv, PInv, NInv
  <2>2. \A b \in Addresses \ {a} : pname'[b] = pname[b]
    BY <1>0, <1>1 DEF TypeOK
  <2>3. QED
    BY <2>1, <2>2 DEF Rated
<1>3. pc' = [pc EXCEPT ![t] = "login"] /\ UNCHANGED <<args, gap>>
  BY <1>1 DEF RegDone, Goto, postVars
<1>4. /\ pc'[t] = "login" /\ \A u \in Threads \ {t} : pc'[u] = pc[u]
      /\ rating'[a] = PLAYER_INITIAL_RATING /\ \A b \in Addresses \ {a} : rating'[b] = rating[b]
  BY <1>0, <1>1, <1>3 DEF TypeOK
<1>5. \A b \in Rated : Shown(b)' = Shown(b)
  BY <1>0, <1>2, <1>3, <1>4, ShownKept
<1>6. Shown(a)' = PLAYER_INITIAL_RATING
  <2>1. Writing(a)' = {}
    <3>1. \A u \in Threads : pc[u] = "write2" => Second(u) # a
      BY <1>1, TwoPlayers DEF MInv, Posting
    <3>2. \A u \in Threads : Second(u)' = Second(u)
      BY <1>3, SameCall
    <3>3. QED
      BY <1>4, <3>1, <3>2 DEF Writing
  <2>2. QED
    BY <1>4, <2>1, ShownOfNext
<1>7. RatingsBar' = [b \in Rated \cup {a} |-> IF b = a THEN PLAYER_INITIAL_RATING ELSE RatingsBar[b]]
  BY <1>2, <1>5, <1>6 DEF RatingsBar
<1>8. CallsBar' = CallsBar
  BY <1>0, <1>3, <1>4 DEF CallsBar, Early
<1>9. DOMAIN RatingsBar = Rated
  BY DEF RatingsBar
<1>10. Promise!Rate(a)
  <2>1. Promise!Rate(a) <=>
            /\ RatingsBar' = [b \in DOMAIN RatingsBar \cup {a} |->
                                  IF b = a THEN Promise!PLAYER_INITIAL_RATING ELSE RatingsBar[b]]
            /\ CallsBar' = CallsBar
    BY DEF Promise!Rate, RatingsBar, CallsBar, Rated, Early
  <2>2. QED
    BY <1>7, <1>8, <1>9, <2>1, SameElo
<1>11. a \in Addresses \ DOMAIN RatingsBar
  BY <1>2, <1>9
<1>12. QED
  BY <1>10, <1>11 DEF Promise!RNext, RatingsBar, CallsBar, Rated, Early

\* A thread calls player_post_result.
LEMMA CallsPost ==
    ASSUME MInv, MInv', NEW t \in Threads, NEW u \in Threads, NEW r \in Results, PostCall(t, u, r)
    PROVE  Promise!RNext
<1>0. TypeOK /\ ~fini
  BY DEF MInv, PInv, NInv, PostCall
<1>1. /\ pc[t] \in {"in", "out"} /\ pc' = [pc EXCEPT ![t] = "lock1"] /\ pc'[t] = "lock1"
      /\ UNCHANGED <<slots, pname, rating, gap>>
      /\ \A v \in Threads \ {t} : pc'[v] = pc[v] /\ args'[v] = args[v]
  BY <1>0 DEF PostCall, Goto, TypeOK, players
<1>2. /\ args'[t] \in [first : Addresses, second : Addresses, result : Results]
      /\ args'[t].first \in slots /\ args'[t].second \in slots
      /\ args'[t].first # args'[t].second
  <2>1. args'[t] # NoCall /\ args'[t] \in NoneOrCall
    BY <1>1 DEF MInv, PInv, NInv, TypeOK, NoNull, Posting
  <2>2. QED
    BY <1>1, <2>1 DEF MInv, PInv, NoneOrCall
<1>3. slots \subseteq Rated /\ Rated' = Rated /\ Rated \subseteq Addresses
  BY <1>0, <1>1 DEF MInv, PInv, NInv, Rated, TypeOK
<1>4. \A a \in Addresses : Shown(a)' = Shown(a)
  BY <1>1, ShownKept
<1>5. RatingsBar' = RatingsBar /\ DOMAIN RatingsBar = Rated
  BY <1>3, <1>4 DEF RatingsBar
<1>6. CallsBar[t] = NoCall /\ CallsBar'[t] = args'[t] /\ CallsBar' = [CallsBar EXCEPT ![t] = CallsBar'[t]]
  BY <1>1 DEF CallsBar, Early
<1>7. /\ CallsBar'[t] \in [first : Rated, second : Rated, result : Results]
      /\ CallsBar'[t].first # CallsBar'[t].second
  BY <1>2, <1>3, <1>6
<1>8. Promise!Call(t)
  <2>1. Promise!Call(t) <=>
            /\ CallsBar[t] = NoCall
            /\ CallsBar'[t] \in [first : DOMAIN RatingsBar, second : DOMAIN RatingsBar,
                                 result : Promise!Results]
            /\ CallsBar'[t].first # CallsBar'[t].second
            /\ CallsBar' = [CallsBar EXCEPT ![t] = CallsBar'[t]]
            /\ RatingsBar' = RatingsBar
    BY DEF Promise!Call, Promise!Calls, RatingsBar, CallsBar, Rated, Early
  <2>2. QED
    BY <1>5, <1>6, <1>7, <2>1, SameElo
<1>9. QED
  BY <1>8 DEF Promise!RNext

\* The step that writes the first player's rating posts the result.
LEMMA PostsResult ==
    ASSUME MInv, MInv', NEW t \in Threads, Write1(t)
    PROVE  Promise!RNext
<1>0. /\ TypeOK /\ TypeOK' /\ pc[t] = "write1" /\ pc' = [pc EXCEPT ![t] = "write2"]
      /\ UNCHANGED <<slots, pname, args>>
  BY DEF MInv, PInv, NInv, Write1, Goto, postVars
<1>1. /\ args[t] \in [first : Addresses, second : Addresses, result : Results]
      /\ args[t].first # args[t].second /\ args[t].first \in slots /\ args[t].second \in slots
      /\ args[t] # NoCall
  BY <1>0, OrderedCall DEF MInv, PInv, Posting, NInv, NoNull, TypeOK
<1>2. PICK p \in Addresses, q \in Addresses, res \in Results :
          p # q /\ args[t] = [first |-> p, second |-> q, result |-> res]
  BY <1>1
<1>3. p = args[t].first /\ q = args[t].second /\ res = args[t].result
  BY <1>2
<1>4. /\ Shown(p) = rating[p] /\ Shown(q) = rating[q]
      /\ Shown(p)' = NewRating(rating[p], rating[q], Score32(res, 1))
      /\ Shown(q)' = NewRating(rating[q], rating[p], Score32(res, 2))
      /\ \A a \in Addresses \ {p, q} : Shown(a)' = Shown(a)
  BY <1>3, Write1Posts
<1>5. p \in Rated /\ q \in Rated /\ Rated' = Rated /\ Rated \subseteq Addresses
  BY <1>0, <1>1, <1>3 DEF MInv, PInv, NInv, Rated
<1>6. RatingsBar' =
          [RatingsBar EXCEPT
               ![p] = NewRating(RatingsBar[p], RatingsBar[q], Score32(res, 1)),
               ![q] = NewRating(RatingsBar[q], RatingsBar[p], Score32(res, 2))]
  BY <1>2, <1>4, <1>5 DEF RatingsBar
<1>7. CallsBar[t] = args[t] /\ CallsBar' = [CallsBar EXCEPT ![t] = NoCall]
  BY <1>0 DEF CallsBar, Early, TypeOK
<1>8. Promise!Post(t)
  <2>1. Promise!Post(t) <=>
            /\ CallsBar[t] # NoCall
            /\ RatingsBar' =
                   [RatingsBar EXCEPT
                        ![CallsBar[t].first] =
                            Promise!NewRating(RatingsBar[CallsBar[t].first],
                                              RatingsBar[CallsBar[t].second],
                                              Promise!Score32(CallsBar[t].result, 1)),
                        ![CallsBar[t].second] =
                            Promise!NewRating(RatingsBar[CallsBar[t].second],
                                              RatingsBar[CallsBar[t].first],
                                              Promise!Score32(CallsBar[t].result, 2))]
            /\ CallsBar' = [CallsBar EXCEPT ![t] = NoCall]
    BY DEF Promise!Post, Promise!Posted, RatingsBar, CallsBar, Rated, Early
  <2>2. QED
    BY <1>1, <1>3, <1>6, <1>7, <2>1, SameElo
<1>9. QED
  BY <1>8 DEF Promise!RNext

\* The step that writes the second one shows nothing new.
LEMMA Write2Stutters ==
    ASSUME MInv, MInv', NEW t \in Threads, Write2(t)
    PROVE  UNCHANGED Promise!rvars
<1>0. /\ TypeOK /\ pc[t] = "write2" /\ pc' = [pc EXCEPT ![t] = "unlock"]
      /\ UNCHANGED <<pname, args, gap>> /\ rating' = [rating EXCEPT ![Second(t)] = Rating2(t)]
  BY DEF MInv, PInv, NInv, Write2, Goto, postVars
<1>1. pc'[t] = "unlock" /\ \A u \in Threads \ {t} : pc'[u] = pc[u]
  BY <1>0 DEF TypeOK
<1>2. PICK q \in Addresses : q = Second(t)
  BY <1>0, TwoPlayers DEF MInv, Posting
<1>3. rating'[q] = Rating2(t) /\ \A a \in Addresses \ {q} : rating'[a] = rating[a]
  BY <1>0, <1>2 DEF TypeOK
<1>4. \A u \in Threads : Second(u)' = Second(u) /\ Score(u, 2)' = Score(u, 2)
  BY <1>0, SameCall
<1>5. Writing(q) = {t}
  BY <1>0, <1>2, WritingOwner DEF MInv, Owning, Writing
<1>6. Shown(q)' = Shown(q)
  <2>1. Writing(q)' = {}
    BY <1>1, <1>4, <1>5 DEF Writing
  <2>2. QED
    BY <1>3, <1>5, <2>1, ShownOf, ShownOfNext
<1>7. ASSUME NEW a \in Addresses \ {q} PROVE Shown(a)' = Shown(a)
  <2>1. Writing(a)' = Writing(a)
    BY <1>0, <1>1, <1>2, <1>4 DEF Writing
  <2>2. CASE Writing(a) = {}
    BY <1>3, <2>1, <2>2, ShownOf, ShownOfNext
  <2>3. CASE Writing(a) # {}
    <3>1. PICK u \in Threads : pc[u] = "write2" /\ Second(u) = a
      BY <2>3 DEF Writing
    <3>2. Writing(a) = {u}
      BY <3>1, WritingOwner DEF MInv, Owning, Writing
    <3>3. Rating2(u)' = NewRating(rating'[Second(u)'], rating'[Second(u)'] - gap'[u], Score(u, 2)')
      BY DEF Rating2, NewRating, Expected32, Bound, UpperBounds
    <3>4. Rating2(u)' = Rating2(u)
      BY <1>0, <1>3, <1>4, <3>1, <3>3 DEF Rating2
    <3>5. QED
      BY <2>1, <3>2, <3>4, ShownOf, ShownOfNext
  <2>4. QED
    BY <2>2, <2>3
<1>8. QED
  BY <1>0, <1>1, <1>6, <1>7, StutterRatings DEF Early

\* Every step does what the promise allows, or nothing that it shows.
LEMMA RatingsNext == MInv /\ MInv' /\ [Next]_vars => [Promise!RNext]_(Promise!rvars)
<1> SUFFICES ASSUME MInv, MInv', [Next]_vars
             PROVE  Promise!RNext \/ UNCHANGED Promise!rvars
  OBVIOUS
<1>0. TypeOK
  BY DEF MInv, PInv, NInv
<1>1. ASSUME NEW t \in Threads,
             \/ \E n \in Names : RegBegin(t, n)
             \/ RegFound(t) \/ RegNone(t) \/ Login(t)
             \/ UsersBegin(t) \/ UsersRef(t) \/ UsersEnd(t) \/ Show(t) \/ ShowEnd(t)
             \/ \E u \in Threads : UsersLook(t, u)
             \/ DropOwn(t) \/ Logout(t)
      PROVE  UNCHANGED Promise!rvars
  <2>1. UNCHANGED <<pname, rating, gap, args>>
    BY <1>1 DEF RegBegin, RegFound, RegDone, RegNone, Login, UsersBegin, UsersRef, UsersEnd, Show,
                ShowEnd, UsersLook, DropOwn, Logout, players, postVars
  <2>2. /\ pc[t] \notin Early \cup {"write2"} /\ pc'[t] \notin Early \cup {"write2"}
        /\ \A u \in Threads \ {t} : pc'[u] = pc[u]
    <3>1. pc[t] \notin Early \cup {"write2"}
      BY <1>1 DEF RegBegin, RegFound, RegNone, Login, UsersBegin, UsersRef, UsersEnd,
                  Show, ShowEnd, UsersLook, DropOwn, Logout, Early
    <3>2. CASE pc' = pc
      BY <3>1, <3>2
    <3>3. CASE \E l \in {"scan", "create", "login", "idle", "in", "users", "users_ref", "show", "out"} :
                   Goto(t, l)
      BY <1>0, <3>1, <3>3 DEF Goto, TypeOK, Early
    <3>4. QED
      BY <1>1, <3>2, <3>3
      DEF RegBegin, RegFound, RegDone, RegNone, Login, UsersBegin, UsersRef, UsersEnd, Show,
          ShowEnd, UsersLook, DropOwn, Logout
  <2>3. \A a \in Addresses : Shown(a)' = Shown(a)
    BY <2>1, <2>2, ShownKept
  <2>4. QED
    BY <2>1, <2>2, <2>3, StutterRatings
<1>2. ASSUME NEW t \in Threads, Lock1(t) \/ Lock2(t) \/ Expect(t)
      PROVE  UNCHANGED Promise!rvars
  <2>1. /\ UNCHANGED <<pname, rating, args>> /\ \A u \in Threads \ {t} : gap'[u] = gap[u]
        /\ pc[t] \in Early /\ \E l \in Early : Goto(t, l)
    BY <1>0, <1>2 DEF Lock1, Lock2, Expect, SetMutex, players, postVars, Early, TypeOK
  <2>2. pc'[t] \in Early /\ \A u \in Threads \ {t} : pc'[u] = pc[u]
    BY <1>0, <2>1 DEF Goto, TypeOK
  <2>3. \A a \in Addresses : Shown(a)' = Shown(a)
    BY <2>1, <2>2, ShownKept DEF Early
  <2>4. QED
    BY <2>1, <2>2, <2>3, StutterRatings
<1>3. ASSUME NEW t \in Threads, Unlock(t) PROVE UNCHANGED Promise!rvars
  <2>1. /\ UNCHANGED <<pname, rating>> /\ pc[t] = "unlock" /\ pc'[t] \in {"in", "out"}
        /\ \A u \in Threads \ {t} : pc'[u] = pc[u] /\ args'[u] = args[u] /\ gap'[u] = gap[u]
    BY <1>0, <1>3 DEF Unlock, Goto, TypeOK, players
  <2>2. \A a \in Addresses : Shown(a)' = Shown(a)
    BY <2>1, ShownKept
  <2>3. QED
    BY <2>1, <2>2, StutterRatings DEF Early
<1>4. CASE Fini \/ (\E a \in Addresses : FiniNext(a)) \/ UNCHANGED vars
  <2>1. UNCHANGED <<pname, rating, gap, args, pc>>
    BY <1>4 DEF Fini, FiniNext, players, postVars, vars
  <2>2. \A a \in Addresses : Shown(a)' = Shown(a)
    BY <2>1, ShownKept
  <2>3. QED
    BY <2>1, <2>2, StutterRatings
<1>5. QED
  BY <1>1, <1>2, <1>3, <1>4, RatesPlayer, CallsPost, PostsResult, Write2Stutters DEF Next

\* Every posting takes effect in one step, on both players, by the formula.
THEOREM PlayersImplementRatings == Spec => ImplementsRatings
<1>1. Init => MInv /\ Promise!RInit
  BY InitMutexes, InitRatings
<1>2. MInv /\ [Next]_vars => MInv'
  BY MutexesNext
<1>3. MInv /\ MInv' /\ [Next]_vars => [Promise!RNext]_(Promise!rvars)
  BY RatingsNext
<1>4. QED
  BY <1>1, <1>2, <1>3, PTL DEF Spec, ImplementsRatings, Promise!RSpec

\* A thread goes on with its posting, or has taken effect with it.
LEMMA PostingGoesOn ==
    ASSUME MInv, MInv', [Next]_vars, NEW t \in Threads, pc[t] \in Early, pc'[t] \notin Early
    PROVE  Posts(t)
<1>0. TypeOK /\ pc'[t] # pc[t]
  BY DEF MInv, PInv, NInv
<1>1. ASSUME NEW u \in Threads,
             \/ \E n \in Names : RegBegin(u, n)
             \/ RegFound(u) \/ RegNone(u) \/ RegCreate(u) \/ Login(u)
             \/ UsersBegin(u) \/ UsersRef(u) \/ UsersEnd(u) \/ Show(u) \/ ShowEnd(u)
             \/ Write2(u) \/ Unlock(u) \/ DropOwn(u) \/ Logout(u)
             \/ \E v \in Threads : UsersLook(u, v) \/ \E r \in Results : PostCall(u, v, r)
      PROVE  FALSE
  <2>1. pc[u] \notin Early
    BY <1>1 DEF RegBegin, RegFound, RegNone, RegCreate, player_create, Login, UsersBegin,
                UsersRef, UsersEnd, Show, ShowEnd, Write2, Unlock, DropOwn, Logout, UsersLook,
                PostCall, Early
  <2>2. pc' = pc \/ \E l : Goto(u, l)
    BY <1>1 DEF RegBegin, RegFound, RegNone, RegCreate, player_create, RegDone, Login,
                UsersBegin, UsersRef, UsersEnd, Show, ShowEnd, Write2, Unlock, DropOwn, Logout,
                UsersLook, PostCall
  <2>3. QED
    BY <1>0, <2>1, <2>2 DEF Goto, TypeOK
<1>2. CASE Fini \/ (\E a \in Addresses : FiniNext(a)) \/ UNCHANGED vars
  BY <1>0, <1>2 DEF Fini, FiniNext, vars
<1>3. ASSUME NEW u \in Threads, Lock1(u) \/ Lock2(u) \/ Expect(u) PROVE FALSE
  <2>1. \E l \in Early : Goto(u, l)
    BY <1>3 DEF Lock1, Lock2, Expect, SetMutex, Early
  <2>2. QED
    BY <1>0, <2>1 DEF Goto, TypeOK
<1>4. ASSUME NEW u \in Threads, Write1(u) PROVE Posts(t)
  BY <1>0, <1>4 DEF Write1, Goto, TypeOK, Posts, Early
<1>5. QED
  BY <1>1, <1>2, <1>3, <1>4 DEF Next

\* Of a player that there is, the promise only changes the rating when a game of
\* its own is posted, and so does the code.
LEMMA OthersAlone ==
    ASSUME MInv, MInv', [Next]_vars, NEW a \in Addresses, pname[a] # NoName,
           Ratings'[a] # Ratings[a]
    PROVE  \E t \in Threads : Posts(t) /\ a \in {args[t].first, args[t].second}
<1>1. a \in Rated /\ Shown(a)' # Shown(a)
  BY DEF Rated, Ratings
<1>2. a \in DOMAIN RatingsBar /\ RatingsBar[a] = Shown(a)
  BY <1>1 DEF RatingsBar
<1>3. a \in Rated' => RatingsBar'[a] = Shown(a)'
  BY DEF RatingsBar
<1>4. CASE UNCHANGED Promise!rvars
  <2>1. RatingsBar' = RatingsBar
    BY <1>4 DEF Promise!rvars, RatingsBar, Rated
  <2>2. QED
    BY <1>1, <1>2, <1>3, <2>1 DEF RatingsBar
<1>5. CASE \E p \in Addresses \ DOMAIN RatingsBar : Promise!Rate(p)
  <2>1. PICK p \in Addresses \ DOMAIN RatingsBar :
            RatingsBar' = [q \in DOMAIN RatingsBar \cup {p} |->
                               IF q = p THEN Promise!PLAYER_INITIAL_RATING ELSE RatingsBar[q]]
    BY <1>5 DEF Promise!Rate, RatingsBar, Rated
  <2>2. a # p /\ RatingsBar'[a] = RatingsBar[a] /\ a \in DOMAIN RatingsBar'
    BY <1>2, <2>1
  <2>3. QED
    BY <1>1, <1>2, <1>3, <2>2 DEF RatingsBar
<1>6. CASE \E t \in Threads : Promise!Call(t)
  <2>1. RatingsBar' = RatingsBar
    BY <1>6 DEF Promise!Call, RatingsBar, Rated
  <2>2. QED
    BY <1>1, <1>2, <1>3, <2>1 DEF RatingsBar
<1>7. ASSUME NEW t \in Threads, Promise!Post(t)
      PROVE  Posts(t) /\ a \in {args[t].first, args[t].second}
  <2>1. /\ CallsBar[t] # NoCall /\ CallsBar' = [CallsBar EXCEPT ![t] = NoCall]
        /\ \A b \in DOMAIN RatingsBar \ {CallsBar[t].first, CallsBar[t].second} :
               b \in DOMAIN RatingsBar' /\ RatingsBar'[b] = RatingsBar[b]
    <3>1. /\ CallsBar[t] # NoCall
          /\ \E x, y : RatingsBar' = [RatingsBar EXCEPT ![CallsBar[t].first] = x,
                                                        ![CallsBar[t].second] = y]
          /\ CallsBar' = [CallsBar EXCEPT ![t] = NoCall]
      <4>1. /\ CallsBar[t] # NoCall /\ CallsBar' = [CallsBar EXCEPT ![t] = NoCall]
            /\ RatingsBar' =
                   [RatingsBar EXCEPT
                        ![CallsBar[t].first] =
                            Promise!NewRating(RatingsBar[CallsBar[t].first],
                                              RatingsBar[CallsBar[t].second],
                                              Promise!Score32(CallsBar[t].result, 1)),
                        ![CallsBar[t].second] =
                            Promise!NewRating(RatingsBar[CallsBar[t].second],
                                              RatingsBar[CallsBar[t].first],
                                              Promise!Score32(CallsBar[t].result, 2))]
        BY <1>7 DEF Promise!Post, Promise!Posted, RatingsBar, CallsBar, Rated, Early
      <4>2. QED
        BY <4>1
    <3>2. QED
      BY <3>1
  <2>2. pc[t] \in Early /\ CallsBar[t] = args[t]
    BY <2>1 DEF CallsBar
  <2>3. CallsBar'[t] = NoCall
    BY <2>1 DEF CallsBar
  <2>4. pc'[t] \notin Early
    <3>1. pc'[t] \in Early => CallsBar'[t] = args'[t] /\ args'[t] # NoCall
      <4>1. pc'[t] \in Early => args'[t] # NoCall
        BY DEF Early, MInv, PInv, NInv, NoNull, Posting, TypeOK
      <4>2. QED
        BY <4>1 DEF CallsBar
    <3>2. QED
      BY <2>3, <3>1
  <2>5. a \in {args[t].first, args[t].second}
    <3>1. SUFFICES ASSUME a \notin {args[t].first, args[t].second} PROVE FALSE
      OBVIOUS
    <3>2. a \in DOMAIN RatingsBar' /\ RatingsBar'[a] = RatingsBar[a]
      BY <1>2, <2>1, <2>2, <3>1
    <3>3. QED
      BY <1>1, <1>2, <1>3, <3>2 DEF RatingsBar
  <2>6. QED
    BY <2>2, <2>4, <2>5, PostingGoesOn
<1>8. Promise!RNext \/ UNCHANGED Promise!rvars
  BY RatingsNext
<1>9. QED
  BY <1>4, <1>5, <1>6, <1>7, <1>8 DEF Promise!RNext, RatingsBar, Rated

\* A posting is a fair exchange between its two players, and nothing else changes
\* a rating that there is.
THEOREM PlayersFairPosting == Spec => FairPosting
<1> DEFINE Fair == /\ \A t \in Threads : Posts(t) => FairExchange(args[t], Ratings, Ratings')
                   /\ \A a \in Addresses : pname[a] # NoName /\ Ratings'[a] # Ratings[a] =>
                          \E t \in Threads : Posts(t) /\ a \in {args[t].first, args[t].second}
<1>1. Init => MInv
  BY InitMutexes
<1>2. MInv /\ [Next]_vars => MInv'
  BY MutexesNext
<1>3. MInv /\ MInv' /\ [Next]_vars => Fair
  <2> SUFFICES ASSUME MInv, MInv', [Next]_vars PROVE Fair
    OBVIOUS
  <2>1. ASSUME NEW t \in Threads, Posts(t) PROVE FairExchange(args[t], Ratings, Ratings')
    BY <2>1, FromWrite1, StepFair DEF Posts
  <2>2. QED
    BY <2>1, OthersAlone
<1>4. MInv /\ MInv' /\ [Next]_vars => [Fair]_vars
  BY <1>3
<1>5. QED
  BY <1>1, <1>2, <1>4, PTL DEF Spec, FairPosting

-----------------------------------------------------------------------------
(***************************************************************************)
(* The lists of USERS.  A list is no longer than the clients its thread    *)
(* has visited, and what it holds is in the registry, as every player is   *)
(* that a thread may use: preg_fini takes players out of it only when no   *)
(* thread is left.                                                         *)
(***************************************************************************)
UInv ==
    /\ PInv
    /\ \A t \in Threads :
           /\ pc[t] # "users_ref" => got[t] = NULL
           /\ got[t] # NULL => got[t] \in slots
           /\ pc[t] \notin {"users", "users_ref", "show"} => list[t] = << >>
           /\ pc[t] \notin {"users", "users_ref"} => seen[t] = {}
           /\ \A k \in DOMAIN list[t] : list[t][k] \in slots
           /\ pc[t] = "users" => Len(list[t]) <= Cardinality(seen[t])
           /\ pc[t] = "users_ref" => Len(list[t]) < Cardinality(seen[t])
           /\ Len(list[t]) <= Cardinality(Threads)

LEMMA InitUsers == Init => UInv
<1> SUFFICES ASSUME Init PROVE UInv
  OBVIOUS
<1>1. PInv
  BY InitPointers
<1>2. Cardinality(Threads) \in Nat
  BY ThreadsAssumption, FS_CardinalityType
<1>3. \A t \in Threads : Len(list[t]) = 0 /\ DOMAIN list[t] = {}
  BY DEF Init
<1>4. QED
  BY <1>1, <1>2, <1>3 DEF Init, UInv

\* A step that touches no list.
LEMMA UsersKept ==
    ASSUME UInv, PInv', slots \subseteq slots', UNCHANGED <<seen, got, list>>,
           \A t \in Threads : \/ pc'[t] = pc[t]
                              \/ /\ pc[t] \notin {"users", "users_ref", "show"}
                                 /\ pc'[t] \notin {"users", "users_ref", "show"}
    PROVE  UInv'
<1>1. ASSUME NEW t \in Threads
      PROVE  /\ pc'[t] # "users_ref" => got[t] = NULL
             /\ got[t] # NULL => got[t] \in slots'
             /\ pc'[t] \notin {"users", "users_ref", "show"} => list[t] = << >>
             /\ pc'[t] \notin {"users", "users_ref"} => seen[t] = {}
             /\ \A k \in DOMAIN list[t] : list[t][k] \in slots'
             /\ pc'[t] = "users" => Len(list[t]) <= Cardinality(seen[t])
             /\ pc'[t] = "users_ref" => Len(list[t]) < Cardinality(seen[t])
             /\ Len(list[t]) <= Cardinality(Threads)
  <2>1. CASE pc'[t] = pc[t]
    BY <2>1 DEF UInv
  <2>2. CASE pc'[t] # pc[t]
    <3>1. /\ pc[t] \notin {"users", "users_ref", "show"}
          /\ pc'[t] \notin {"users", "users_ref", "show"}
      BY <2>2
    <3>2. QED
      BY <3>1 DEF UInv
  <2>3. QED
    BY <2>1, <2>2
<1>2. QED
  BY <1>1 DEF UInv

\* creg_all_players and the service thread that goes through its list.
LEMMA UsersLists ==
    ASSUME UInv, PInv', NEW t \in Threads,
           \/ UsersBegin(t) \/ (\E u \in Threads : UsersLook(t, u)) \/ UsersRef(t)
           \/ UsersEnd(t) \/ Show(t) \/ ShowEnd(t)
    PROVE  UInv'
<1>1. TypeOK /\ list[t] \in Seq(Addresses) /\ seen[t] \in SUBSET Threads
  BY DEF UInv, PInv, NInv, TypeOK
<1>2. /\ IsFiniteSet(seen[t]) /\ Cardinality(seen[t]) \in Nat
      /\ Cardinality(seen[t]) <= Cardinality(Threads) /\ Cardinality(Threads) \in Nat
  BY <1>1, ThreadsAssumption, FS_Subset, FS_CardinalityType
<1>3. slots' = slots
  BY DEF UsersBegin, UsersLook, UsersRef, UsersEnd, Show, ShowEnd, players
<1>4. \A u \in Threads \ {t} : /\ pc'[u] = pc[u] /\ seen'[u] = seen[u]
                               /\ got'[u] = got[u] /\ list'[u] = list[u]
  BY <1>1 DEF UsersBegin, UsersLook, UsersRef, UsersEnd, Show, ShowEnd, Goto, usersVars, TypeOK
<1> DEFINE Good ==
        /\ pc'[t] # "users_ref" => got'[t] = NULL
        /\ got'[t] # NULL => got'[t] \in slots
        /\ pc'[t] \notin {"users", "users_ref", "show"} => list'[t] = << >>
        /\ pc'[t] \notin {"users", "users_ref"} => seen'[t] = {}
        /\ \A k \in DOMAIN list'[t] : list'[t][k] \in slots
        /\ pc'[t] = "users" => Len(list'[t]) <= Cardinality(seen'[t])
        /\ pc'[t] = "users_ref" => Len(list'[t]) < Cardinality(seen'[t])
        /\ Len(list'[t]) <= Cardinality(Threads)
<1>5. SUFFICES Good
  BY <1>3, <1>4 DEF UInv
<1>6. CASE UsersBegin(t)
  <2>1. pc[t] = "in" /\ pc'[t] = "users" /\ UNCHANGED <<seen, got, list>>
    BY <1>1, <1>6 DEF UsersBegin, Goto, TypeOK, usersVars
  <2>2. QED
    BY <1>1, <1>2, <2>1 DEF UInv
<1>7. CASE \E u \in Threads : UsersLook(t, u)
  <2>1. PICK u \in Threads : UsersLook(t, u)
    BY <1>7
  <2>2. /\ pc[t] = "users" /\ u \notin seen[t] /\ seen'[t] = seen[t] \cup {u}
        /\ got'[t] = logged[u] /\ list' = list
        /\ pc'[t] = IF logged[u] = NULL THEN "users" ELSE "users_ref"
    BY <1>1, <2>1 DEF UsersLook, Goto, TypeOK
  <2>3. Cardinality(seen'[t]) = Cardinality(seen[t]) + 1
    BY <1>2, <2>2, FS_AddElement
  <2>4. got'[t] # NULL => got'[t] \in slots
    BY <2>2 DEF UInv, PInv
  <2>5. QED
    BY <1>1, <1>2, <2>2, <2>3, <2>4 DEF UInv
<1>8. CASE UsersRef(t)
  <2>1. /\ pc[t] = "users_ref" /\ pc'[t] = "users" /\ got'[t] = NULL /\ seen' = seen
        /\ list'[t] = Append(list[t], got[t])
    BY <1>1, <1>8 DEF UsersRef, Goto, TypeOK
  <2>2. got[t] \in slots /\ got[t] \in Addresses
    BY <1>1, <2>1 DEF UInv, TypeOK, NoNull
  <2>3. /\ Len(list'[t]) = Len(list[t]) + 1
        /\ \A k \in DOMAIN list'[t] : list'[t][k] \in slots
    BY <1>1, <2>1, <2>2, AppendProperties DEF UInv
  <2>4. QED
    BY <1>1, <1>2, <2>1, <2>3 DEF UInv
<1>9. CASE UsersEnd(t)
  <2>1. /\ pc[t] = "users" /\ pc'[t] = "show" /\ UNCHANGED <<got, list>> /\ seen'[t] = {}
    BY <1>1, <1>9 DEF UsersEnd, Goto, TypeOK
  <2>2. QED
    BY <2>1 DEF UInv
<1>10. CASE Show(t)
  <2>1. pc[t] = "show" /\ list[t] # << >> /\ UNCHANGED <<pc, got, seen>> /\ list'[t] = Tail(list[t])
    BY <1>1, <1>10 DEF Show, TypeOK
  <2>2. /\ Len(list'[t]) = Len(list[t]) - 1
        /\ \A k \in DOMAIN list'[t] : k + 1 \in DOMAIN list[t] /\ list'[t][k] = list[t][k + 1]
    BY <1>1, <2>1, HeadTailProperties
  <2>3. QED
    BY <1>1, <1>2, <2>1, <2>2 DEF UInv
<1>11. CASE ShowEnd(t)
  <2>1. pc[t] = "show" /\ pc'[t] = "in" /\ list[t] = << >> /\ UNCHANGED <<seen, got, list>>
    BY <1>1, <1>11 DEF ShowEnd, Goto, TypeOK, usersVars
  <2>2. QED
    BY <2>1 DEF UInv
<1>12. QED
  BY <1>6, <1>7, <1>8, <1>9, <1>10, <1>11

LEMMA UsersNext == UInv /\ [Next]_vars => UInv'
<1> SUFFICES ASSUME UInv, [Next]_vars PROVE UInv'
  OBVIOUS
<1>1. PInv' /\ TypeOK
  BY PointersNext DEF UInv, PInv, NInv
<1> USE DEF Goto, TypeOK
<1>2. ASSUME NEW t \in Threads,
             \/ \E n \in Names : RegBegin(t, n)
             \/ RegFound(t) \/ RegNone(t) \/ RegCreate(t) \/ Login(t)
      PROVE  UInv'
  BY <1>1, <1>2, UsersKept DEF RegBegin, RegFound, RegNone, RegCreate, RegDone, Login, players,
                                usersVars
<1>3. ASSUME NEW t \in Threads,
             \/ Lock1(t) \/ Lock2(t) \/ Expect(t) \/ Write1(t) \/ Write2(t) \/ Unlock(t)
             \/ DropOwn(t) \/ Logout(t) \/ \E u \in Threads, r \in Results : PostCall(t, u, r)
      PROVE  UInv'
  BY <1>1, <1>3, UsersKept DEF Lock1, Lock2, SetMutex, Expect, Write1, Write2, Unlock, DropOwn,
                                Logout, PostCall, players, usersVars
<1>4. CASE Fini \/ UNCHANGED vars
  BY <1>1, <1>4, UsersKept DEF Fini, vars, players, usersVars
<1>5. ASSUME NEW a \in Addresses, FiniNext(a) PROVE UInv'
  <2>1. fini /\ UNCHANGED <<pc, seen, got, list>>
    BY <1>5 DEF FiniNext, usersVars
  <2>2. \A t \in Threads : pc[t] = "idle"
    BY <2>1 DEF UInv, PInv, NInv
  <2>3. \A t \in Threads : got[t] = NULL /\ DOMAIN list[t] = {}
    BY <2>2 DEF UInv
  <2>4. QED
    BY <1>1, <2>1, <2>2, <2>3 DEF UInv
<1>6. QED
  BY <1>1, <1>2, <1>3, <1>4, <1>5, UsersLists DEF Next

-----------------------------------------------------------------------------
(***************************************************************************)
(* The references, counted as RefsExact counts them.  A step of thread t   *)
(* changes its own two pointers, its own list and the registry's slots.    *)
(***************************************************************************)
Bit(P) == IF P THEN 1 ELSE 0

Mine(a)    == {t \in Threads : mine[t] = a}
Clients(a) == {t \in Threads : logged[t] = a}
Places(a)  == {e \in Threads \X (1..Cardinality(Threads)) :
                  /\ e[2] \in DOMAIN list[e[1]]
                  /\ list[e[1]][e[2]] = a}

Counted ==
    \A a \in Addresses :
        refs[a] = Bit(a \in slots) + Cardinality(Mine(a)) + Cardinality(Clients(a))
                  + Cardinality(Places(a))

LEMMA CountedIsExact == Counted <=> RefsExact
BY DEF Counted, RefsExact, Bit, Mine, Clients, Places

LEMMA PlacesRange == IsFiniteSet(Threads \X (1..Cardinality(Threads)))
<1> DEFINE N == 1..Cardinality(Threads)
<1>1. Cardinality(Threads) \in Int
  BY ThreadsAssumption, FS_CardinalityType
<1>2. IsFiniteSet(N)
  BY <1>1, FS_Interval
<1> HIDE DEF N
<1>3. IsFiniteSet(Threads \X N)
  BY <1>2, ThreadsAssumption, FS_Product
<1>4. QED
  BY <1>3 DEF N

\* All the counted sets are finite.
LEMMA CountsFinite ==
    ASSUME NEW a
    PROVE  /\ IsFiniteSet(Mine(a)) /\ Cardinality(Mine(a)) \in Nat
           /\ IsFiniteSet(Clients(a)) /\ Cardinality(Clients(a)) \in Nat
           /\ IsFiniteSet(Places(a)) /\ Cardinality(Places(a)) \in Nat
<1>1. IsFiniteSet(Places(a))
  BY PlacesRange, FS_Subset DEF Places
<1>2. IsFiniteSet(Mine(a)) /\ IsFiniteSet(Clients(a))
  BY ThreadsAssumption, FS_Subset DEF Mine, Clients
<1>3. QED
  BY <1>1, <1>2, FS_CardinalityType

\* A set that gains or loses at most one element.
LEMMA Recount ==
    ASSUME NEW S, IsFiniteSet(S), NEW T, NEW x, \A y : y # x => (y \in S <=> y \in T)
    PROVE  /\ Cardinality(S) \in Nat /\ Cardinality(T) \in Nat
           /\ Cardinality(T) = Cardinality(S) + Bit(x \in T) - Bit(x \in S)
<1>1. Cardinality(S) \in Nat
  BY FS_CardinalityType
<1>2. CASE x \in S /\ x \notin T
  <2>1. T = S \ {x}
    BY <1>2
  <2>2. Cardinality(T) = Cardinality(S) - 1 /\ IsFiniteSet(T)
    BY <1>2, <2>1, FS_RemoveElement
  <2>3. QED
    BY <1>1, <1>2, <2>2, FS_CardinalityType DEF Bit
<1>3. CASE x \notin S /\ x \in T
  <2>1. T = S \cup {x}
    BY <1>3
  <2>2. Cardinality(T) = Cardinality(S) + 1
    BY <1>3, <2>1, FS_AddElement
  <2>3. QED
    BY <1>1, <1>3, <2>2 DEF Bit
<1>4. CASE x \in S <=> x \in T
  <2>1. T = S
    BY <1>4
  <2>2. QED
    BY <1>1, <2>1 DEF Bit
<1>5. QED
  BY <1>2, <1>3, <1>4

\* What the counter has to do when the pointers of thread t change.
LEMMA CountStep ==
    ASSUME Counted, NEW t \in Threads,
           \A u \in Threads \ {t} : mine'[u] = mine[u] /\ logged'[u] = logged[u],
           \A a \in Addresses :
               refs'[a] = refs[a] + Bit(a \in slots') - Bit(a \in slots)
                          + Bit(mine'[t] = a) - Bit(mine[t] = a)
                          + Bit(logged'[t] = a) - Bit(logged[t] = a)
                          + Cardinality(Places(a)') - Cardinality(Places(a))
    PROVE  Counted'
<1> SUFFICES ASSUME NEW a \in Addresses
             PROVE  refs'[a] = Bit(a \in slots') + Cardinality(Mine(a)')
                               + Cardinality(Clients(a)') + Cardinality(Places(a)')
  BY DEF Counted
<1>1. refs[a] = Bit(a \in slots) + Cardinality(Mine(a)) + Cardinality(Clients(a))
                + Cardinality(Places(a))
  BY DEF Counted
<1>2. /\ Cardinality(Mine(a)) \in Nat /\ Cardinality(Mine(a)') \in Nat
      /\ Cardinality(Mine(a)') = Cardinality(Mine(a)) + Bit(mine'[t] = a) - Bit(mine[t] = a)
  <2>1. \A u : u # t => (u \in Mine(a) <=> u \in Mine(a)')
    BY DEF Mine
  <2>2. (t \in Mine(a) <=> mine[t] = a) /\ (t \in Mine(a)' <=> mine'[t] = a)
    BY DEF Mine
  <2>3. /\ Cardinality(Mine(a)) \in Nat /\ Cardinality(Mine(a)') \in Nat
        /\ Cardinality(Mine(a)') = Cardinality(Mine(a)) + Bit(t \in Mine(a)')
                                   - Bit(t \in Mine(a))
    BY <2>1, CountsFinite, Recount
  <2>4. QED
    BY <2>2, <2>3 DEF Bit
<1>3. /\ Cardinality(Clients(a)) \in Nat /\ Cardinality(Clients(a)') \in Nat
      /\ Cardinality(Clients(a)') = Cardinality(Clients(a)) + Bit(logged'[t] = a)
                                    - Bit(logged[t] = a)
  <2>1. \A u : u # t => (u \in Clients(a) <=> u \in Clients(a)')
    BY DEF Clients
  <2>2. (t \in Clients(a) <=> logged[t] = a) /\ (t \in Clients(a)' <=> logged'[t] = a)
    BY DEF Clients
  <2>3. /\ Cardinality(Clients(a)) \in Nat /\ Cardinality(Clients(a)') \in Nat
        /\ Cardinality(Clients(a)') = Cardinality(Clients(a)) + Bit(t \in Clients(a)')
                                      - Bit(t \in Clients(a))
    BY <2>1, CountsFinite, Recount
  <2>4. QED
    BY <2>2, <2>3 DEF Bit
<1>4. Cardinality(Places(a)) \in Nat /\ Cardinality(Places(a)') \in Nat
  <2>1. Cardinality(Places(a)) \in Nat
    BY CountsFinite
  <2>2. IsFiniteSet(Places(a)')
    BY PlacesRange, FS_Subset DEF Places
  <2>3. QED
    BY <2>1, <2>2, FS_CardinalityType
<1>5. refs'[a] = refs[a] + Bit(a \in slots') - Bit(a \in slots)
                 + Bit(mine'[t] = a) - Bit(mine[t] = a)
                 + Bit(logged'[t] = a) - Bit(logged[t] = a)
                 + Cardinality(Places(a)') - Cardinality(Places(a))
  OBVIOUS
<1>6. QED
  BY <1>1, <1>2, <1>3, <1>4, <1>5 DEF Bit

\* A list gets a player at its end.
LEMMA PlacesAppend ==
    ASSUME TypeOK, NEW t \in Threads, NEW x \in Addresses,
           list'[t] = Append(list[t], x), \A u \in Threads \ {t} : list'[u] = list[u],
           Len(list[t]) < Cardinality(Threads), NEW a
    PROVE  Cardinality(Places(a)') = Cardinality(Places(a)) + Bit(a = x)
<1> DEFINE n == Len(list[t]) + 1
           e == <<t, n>>
<1>1. list[t] \in Seq(Addresses) /\ Cardinality(Threads) \in Nat
  BY ThreadsAssumption, FS_CardinalityType DEF TypeOK
<1>2. /\ list'[t] = Append(list[t], x) /\ \A u \in Threads \ {t} : list'[u] = list[u]
      /\ n \in 1..Cardinality(Threads)
  BY <1>1 DEF TypeOK
<1>3. /\ DOMAIN list[t] = 1..Len(list[t]) /\ DOMAIN list'[t] = 1..n
      /\ list'[t][n] = x /\ \A k \in 1..Len(list[t]) : list'[t][k] = list[t][k]
  BY <1>1, <1>2, AppendProperties
<1>4. e \notin Places(a) /\ (e \in Places(a)' <=> a = x)
  BY <1>1, <1>2, <1>3 DEF Places
<1>5. \A y : y # e => (y \in Places(a) <=> y \in Places(a)')
  <2> SUFFICES ASSUME NEW u \in Threads, NEW k \in 1..Cardinality(Threads), <<u, k>> # e
               PROVE  k \in DOMAIN list[u] /\ list[u][k] = a
                          <=> k \in DOMAIN list'[u] /\ list'[u][k] = a
    BY DEF Places
  <2>1. CASE u # t
    <3>1. list'[u] = list[u]
      BY <1>2, <2>1
    <3>2. QED
      BY <3>1, Zenon
  <2>2. CASE u = t
    <3>1. k # n
      BY <2>2
    <3>2. k \in 1..n <=> k \in 1..Len(list[t])
      BY <1>1, <3>1
    <3>3. QED
      BY <1>3, <2>2, <3>2
  <2>3. QED
    BY <2>1, <2>2
<1> HIDE DEF e
<1>6. /\ Cardinality(Places(a)) \in Nat
      /\ Cardinality(Places(a)') = Cardinality(Places(a)) + Bit(e \in Places(a)')
                                   - Bit(e \in Places(a))
  BY <1>5, CountsFinite, Recount
<1>7. QED
  BY <1>4, <1>6 DEF Bit

\* A list loses its first player; all the others move up.
LEMMA PlacesTail ==
    ASSUME TypeOK, NEW t \in Threads, list[t] # << >>,
           list' = [list EXCEPT ![t] = Tail(list[t])], Len(list[t]) <= Cardinality(Threads), NEW a
    PROVE  Cardinality(Places(a)') = Cardinality(Places(a)) - Bit(a = Head(list[t]))
<1> DEFINE e == <<t, 1>>
           S == Places(a)'
           T == Places(a) \ {e}
           N == 1..Cardinality(Threads)
           f == [y \in S |-> IF y[1] = t THEN <<t, y[2] + 1>> ELSE y]
<1>1. list[t] \in Seq(Addresses) /\ Cardinality(Threads) \in Nat
  BY ThreadsAssumption, FS_CardinalityType DEF TypeOK
<1>2. list'[t] = Tail(list[t]) /\ \A u \in Threads \ {t} : list'[u] = list[u]
  BY <1>1 DEF TypeOK
<1>3. /\ Len(list[t]) \in Nat \ {0} /\ DOMAIN list[t] = 1..Len(list[t])
      /\ Head(list[t]) = list[t][1]
  BY <1>1
<1>4. /\ DOMAIN list'[t] = 1..(Len(list[t]) - 1)
      /\ \A k \in 1..(Len(list[t]) - 1) : list'[t][k] = list[t][k + 1]
  <2>1. Tail(list[t]) \in Seq(Addresses) /\ Len(Tail(list[t])) = Len(list[t]) - 1
    BY <1>1, HeadTailProperties
  <2>2. \A k \in 1..(Len(list[t]) - 1) : Tail(list[t])[k] = list[t][k + 1]
    BY <1>1, HeadTailProperties
  <2>3. QED
    BY <1>2, <2>1, <2>2, LenProperties
<1>5. /\ \A u \in Threads, k \in N : <<u, k>> \in S <=>
             k \in DOMAIN list'[u] /\ list'[u][k] = a
      /\ \A u \in Threads, k \in N : <<u, k>> \in T <=>
             k \in DOMAIN list[u] /\ list[u][k] = a /\ <<u, k>> # e
      /\ \A y \in S : y \in Threads \X N /\ y = <<y[1], y[2]>>
      /\ \A y \in T : y \in Threads \X N /\ y = <<y[1], y[2]>>
  BY DEF Places
<1> HIDE DEF S, T
<1>6. f \in [S -> T]
  <2> SUFFICES ASSUME NEW y \in S PROVE f[y] \in T
    OBVIOUS
  <2>1. PICK u \in Threads, k \in N : y = <<u, k>> /\ k \in DOMAIN list'[u] /\ list'[u][k] = a
    BY <1>5
  <2>2. CASE u = t
    <3>1. f[y] = <<t, k + 1>>
      BY <2>1, <2>2
    <3>2. k + 1 \in N /\ k + 1 \in DOMAIN list[t] /\ list[t][k + 1] = a /\ k + 1 # 1
      BY <1>1, <1>3, <1>4, <2>1, <2>2
    <3>3. QED
      BY <1>5, <3>1, <3>2
  <2>3. CASE u # t
    <3>1. f[y] = <<u, k>>
      BY <2>1, <2>3
    <3>2. QED
      BY <1>2, <1>5, <2>1, <2>3, <3>1
  <2>4. QED
    BY <2>2, <2>3
<1>7. \A y, z \in S : f[y] = f[z] => y = z
  <2> SUFFICES ASSUME NEW y \in S, NEW z \in S, f[y] = f[z] PROVE y = z
    OBVIOUS
  <2>1. PICK u \in Threads, k \in N : y = <<u, k>>
    BY <1>5
  <2>2. PICK v \in Threads, m \in N : z = <<v, m>>
    BY <1>5
  <2>3. /\ f[y] = IF u = t THEN <<t, k + 1>> ELSE <<u, k>>
        /\ f[z] = IF v = t THEN <<t, m + 1>> ELSE <<v, m>>
    BY <2>1, <2>2
  <2>4. u = v /\ k = m
    BY <1>1, <2>3
  <2>5. QED
    BY <2>1, <2>2, <2>4
<1>8. \A z \in T : \E y \in S : f[y] = z
  <2> SUFFICES ASSUME NEW z \in T PROVE \E y \in S : f[y] = z
    OBVIOUS
  <2>1. PICK u \in Threads, k \in N :
            z = <<u, k>> /\ k \in DOMAIN list[u] /\ list[u][k] = a /\ <<u, k>> # e
    BY <1>5
  <2>2. CASE u = t
    <3>1. k # 1
      BY <2>1, <2>2
    <3>2. /\ k - 1 \in N /\ k - 1 \in DOMAIN list'[t] /\ list'[t][k - 1] = a
          /\ (k - 1) + 1 = k
      BY <1>1, <1>3, <1>4, <2>1, <2>2, <3>1
    <3>3. <<t, k - 1>> \in S
      BY <1>5, <3>2
    <3>4. f[<<t, k - 1>>] = z
      BY <2>1, <2>2, <3>2, <3>3
    <3>5. QED
      BY <3>3, <3>4
  <2>3. CASE u # t
    <3>1. z \in S
      BY <1>2, <1>5, <2>1, <2>3
    <3>2. f[z] = z
      BY <2>1, <2>3, <3>1
    <3>3. QED
      BY <3>1, <3>2
  <2>4. QED
    BY <2>2, <2>3
<1>9. ExistsBijection(S, T)
  <2> HIDE DEF f
  <2>1. f \in Bijection(S, T)
    BY <1>6, <1>7, <1>8 DEF Bijection, Injection, IsInjective, Surjection
  <2>2. QED
    BY <2>1 DEF ExistsBijection
<1>10. IsFiniteSet(S)
  BY PlacesRange, FS_Subset DEF S, Places
<1>11. Cardinality(S) = Cardinality(T)
  BY <1>9, <1>10, FS_Bijection
<1>12. e \in Places(a) <=> a = Head(list[t])
  BY <1>1, <1>3 DEF Places
<1>13. IsFiniteSet(Places(a)) /\ Cardinality(Places(a)) \in Nat
  BY CountsFinite
<1>14. Cardinality(T) = Cardinality(Places(a)) - Bit(e \in Places(a))
  <2> HIDE DEF e
  <2>1. CASE e \in Places(a)
    BY <1>13, <2>1, FS_RemoveElement DEF T, Bit
  <2>2. CASE e \notin Places(a)
    <3>1. T = Places(a)
      BY <2>2 DEF T
    <3>2. QED
      BY <1>13, <2>2, <3>1 DEF Bit
  <2>3. QED
    BY <2>1, <2>2
<1>15. QED
  BY <1>11, <1>12, <1>14 DEF S, Bit

\* A step that leaves the lists alone and moves pointers of thread t.
LEMMA CountPointers ==
    ASSUME UInv, Counted, NEW t \in Threads, list' = list,
           RegFound(t) \/ RegCreate(t) \/ Login(t) \/ DropOwn(t) \/ Logout(t)
    PROVE  Counted'
<1>1. TypeOK /\ PInv
  BY DEF UInv, PInv, NInv
<1>2. \A a \in Addresses : refs[a] \in Int /\ a # NULL
  BY <1>1, AddressesAssumption DEF TypeOK
<1>3. \A a \in Addresses : Places(a)' = Places(a) /\ Cardinality(Places(a)) \in Nat
  BY CountsFinite DEF Places
<1> DEFINE Delta(a) == Bit(a \in slots') - Bit(a \in slots)
                       + Bit(mine'[t] = a) - Bit(mine[t] = a)
                       + Bit(logged'[t] = a) - Bit(logged[t] = a)
<1>4. SUFFICES /\ \A u \in Threads \ {t} : mine'[u] = mine[u] /\ logged'[u] = logged[u]
               /\ \A a \in Addresses : refs'[a] = refs[a] + Delta(a)
  <2>1. \A a \in Addresses : Delta(a) \in Int
    BY DEF Bit
  <2>2. \A a \in Addresses :
            refs'[a] = refs[a] + Delta(a) + Cardinality(Places(a)') - Cardinality(Places(a))
    <3> HIDE DEF Delta
    <3> QED BY <1>2, <1>3, <1>4, <2>1
  <2>3. \A a \in Addresses :
               refs'[a] = refs[a] + Bit(a \in slots') - Bit(a \in slots)
                          + Bit(mine'[t] = a) - Bit(mine[t] = a)
                          + Bit(logged'[t] = a) - Bit(logged[t] = a)
                          + Cardinality(Places(a)') - Cardinality(Places(a))
    BY <1>2, <1>3, <2>2 DEF Bit
  <2>4. QED
    BY <1>4, <2>3, CountStep
<1> USE DEF Bit
<1>5. CASE RegFound(t)
  <2>1. PICK a \in slots : player_ref(a) /\ RegDone(t, a) /\ UNCHANGED players
    BY <1>5 DEF RegFound
  <2>2. mine[t] = NULL /\ a \in Addresses
    BY <1>1, <1>5 DEF RegFound, PInv, Without, TypeOK
  <2>3. /\ mine'[t] = a /\ \A u \in Threads \ {t} : mine'[u] = mine[u]
        /\ logged' = logged /\ slots' = slots
    BY <1>1, <2>1 DEF RegDone, TypeOK, players
  <2>4. \A b \in Addresses : refs'[b] = IF b = a THEN refs[b] + 1 ELSE refs[b]
    BY <1>1, <2>1, <2>2 DEF player_ref, TypeOK
  <2>5. QED
    BY <1>2, <2>2, <2>3, <2>4
<1>6. CASE RegCreate(t)
  <2>1. PICK a \in Addresses \ slots : /\ refs' = [refs EXCEPT ![a] = 2]
                                       /\ slots' = slots \cup {a} /\ RegDone(t, a)
    BY <1>6 DEF RegCreate, player_create
  <2>2. mine[t] = NULL
    BY <1>1, <1>6 DEF RegCreate, PInv, Without
  <2>3. refs[a] = 0
    <3>1. Mine(a) = {} /\ Clients(a) = {}
      BY <1>2, <2>1 DEF PInv, UInv, Mine, Clients
    <3>2. Places(a) = {}
      BY <2>1 DEF UInv, Places
    <3>3. Cardinality(Mine(a)) = 0 /\ Cardinality(Clients(a)) = 0 /\ Cardinality(Places(a)) = 0
      BY <3>1, <3>2, FS_EmptySet
    <3>4. QED
      BY <2>1, <3>3 DEF Counted
  <2>4. /\ mine'[t] = a /\ (\A u \in Threads \ {t} : mine'[u] = mine[u])
        /\ logged' = logged
    BY <1>1, <2>1 DEF RegDone, TypeOK
  <2>5. \A b \in Addresses : refs'[b] = IF b = a THEN 2 ELSE refs[b]
    BY <1>1, <2>1 DEF TypeOK
  <2>6. QED
    BY <1>2, <2>1, <2>2, <2>3, <2>4, <2>5
<1>7. CASE Login(t)
  <2>1. mine[t] \in Addresses /\ logged[t] = NULL /\ slots' = slots
    BY <1>1, <1>7 DEF Login, TypeOK, NoNull, PInv, LoggedIn, Posting, players
  <2>2. CASE \E u \in Threads : logged[u] = mine[t]
    <3>1. /\ mine' = [mine EXCEPT ![t] = NULL] /\ logged' = logged
          /\ refs' = [refs EXCEPT ![mine[t]] = @ - 1]
      BY <1>7, <2>2 DEF Login, player_unref
    <3>2. /\ mine'[t] = NULL /\ \A u \in Threads \ {t} : mine'[u] = mine[u]
      BY <1>1, <3>1 DEF TypeOK
    <3>3. \A b \in Addresses : refs'[b] = IF b = mine[t] THEN refs[b] - 1 ELSE refs[b]
      BY <1>1, <2>1, <3>1 DEF TypeOK
    <3>4. QED
      BY <1>2, <2>1, <3>1, <3>2, <3>3
  <2>3. CASE ~\E u \in Threads : logged[u] = mine[t]
    <3>1. /\ logged' = [logged EXCEPT ![t] = mine[t]] /\ mine' = mine
          /\ refs' = [refs EXCEPT ![mine[t]] = @ + 1]
      BY <1>7, <2>3 DEF Login, player_ref
    <3>2. /\ logged'[t] = mine[t] /\ \A u \in Threads \ {t} : logged'[u] = logged[u]
      BY <1>1, <3>1 DEF TypeOK
    <3>3. \A b \in Addresses : refs'[b] = IF b = mine[t] THEN refs[b] + 1 ELSE refs[b]
      BY <1>1, <2>1, <3>1 DEF TypeOK
    <3>4. QED
      BY <1>2, <2>1, <3>1, <3>2, <3>3
  <2>4. QED
    BY <2>2, <2>3
<1>8. CASE DropOwn(t)
  <2>1. mine[t] \in Addresses /\ slots' = slots /\ logged' = logged
    BY <1>1, <1>8 DEF DropOwn, TypeOK, NoNull, players
  <2>2. /\ mine' = [mine EXCEPT ![t] = NULL] /\ refs' = [refs EXCEPT ![mine[t]] = @ - 1]
    BY <1>8 DEF DropOwn, player_unref
  <2>3. mine'[t] = NULL /\ \A u \in Threads \ {t} : mine'[u] = mine[u]
    BY <1>1, <2>2 DEF TypeOK
  <2>4. \A b \in Addresses : refs'[b] = IF b = mine[t] THEN refs[b] - 1 ELSE refs[b]
    BY <1>1, <2>1, <2>2 DEF TypeOK
  <2>5. QED
    BY <1>2, <2>1, <2>3, <2>4
<1>9. CASE Logout(t)
  <2>1. logged[t] \in Addresses /\ slots' = slots /\ mine' = mine
    BY <1>1, <1>9 DEF Logout, TypeOK, NoNull, LoggedIn, players
  <2>2. /\ logged' = [logged EXCEPT ![t] = NULL] /\ refs' = [refs EXCEPT ![logged[t]] = @ - 1]
    BY <1>9 DEF Logout, player_unref
  <2>3. logged'[t] = NULL /\ \A u \in Threads \ {t} : logged'[u] = logged[u]
    BY <1>1, <2>2 DEF TypeOK
  <2>4. \A b \in Addresses : refs'[b] = IF b = logged[t] THEN refs[b] - 1 ELSE refs[b]
    BY <1>1, <2>1, <2>2 DEF TypeOK
  <2>5. QED
    BY <1>2, <2>1, <2>3, <2>4
<1>10. QED
  BY <1>5, <1>6, <1>7, <1>8, <1>9

\* A step on a list.
LEMMA CountLists ==
    ASSUME UInv, Counted, NEW t \in Threads, UsersRef(t) \/ Show(t)
    PROVE  Counted'
<1>1. TypeOK /\ list[t] \in Seq(Addresses)
  BY DEF UInv, PInv, NInv, TypeOK
<1>2. \A a \in Addresses : refs[a] \in Int /\ Cardinality(Places(a)) \in Nat
  BY <1>1, CountsFinite DEF TypeOK
<1>3. UNCHANGED <<slots, mine, logged>>
  BY DEF UsersRef, Show, players
<1>4. SUFFICES \A a \in Addresses :
                   refs'[a] = refs[a] + Cardinality(Places(a)') - Cardinality(Places(a))
  <2>1. \A a \in Addresses :
               refs'[a] = refs[a] + Bit(a \in slots') - Bit(a \in slots)
                          + Bit(mine'[t] = a) - Bit(mine[t] = a)
                          + Bit(logged'[t] = a) - Bit(logged[t] = a)
                          + Cardinality(Places(a)') - Cardinality(Places(a))
    BY <1>2, <1>3, <1>4 DEF Bit
  <2>2. QED
    BY <1>3, <2>1, CountStep
<1>5. CASE UsersRef(t)
  <2>1. /\ pc[t] = "users_ref" /\ refs' = [refs EXCEPT ![got[t]] = @ + 1]
        /\ list' = [list EXCEPT ![t] = Append(list[t], got[t])]
    BY <1>5 DEF UsersRef, player_ref
  <2>2. got[t] \in Addresses
    BY <1>1, <2>1 DEF TypeOK, NoNull
  <2>3. Len(list[t]) < Cardinality(Threads)
    <3>1. Cardinality(seen[t]) \in Nat /\ Cardinality(seen[t]) <= Cardinality(Threads)
      BY <1>1, ThreadsAssumption, FS_Subset, FS_CardinalityType DEF TypeOK
    <3>2. Cardinality(Threads) \in Nat /\ Len(list[t]) \in Nat
      BY <1>1, ThreadsAssumption, FS_CardinalityType
    <3>3. Len(list[t]) < Cardinality(seen[t])
      BY <2>1 DEF UInv
    <3>4. QED
      BY <3>1, <3>2, <3>3
  <2>4. ASSUME NEW a PROVE Cardinality(Places(a)') = Cardinality(Places(a)) + Bit(a = got[t])
    <3> DEFINE x == got[t]
    <3>1. /\ x \in Addresses /\ list'[t] = Append(list[t], x)
          /\ \A u \in Threads \ {t} : list'[u] = list[u]
      BY <1>1, <2>1, <2>2 DEF TypeOK
    <3> HIDE DEF x
    <3>2. Cardinality(Places(a)') = Cardinality(Places(a)) + Bit(a = x)
      BY <1>1, <2>3, <3>1, PlacesAppend
    <3>3. QED
      BY <3>2 DEF x
  <2>5. \A a \in Addresses : refs'[a] = IF a = got[t] THEN refs[a] + 1 ELSE refs[a]
    BY <1>1, <2>1, <2>2 DEF TypeOK
  <2>6. QED
    BY <1>2, <2>4, <2>5 DEF Bit
<1>6. CASE Show(t)
  <2>1. /\ list[t] # << >> /\ refs' = [refs EXCEPT ![Head(list[t])] = @ - 1]
        /\ list' = [list EXCEPT ![t] = Tail(list[t])]
    BY <1>6 DEF Show, player_unref
  <2>2. Head(list[t]) \in Addresses
    BY <1>1, <2>1, HeadTailProperties
  <2>3. Len(list[t]) <= Cardinality(Threads)
    BY DEF UInv
  <2>4. \A a \in Addresses :
            Cardinality(Places(a)') = Cardinality(Places(a)) - Bit(a = Head(list[t]))
    BY <1>1, <2>1, <2>3, PlacesTail
  <2>5. \A a \in Addresses : refs'[a] = IF a = Head(list[t]) THEN refs[a] - 1 ELSE refs[a]
    BY <1>1, <2>1, <2>2 DEF TypeOK
  <2>6. QED
    BY <1>2, <2>4, <2>5 DEF Bit
<1>7. QED
  BY <1>5, <1>6

LEMMA CountNext == UInv /\ Counted /\ [Next]_vars => Counted'
<1> SUFFICES ASSUME UInv, Counted, [Next]_vars PROVE Counted'
  OBVIOUS
<1>1. ASSUME UNCHANGED <<refs, slots, mine, logged, list>> PROVE Counted'
  BY <1>1 DEF Counted, Mine, Clients, Places
<1>2. ASSUME NEW t \in Threads,
             \/ \E n \in Names : RegBegin(t, n)
             \/ RegNone(t) \/ UsersBegin(t) \/ UsersEnd(t) \/ ShowEnd(t)
             \/ Lock1(t) \/ Lock2(t) \/ Expect(t) \/ Write1(t) \/ Write2(t) \/ Unlock(t)
             \/ \E u \in Threads : UsersLook(t, u) \/ \E r \in Results : PostCall(t, u, r)
      PROVE  Counted'
  BY <1>1, <1>2 DEF RegBegin, RegNone, UsersBegin, UsersEnd, ShowEnd, Lock1, Lock2, Expect,
                    Write1, Write2, Unlock, UsersLook, PostCall, SetMutex, players, usersVars
<1>3. CASE Fini \/ UNCHANGED vars
  BY <1>1, <1>3 DEF Fini, vars, players, usersVars
<1>4. ASSUME NEW t \in Threads, RegFound(t) \/ RegCreate(t) \/ Login(t) \/ DropOwn(t) \/ Logout(t)
      PROVE  Counted'
  <2>1. list' = list
    BY <1>4 DEF RegFound, RegCreate, RegDone, Login, DropOwn, Logout, usersVars
  <2>2. QED
    BY <1>4, <2>1, CountPointers
<1>5. ASSUME NEW a \in Addresses, FiniNext(a) PROVE Counted'
  <2>1. /\ a \in slots /\ slots' = slots \ {a} /\ refs' = [refs EXCEPT ![a] = @ - 1]
        /\ UNCHANGED <<mine, logged, list>>
    BY <1>5 DEF FiniNext, player_unref, usersVars
  <2>2. \A b \in Addresses : refs[b] \in Int /\ refs'[b] = IF b = a THEN refs[b] - 1 ELSE refs[b]
    BY <2>1 DEF UInv, PInv, NInv, TypeOK
  <2>3. \A b : Mine(b)' = Mine(b) /\ Clients(b)' = Clients(b) /\ Places(b)' = Places(b)
    BY <2>1 DEF Mine, Clients, Places
  <2>4. ASSUME NEW b \in Addresses
        PROVE  refs'[b] = Bit(b \in slots') + Cardinality(Mine(b)) + Cardinality(Clients(b))
                          + Cardinality(Places(b))
    <3>1. refs[b] = Bit(b \in slots) + Cardinality(Mine(b)) + Cardinality(Clients(b))
                    + Cardinality(Places(b))
      BY DEF Counted
    <3>2. /\ Cardinality(Mine(b)) \in Nat /\ Cardinality(Clients(b)) \in Nat
          /\ Cardinality(Places(b)) \in Nat
      BY CountsFinite
    <3>3. QED
      BY <2>1, <2>2, <3>1, <3>2 DEF Bit
  <2>5. QED
    BY <2>3, <2>4 DEF Counted
<1>6. QED
  BY <1>2, <1>3, <1>4, <1>5, CountLists DEF Next

LEMMA CountInvariant == Spec => [](UInv /\ Counted)
<1>1. Init => Counted
  <2> SUFFICES ASSUME Init PROVE Counted
    OBVIOUS
  <2>1. ASSUME NEW a \in Addresses
        PROVE  refs[a] = 0 /\ a \notin slots /\ Mine(a) = {} /\ Clients(a) = {} /\ Places(a) = {}
    BY AddressesAssumption DEF Init, Mine, Clients, Places
  <2>2. ASSUME NEW a \in Addresses
        PROVE  /\ refs[a] = 0 /\ Bit(a \in slots) = 0 /\ Cardinality(Mine(a)) = 0
               /\ Cardinality(Clients(a)) = 0 /\ Cardinality(Places(a)) = 0
    BY <2>1, FS_EmptySet DEF Bit
  <2>3. QED
    BY <2>2 DEF Counted
<1>2. QED
  BY <1>1, InitUsers, UsersNext, CountNext, PTL DEF Spec

\* The reference counts of players are exact.
THEOREM PlayersRefsExact == Spec => []RefsExact
BY CountInvariant, CountedIsExact, PTL

\* No thread uses a player that has been freed: whatever it has in hand is in
\* the registry, which has a reference to it until all threads have ended.
THEOREM PlayersNoFreedPlayer == Spec => []NoFreedPlayer
<1>1. UInv /\ Counted => NoFreedPlayer
  <2> SUFFICES ASSUME UInv, Counted, NEW t \in Threads, NEW a \in InHand(t) \ {NULL}
               PROVE  refs[a] > 0
    BY DEF NoFreedPlayer
  <2>1. a \in slots /\ a \in Addresses
    BY DEF InHand, UInv, PInv, NInv, TypeOK
  <2>2. /\ Cardinality(Mine(a)) \in Nat /\ Cardinality(Clients(a)) \in Nat
        /\ Cardinality(Places(a)) \in Nat
    BY CountsFinite
  <2>3. QED
    BY <2>1, <2>2 DEF Counted, Bit
<1>2. QED
  BY <1>1, CountInvariant, PTL
=============================================================================
