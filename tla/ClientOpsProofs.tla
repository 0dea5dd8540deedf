--------------------------- MODULE ClientOpsProofs ---------------------------
(***************************************************************************)
(* Proofs about module ClientOps, for any number of clients, players and   *)
(* invitations.                                                            *)
(***************************************************************************)
EXTENDS ClientOps, SequenceTheorems, TLAPS

USE DEF NULL_ROLE, FIRST_PLAYER_ROLE, SECOND_PLAYER_ROLE, PlayerRole, GameRole

\* The labels at which a thread works on an invitation.
WithInv == Label \ {"new", "idle", "login", "log_set", "closing", "logout", "unreg", "free", "gone"}

HasInv == \A c \in Clients : pc[c] \in WithInv => cur[c] \in Invs

\* Inductive by itself: a label with an invitation is entered by pinning one.
TInv == TypeOK /\ HasInv

-----------------------------------------------------------------------------
\* role%2+1 is a player's role, whatever byte the role is.
LEMMA OtherRole == \A r \in 0..255 : Other(r) \in PlayerRole
BY DEF Other

\* A move leaves roles in the game's two fields.
LEMMA MoveRoles ==
    \A r \in GameRole : \A o \in MoveOutcomes(r) : o[1] \in GameRole /\ o[2] \in GameRole
BY DEF MoveOutcomes, Other

\* The role a thread plays is a byte, its opponent's is a player's role.
LEMMA RoleOfType ==
    ASSUME TypeOK, NEW c, NEW i \in Invs
    PROVE  RoleOf(c, i) \in 0..255 /\ Other(RoleOf(c, i)) \in PlayerRole
<1>1. role[i] \in 0..255 /\ \A r \in PlayerRole : r \in 0..255
  BY DEF TypeOK
<1>2. RoleOf(c, i) \in 0..255
  BY <1>1, OtherRole DEF RoleOf
<1>3. QED
  BY <1>2, OtherRole

\* arraylist_set keeps a list a list.
LEMMA PutSeq ==
    ASSUME NEW S, NEW l \in Seq(S), NEW k, NEW x \in S
    PROVE  Put(l, k, x) \in Seq(S)
<1>1. CASE k \in DOMAIN l
  BY <1>1, ExceptSeq DEF Put
<1>2. CASE k \notin DOMAIN l
  BY <1>2, AppendProperties DEF Put
<1>3. QED
  BY <1>1, <1>2

\* The references an inv_unref drops.
LEMMA DropInvType ==
    ASSUME TypeOK, NEW c \in Clients, NEW i \in Invs, DropInv(c, i)
    PROVE  irefs' \in [Invs -> Int] /\ crefs' \in [Clients -> Int]
<1>1. irefs' \in [Invs -> Int]
  BY DEF TypeOK, DropInv
<1>2. CASE irefs[i] > 1
  BY <1>1, <1>2 DEF TypeOK, DropInv
<1>3. CASE ~(irefs[i] > 1)
  <2> DEFINE ends == {source[i], target[i]}
  <2>1. crefs' = [d \in Clients |-> IF d \in ends THEN crefs[d] - 1 ELSE crefs[d]]
    BY <1>3 DEF DropInv
  <2>2. \A d \in Clients : crefs[d] \in Int
    BY DEF TypeOK
  <2>3. QED
    BY <1>1, <2>1, <2>2
<1>4. QED
  BY <1>2, <1>3

\* The list and the references after an invitation is added or removed.
LEMMA AddToType ==
    ASSUME TypeOK, NEW d, NEW i \in Invs, AddTo(d, i)
    PROVE  irefs' \in [Invs -> Int] /\ list' \in [Clients -> Seq(Invs \cup {NoInv})]
<1> DEFINE S == Invs \cup {NoInv}
           F(l) == Put(l, Slot(l, NoInv), i)
<1>1. \A l \in Seq(S) : F(l) \in Seq(S)
  BY PutSeq
<1>2. list \in [Clients -> Seq(S)] /\ list' = [list EXCEPT ![d] = F(list[d])]
  BY DEF TypeOK, AddTo
<1>3. list' \in [Clients -> Seq(S)]
  <2> HIDE DEF S, F
  <2> QED BY <1>1, <1>2
<1>4. irefs' \in [Invs -> Int]
  BY DEF TypeOK, AddTo
<1>5. QED
  BY <1>3, <1>4

LEMMA RemoveFromType ==
    ASSUME TypeOK, NEW d, NEW i \in Invs, RemoveFrom(d, i)
    PROVE  irefs' \in [Invs -> Int] /\ list' \in [Clients -> Seq(Invs \cup {NoInv})]
<1> DEFINE S == Invs \cup {NoInv}
           F(l) == Put(l, Slot(l, i), NoInv)
<1>1. CASE Listed(d, i)
  <2>1. \A l \in Seq(S) : F(l) \in Seq(S)
    BY PutSeq
  <2>2. list \in [Clients -> Seq(S)] /\ list' = [list EXCEPT ![d] = F(list[d])]
    BY <1>1 DEF TypeOK, RemoveFrom
  <2>3. list' \in [Clients -> Seq(S)]
    <3> HIDE DEF S, F
    <3> QED BY <2>1, <2>2
  <2>4. irefs' \in [Invs -> Int]
    BY <1>1 DEF TypeOK, RemoveFrom
  <2>5. QED
    BY <2>3, <2>4
<1>2. CASE ~Listed(d, i)
  BY <1>2 DEF RemoveFrom, TypeOK
<1>3. QED
  BY <1>1, <1>2

\* The fields that inv_close writes.
LEMMA CloseInvType ==
    ASSUME TypeOK, NEW i \in Invs, NEW r \in 0..255, CloseInv(i, r)
    PROVE  /\ istate' \in [Invs -> {"unused", "open", "accepted", "closed"}]
           /\ turn' \in [Invs -> GameRole] /\ winner' \in [Invs -> GameRole]
<1>1. Other(r) \in GameRole
  BY OtherRole
<1>2. QED
  BY ZenonT(60), <1>1 DEF CloseInv, CloseInvTo, TypeOK

-----------------------------------------------------------------------------
\* A thread goes to label l, and keeps or changes its invitation.
ThreadOK == pc \in [Clients -> Label] /\ cur \in [Clients -> Invs \cup {NoInv}] /\ HasInv

LEMMA GotoType ==
    ASSUME TInv, NEW c \in Clients, NEW l \in Label, Goto(c, l),
           \/ cur' = cur /\ (l \in WithInv => cur[c] \in Invs)
           \/ cur' = [cur EXCEPT ![c] = NoInv] /\ l \notin WithInv
           \/ \E i \in Invs : cur' = [cur EXCEPT ![c] = i]
    PROVE  ThreadOK'
<1>1. /\ pc \in [Clients -> Label] /\ cur \in [Clients -> Invs \cup {NoInv}]
      /\ \A d \in Clients : pc[d] \in WithInv => cur[d] \in Invs
  BY DEF TInv, TypeOK, HasInv
<1>2. pc' = [pc EXCEPT ![c] = l]
  BY DEF Goto
<1>3. pc' \in [Clients -> Label] /\ cur' \in [Clients -> Invs \cup {NoInv}]
  BY <1>1, <1>2
<1>4. ASSUME NEW d \in Clients, pc'[d] \in WithInv PROVE cur'[d] \in Invs
  BY <1>1, <1>2, <1>4
<1>5. QED
  BY <1>3, <1>4 DEF ThreadOK, HasInv

\* A thread works on an invitation wherever a label says so.
LEMMA Working == ASSUME TInv, NEW c \in Clients, pc[c] \in WithInv PROVE cur[c] \in Invs
BY DEF TInv, HasInv

\* Type correctness: connecting, logging in and out, disconnecting.
LEMMA TypeConnection ==
    ASSUME TInv, NEW c \in Clients,
           \/ Connect(c) \/ (\E p \in Players : RecvLogin(c, p)) \/ ScanPlayers(c) \/ SetPlayer(c)
           \/ EndOfInput(c) \/ BeginLogout(c) \/ LogoutNext(c) \/ EndLogout(c)
           \/ Unregister(c) \/ Free(c)
    PROVE  TInv'
<1>1. CASE Connect(c)
  <2>1. ThreadOK'
    BY <1>1, GotoType, Working DEF Connect, Label, WithInv
  <2>2. crefs' \in [Clients -> Int]
    BY <1>1 DEF Connect, TInv, TypeOK
  <2>3. QED
    BY <1>1, <2>1, <2>2 DEF Connect, TInv, TypeOK, ThreadOK, gameVars, madeVars
<1>2. CASE \E p \in Players : RecvLogin(c, p)
  <2>1. ThreadOK'
    BY <1>2, GotoType, Working DEF RecvLogin, Label, WithInv
  <2>2. QED
    BY ZenonT(60), <1>2, <2>1 DEF RecvLogin, TInv, TypeOK, ThreadOK, gameVars, madeVars
<1>3. CASE ScanPlayers(c) \/ SetPlayer(c)
  <2>1. ThreadOK'
    BY <1>3, GotoType, Working DEF ScanPlayers, SetPlayer, Label, WithInv
  <2>2. QED
    BY ZenonT(60), <1>3, <2>1 DEF ScanPlayers, SetPlayer, TInv, TypeOK, ThreadOK, gameVars,
       madeVars
<1>4. CASE EndOfInput(c)
  <2>1. ThreadOK'
    BY <1>4, GotoType, Working DEF EndOfInput, Label, WithInv
  <2>2. QED
    BY <1>4, <2>1 DEF EndOfInput, TInv, TypeOK, ThreadOK, gameVars, madeVars
<1>5. CASE BeginLogout(c)
  <2>1. ThreadOK'
    BY <1>5, GotoType, Working DEF BeginLogout, Label, WithInv
  <2>2. QED
    BY <1>5, <2>1 DEF BeginLogout, TInv, TypeOK, ThreadOK, gameVars, madeVars
<1>6. CASE LogoutNext(c)
  <2>1. PICK k \in Ahead(c) :
          /\ idx' = [idx EXCEPT ![c] = k]
          /\ Pin(c, list[c][k], IF started[list[c][k]] THEN "resign" ELSE "close")
    BY <1>6 DEF LogoutNext
  <2>2. k \in Nat /\ list[c][k] \in Invs
    <3>1. list[c] \in Seq(Invs \cup {NoInv})
      BY DEF TInv, TypeOK
    <3>2. k \in 1..Len(list[c]) /\ list[c][k] # NoInv
      BY <3>1 DEF Ahead
    <3>3. QED
      BY <3>1, <3>2, ElementOfSeq
  <2>3. ThreadOK'
    BY <2>1, <2>2, GotoType DEF Pin, Label
  <2>4. irefs' \in [Invs -> Int] /\ idx' \in [Clients -> Nat]
    BY <2>1, <2>2 DEF Pin, TInv, TypeOK
  <2>5. QED
    BY <1>6, <2>3, <2>4 DEF LogoutNext, TInv, TypeOK, ThreadOK, gameVars, madeVars
<1>7. CASE EndLogout(c)
  <2>1. ThreadOK'
    BY <1>7, GotoType, Working DEF EndLogout, Label, WithInv
  <2>2. QED
    BY <1>7, <2>1 DEF EndLogout, TInv, TypeOK, ThreadOK, gameVars, madeVars
<1>8. CASE Unregister(c)
  <2>1. ThreadOK'
    BY <1>8, GotoType, Working DEF Unregister, Label, WithInv
  <2>2. crefs' \in [Clients -> Int]
    BY <1>8 DEF Unregister, TInv, TypeOK
  <2>3. QED
    BY <1>8, <2>1, <2>2 DEF Unregister, TInv, TypeOK, ThreadOK, gameVars, madeVars
<1>9. CASE Free(c)
  <2>1. ThreadOK'
    BY <1>9, GotoType, Working DEF Free, Label, WithInv
  <2>2. QED
    BY <1>9, <2>1 DEF Free, TInv, TypeOK, ThreadOK, gameVars, madeVars
<1>10. QED
  BY <1>1, <1>2, <1>3, <1>4, <1>5, <1>6, <1>7, <1>8, <1>9

\* Type correctness: making an invitation.
LEMMA TypeInvite ==
    ASSUME TInv, NEW c \in Clients,
           \/ \E p \in Players, r \in InviteRoles : RecvInvite(c, p, r)
           \/ AddSource(c) \/ AddTarget(c) \/ DropMade(c) \/ EndInvite(c)
    PROVE  TInv'
<1>1. ASSUME NEW p \in Players, NEW r \in InviteRoles, RecvInvite(c, p, r) PROVE TInv'
  <2>1. PICK d \in Clients, i \in Invs :
          /\ istate' = [istate EXCEPT ![i] = "open"]
          /\ source' = [source EXCEPT ![i] = c]
          /\ target' = [target EXCEPT ![i] = d]
          /\ role' = [role EXCEPT ![i] = r]
          /\ irefs' = [irefs EXCEPT ![i] = 1]
          /\ crefs' = [crefs EXCEPT ![c] = @ + 1, ![d] = @ + 2]
          /\ cur' = [cur EXCEPT ![c] = i]
    BY <1>1 DEF RecvInvite, MakeInv, TakeClients
  <2>2. ThreadOK'
    BY <1>1, <2>1, GotoType DEF RecvInvite, MakeInv, Label, WithInv
  <2>3. irefs' \in [Invs -> Int] /\ crefs' \in [Clients -> Int]
    <3>1. irefs \in [Invs -> Int] /\ crefs \in [Clients -> Int]
      BY DEF TInv, TypeOK
    <3>2. irefs' \in [Invs -> Int]
      BY <2>1, <3>1
    <3>3. crefs' \in [Clients -> Int]
      BY <2>1, <3>1
    <3>4. QED
      BY <3>2, <3>3
  <2>4. role' \in [Invs -> 0..255]
    BY <2>1, InviteRolesAssumption DEF TInv, TypeOK
  <2>5. QED
    BY <1>1, <2>1, <2>2, <2>3, <2>4 DEF RecvInvite, MakeInv, TInv, TypeOK, ThreadOK, gameVars
<1>2. CASE AddSource(c)
  <2>1. cur[c] \in Invs
    BY <1>2, Working DEF AddSource, WithInv, Label
  <2>2. irefs' \in [Invs -> Int] /\ list' \in [Clients -> Seq(Invs \cup {NoInv})]
    BY <1>2, <2>1, AddToType DEF AddSource, TInv
  <2>3. ThreadOK'
    BY <1>2, <2>1, <2>2, GotoType, Working DEF AddSource, Label, WithInv
  <2>4. QED
    BY <1>2, <2>1, <2>2, <2>3 DEF AddSource, TInv, TypeOK, ThreadOK, gameVars, madeVars
<1>3. CASE AddTarget(c)
  <2>1. cur[c] \in Invs
    BY <1>3, Working DEF AddTarget, WithInv, Label
  <2>2. irefs' \in [Invs -> Int] /\ list' \in [Clients -> Seq(Invs \cup {NoInv})]
    BY <1>3, <2>1, AddToType DEF AddTarget, TInv, TypeOK
  <2>3. ThreadOK'
    BY <1>3, <2>1, <2>2, GotoType, Working DEF AddTarget, Label, WithInv
  <2>4. QED
    BY <1>3, <2>1, <2>2, <2>3 DEF AddTarget, TInv, TypeOK, ThreadOK, gameVars, madeVars
<1>4. CASE DropMade(c)
  <2>1. cur[c] \in Invs
    BY <1>4, Working DEF DropMade, WithInv, Label
  <2>2. irefs' \in [Invs -> Int] /\ crefs' \in [Clients -> Int]
    BY <1>4, <2>1, DropInvType DEF DropMade, TInv
  <2>3. ThreadOK'
    BY <1>4, <2>1, <2>2, GotoType, Working DEF DropMade, Label, WithInv
  <2>4. QED
    BY <1>4, <2>1, <2>2, <2>3 DEF DropMade, TInv, TypeOK, ThreadOK, gameVars, madeVars
<1>5. CASE EndInvite(c)
  <2>1. ThreadOK'
    BY <1>5, GotoType, Working DEF EndInvite, Resume, Label, WithInv
  <2>2. crefs' \in [Clients -> Int]
    <3>1. crefs \in [Clients -> Int]
      BY DEF TInv, TypeOK
    <3>2. PICK d : crefs' = [crefs EXCEPT ![d] = crefs[d] - 1]
      BY <1>5 DEF EndInvite
    <3>3. crefs' = [e \in Clients |-> IF e = d THEN crefs[e] - 1 ELSE crefs[e]]
      BY <3>1, <3>2
    <3>4. \A e \in Clients : crefs[e] \in Int
      BY <3>1
    <3>5. QED
      BY <3>3, <3>4
  <2>3. QED
    BY <1>5, <2>1, <2>2 DEF EndInvite, Resume, TInv, TypeOK, ThreadOK, gameVars, madeVars
<1>6. QED
  BY <1>1, <1>2, <1>3, <1>4, <1>5

\* Type correctness: the requests that pin an invitation.
LEMMA TypeRequest ==
    ASSUME TInv, NEW c \in Clients, NEW i \in Invs,
           \/ RecvRevoke(c, i) \/ RecvDecline(c, i) \/ RecvAccept(c, i)
           \/ RecvResign(c, i) \/ RecvMove(c, i)
    PROVE  TInv'
<1>1. PICK l \in {"close", "refuse", "accept", "resign", "move"} : Request(c, i, l)
  BY DEF RecvRevoke, RecvDecline, RecvAccept, RecvResign, RecvMove
<1>2. ThreadOK'
  BY <1>1, GotoType DEF Request, Pin, Label
<1>3. irefs' \in [Invs -> Int]
  BY <1>1 DEF Request, Pin, TInv, TypeOK
<1>4. QED
  BY <1>1, <1>2, <1>3 DEF Request, TInv, TypeOK, ThreadOK, gameVars, madeVars

\* Type correctness: the steps on a pinned invitation.
LEMMA TypeStep ==
    ASSUME TInv, NEW c \in Clients,
           \/ CloseOpen(c) \/ RemoveSource(c) \/ RemoveTarget(c) \/ Unref(c) \/ Notify(c)
           \/ Accept(c) \/ TellAccepted(c)
           \/ ResignGame(c) \/ RemoveOwn(c) \/ RemoveOpp(c) \/ PostResult(c)
           \/ ApplyMove(c) \/ RefuseMove(c) \/ TellMoved(c) \/ MoveOver(c)
           \/ Finish(c)
    PROVE  TInv'
<1>1. CASE CloseOpen(c)
  <2>1. cur[c] \in Invs
    BY <1>1, Working DEF CloseOpen, WithInv, Label
  <2>2. ThreadOK'
    BY <1>1, <2>1, GotoType, Working DEF CloseOpen, Label, WithInv
  <2>3. /\ istate' \in [Invs -> {"unused", "open", "accepted", "closed"}]
        /\ turn' \in [Invs -> GameRole] /\ winner' \in [Invs -> GameRole]
    BY SMTT(30), <1>1, <2>1, CloseInvType DEF CloseOpen, TInv, TypeOK
  <2>4. QED
    BY <1>1, <2>2, <2>3 DEF CloseOpen, TInv, TypeOK, ThreadOK, madeVars
<1>2. CASE RemoveSource(c)
  <2>1. cur[c] \in Invs
    BY <1>2, Working DEF RemoveSource, Remove, WithInv, Label
  <2>2. irefs' \in [Invs -> Int] /\ list' \in [Clients -> Seq(Invs \cup {NoInv})]
    BY <1>2, <2>1, RemoveFromType DEF RemoveSource, Remove, TInv
  <2>3. ThreadOK'
    BY <1>2, <2>1, <2>2, GotoType, Working DEF RemoveSource, Remove, Label, WithInv
  <2>4. QED
    BY <1>2, <2>1, <2>2, <2>3 DEF RemoveSource, Remove, TInv, TypeOK, ThreadOK, gameVars, madeVars
<1>3. CASE RemoveTarget(c)
  <2>1. cur[c] \in Invs
    BY <1>3, Working DEF RemoveTarget, Remove, WithInv, Label
  <2>2. irefs' \in [Invs -> Int] /\ list' \in [Clients -> Seq(Invs \cup {NoInv})]
    BY <1>3, <2>1, RemoveFromType DEF RemoveTarget, Remove, TInv
  <2>3. ThreadOK'
    BY <1>3, <2>1, <2>2, GotoType, Working DEF RemoveTarget, Remove, Label, WithInv
  <2>4. QED
    BY <1>3, <2>1, <2>2, <2>3 DEF RemoveTarget, Remove, TInv, TypeOK, ThreadOK, gameVars, madeVars
<1>4. CASE RemoveOwn(c)
  <2>1. cur[c] \in Invs
    BY <1>4, Working DEF RemoveOwn, Remove, WithInv, Label
  <2>2. irefs' \in [Invs -> Int] /\ list' \in [Clients -> Seq(Invs \cup {NoInv})]
    BY <1>4, <2>1, RemoveFromType DEF RemoveOwn, Remove, TInv
  <2>3. ThreadOK'
    BY <1>4, <2>1, <2>2, GotoType, Working DEF RemoveOwn, Remove, Label, WithInv
  <2>4. QED
    BY <1>4, <2>1, <2>2, <2>3 DEF RemoveOwn, Remove, TInv, TypeOK, ThreadOK, gameVars, madeVars
<1>5. CASE RemoveOpp(c)
  <2>1. cur[c] \in Invs
    BY <1>5, Working DEF RemoveOpp, Remove, WithInv, Label
  <2>2. irefs' \in [Invs -> Int] /\ list' \in [Clients -> Seq(Invs \cup {NoInv})]
    BY <1>5, <2>1, RemoveFromType DEF RemoveOpp, Remove, TInv
  <2>3. ThreadOK'
    BY <1>5, <2>1, <2>2, GotoType, Working DEF RemoveOpp, Remove, Label, WithInv
  <2>4. QED
    BY <1>5, <2>1, <2>2, <2>3 DEF RemoveOpp, Remove, TInv, TypeOK, ThreadOK, gameVars, madeVars
<1>6. CASE Unref(c)
  <2>1. cur[c] \in Invs
    BY <1>6, Working DEF Unref, WithInv, Label
  <2>2. irefs' \in [Invs -> Int] /\ crefs' \in [Clients -> Int]
    BY <1>6, <2>1, DropInvType DEF Unref, TInv
  <2>3. ThreadOK'
    BY <1>6, <2>1, <2>2, GotoType, Working DEF Unref, Label, WithInv
  <2>4. QED
    BY <1>6, <2>1, <2>2, <2>3 DEF Unref, TInv, TypeOK, ThreadOK, gameVars, madeVars
<1>7. CASE Notify(c)
  <2>1. ThreadOK'
    BY <1>7, GotoType, Working DEF Notify, Resume, Label, WithInv
  <2>2. QED
    BY <1>7, <2>1 DEF Notify, Resume, TInv, TypeOK, ThreadOK, gameVars, madeVars
<1>8. CASE Accept(c)
  <2>1. cur[c] \in Invs
    BY <1>8, Working DEF Accept, AcceptInv, WithInv, Label
  <2>2. ThreadOK'
    BY <1>8, <2>1, GotoType, Working DEF Accept, AcceptInv, Label, WithInv
  <2>3. QED
    BY ZenonT(60), <1>8, <2>1, <2>2 DEF Accept, AcceptInv, TInv, TypeOK, ThreadOK, gameVars,
       madeVars
<1>9. CASE TellAccepted(c) \/ TellMoved(c)
  <2>1. ThreadOK'
    BY <1>9, GotoType, Working DEF TellAccepted, TellMoved, Tell, Label, WithInv
  <2>2. QED
    BY ZenonT(60), <1>9, <2>1 DEF TellAccepted, TellMoved, Tell, TInv, TypeOK, ThreadOK,
       gameVars, madeVars
<1>10. CASE ResignGame(c)
  <2>1. cur[c] \in Invs
    BY <1>10, Working DEF ResignGame, WithInv, Label
  <2>2. RoleOf(c, cur[c]) \in 0..255 /\ Other(RoleOf(c, cur[c])) \in GameRole
    BY <2>1, RoleOfType DEF TInv
  <2>3. ThreadOK'
    BY <1>10, <2>1, <2>2, GotoType, Working DEF ResignGame, Label, WithInv
  <2>4. /\ istate' \in [Invs -> {"unused", "open", "accepted", "closed"}]
        /\ turn' \in [Invs -> GameRole] /\ winner' \in [Invs -> GameRole]
    BY <1>10, <2>1, <2>2, CloseInvType DEF ResignGame, TInv, TypeOK
  <2>5. verdict' \in [Clients -> GameRole]
    BY <1>10, <2>2 DEF ResignGame, TInv, TypeOK
  <2>6. QED
    BY <1>10, <2>3, <2>4, <2>5 DEF ResignGame, TInv, TypeOK, ThreadOK, madeVars
<1>11. CASE PostResult(c)
  <2>1. cur[c] \in Invs
    BY <1>11, Working DEF PostResult, WithInv, Label
  <2>2. results' \in [Invs -> Seq(GameRole)]
    <3>1. results \in [Invs -> Seq(GameRole)] /\ verdict[c] \in GameRole
      BY DEF TInv, TypeOK
    <3>2. \A r \in Seq(GameRole) : Append(r, verdict[c]) \in Seq(GameRole)
      BY <3>1, AppendProperties
    <3>3. QED
      BY ZenonT(60), <1>11, <2>1, <3>1, <3>2 DEF PostResult
  <2>3. ThreadOK'
    BY <1>11, <2>1, <2>2, GotoType, Working DEF PostResult, Label, WithInv
  <2>4. QED
    BY <1>11, <2>1, <2>2, <2>3 DEF PostResult, TInv, TypeOK, ThreadOK, gameVars, madeVars
<1>12. CASE ApplyMove(c)
  <2>1. cur[c] \in Invs
    BY <1>12, Working DEF ApplyMove, WithInv, Label
  <2>2. turn' \in [Invs -> GameRole] /\ winner' \in [Invs -> GameRole]
    <3>1. turn \in [Invs -> GameRole] /\ winner \in [Invs -> GameRole]
      BY DEF TInv, TypeOK
    <3>2. PICK o \in MoveOutcomes(turn[cur[c]]) :
            /\ turn' = [turn EXCEPT ![cur[c]] = o[1]]
            /\ winner' = [winner EXCEPT ![cur[c]] = o[2]]
      BY <1>12 DEF ApplyMove
    <3>3. o[1] \in GameRole /\ o[2] \in GameRole
      BY <2>1, <3>1, MoveRoles
    <3>4. QED
      BY <3>1, <3>2, <3>3
  <2>3. ThreadOK'
    BY <1>12, <2>1, <2>2, GotoType, Working DEF ApplyMove, Label, WithInv
  <2>4. QED
    BY <1>12, <2>1, <2>2, <2>3 DEF ApplyMove, TInv, TypeOK, ThreadOK, gameVars, madeVars
<1>13. CASE RefuseMove(c)
  <2>1. ThreadOK'
    BY <1>13, GotoType, Working DEF RefuseMove, Label, WithInv
  <2>2. QED
    BY <1>13, <2>1 DEF RefuseMove, TInv, TypeOK, ThreadOK, gameVars, madeVars
<1>14. CASE MoveOver(c)
  <2>1. cur[c] \in Invs
    BY <1>14, Working DEF MoveOver, WithInv, Label
  <2>2. ThreadOK'
    BY <1>14, <2>1, GotoType, Working DEF MoveOver, Label, WithInv
  <2>3. winner[cur[c]] \in GameRole /\ Other(winner[cur[c]]) \in 0..255
    <3>1. winner[cur[c]] \in GameRole
      BY <2>1 DEF TInv, TypeOK
    <3>2. winner[cur[c]] \in 0..255 /\ Other(winner[cur[c]]) \in PlayerRole
      BY <3>1, OtherRole
    <3>3. QED
      BY <3>1, <3>2
  <2>4. /\ istate' \in [Invs -> {"unused", "open", "accepted", "closed"}]
        /\ turn' \in [Invs -> GameRole] /\ winner' \in [Invs -> GameRole]
    BY <1>14, <2>1, <2>3, CloseInvType DEF MoveOver, TInv, TypeOK
  <2>5. verdict' \in [Clients -> GameRole]
    BY <1>14, <2>3 DEF MoveOver, TInv, TypeOK
  <2>6. QED
    BY <1>14, <2>2, <2>4, <2>5 DEF MoveOver, TInv, TypeOK, ThreadOK, madeVars
<1>15. CASE Finish(c)
  <2>1. cur[c] \in Invs
    BY <1>15, Working DEF Finish, WithInv, Label
  <2>2. irefs' \in [Invs -> Int] /\ crefs' \in [Clients -> Int]
    BY <1>15, <2>1, DropInvType DEF Finish, TInv
  <2>3. ThreadOK'
    BY <1>15, <2>1, <2>2, GotoType, Working DEF Finish, Resume, Label, WithInv
  <2>4. QED
    BY <1>15, <2>1, <2>2, <2>3 DEF Finish, Resume, TInv, TypeOK, ThreadOK, gameVars, madeVars
<1>16. QED
  BY <1>1, <1>2, <1>3, <1>4, <1>5, <1>6, <1>7, <1>8, <1>9, <1>10, <1>11, <1>12, <1>13, <1>14,
     <1>15

LEMMA TypeNext == TInv /\ [Next]_vars => TInv'
<1>1. TInv /\ Next => TInv'
  BY TypeConnection, TypeInvite, TypeRequest, TypeStep DEF Next, Recv, Work
<1>2. TInv /\ UNCHANGED vars => TInv'
  BY DEF TInv, TypeOK, HasInv, vars, threadVars, gameVars, madeVars
<1>3. QED
  BY <1>1, <1>2

LEMMA TypeInit == Init => TInv
<1> SUFFICES ASSUME Init PROVE TInv
  OBVIOUS
<1>1. TypeOK
  BY DEF Init, TypeOK, Label
<1>2. HasInv
  BY DEF Init, HasInv, WithInv, Label
<1>3. QED
  BY <1>1, <1>2 DEF TInv

\* Whatever the threads do to each other's objects, and wherever the process
\* stops, the fields of the objects are well-typed.
THEOREM ClientTypeOK == Spec => []TypeOK
<1>1. TInv => TypeOK
  BY DEF TInv
<1>2. QED
  BY <1>1, TypeInit, TypeNext, PTL DEF Spec
-----------------------------------------------------------------------------
(***************************************************************************)
(* Who deals with an invitation: the lists that hold it and the threads    *)
(* that work on it are those of its two ends, which differ.                *)
(***************************************************************************)
Ends(i) == {source[i], target[i]}

EInv ==
    /\ \A i \in Invs : istate[i] # "unused" =>
           source[i] \in Clients /\ target[i] \in Clients /\ source[i] # target[i]
    /\ \A c \in Clients, i \in Invs : Listed(c, i) => istate[i] # "unused" /\ c \in Ends(i)
    /\ \A c \in Clients : pc[c] \in WithInv =>
           istate[cur[c]] # "unused" /\ c \in Ends(cur[c])

\* arraylist_set changes at most the entry it writes.
LEMMA PutElements ==
    ASSUME NEW S, NEW l \in Seq(S), NEW k, NEW x \in S, NEW m \in DOMAIN Put(l, k, x)
    PROVE  Put(l, k, x)[m] = x \/ (m \in DOMAIN l /\ Put(l, k, x)[m] = l[m])
<1>1. CASE k \in DOMAIN l
  BY <1>1, ExceptSeq DEF Put
<1>2. CASE k \notin DOMAIN l
  BY <1>2, AppendProperties DEF Put
<1>3. QED
  BY <1>1, <1>2

\* What the lists hold after client_add_invitation ...
LEMMA AddToListed ==
    ASSUME TypeOK, NEW d, NEW i \in Invs, AddTo(d, i),
           NEW e \in Clients, NEW j \in Invs, Listed(e, j)'
    PROVE  Listed(e, j) \/ (e = d /\ j = i)
<1> DEFINE S == Invs \cup {NoInv}
           F(l) == Put(l, Slot(l, NoInv), i)
<1>1. list[e] \in Seq(S) /\ list' = [list EXCEPT ![d] = F(list[d])] /\ DOMAIN list = Clients
  BY DEF TypeOK, AddTo
<1>2. CASE e # d
  <2>1. list'[e] = list[e]
    BY <1>1, <1>2
  <2>2. QED
    BY <2>1 DEF Listed
<1>3. CASE e = d
  <2>1. list'[e] = F(list[e])
    <3> HIDE DEF F
    <3> QED BY <1>1, <1>3
  <2>2. PICK m \in DOMAIN F(list[e]) : F(list[e])[m] = j
    BY <2>1 DEF Listed
  <2>3. F(list[e])[m] = i \/ (m \in DOMAIN list[e] /\ F(list[e])[m] = list[e][m])
    BY <1>1, PutElements
  <2>4. QED
    BY <1>3, <2>2, <2>3 DEF Listed
<1>4. QED
  BY <1>2, <1>3

\* ... and after client_remove_invitation.
LEMMA RemoveFromListed ==
    ASSUME TypeOK, NEW d, NEW i \in Invs, RemoveFrom(d, i),
           NEW e \in Clients, NEW j \in Invs, Listed(e, j)'
    PROVE  Listed(e, j)
<1> DEFINE S == Invs \cup {NoInv}
           F(l) == Put(l, Slot(l, i), NoInv)
<1>1. CASE list' = list
  BY <1>1 DEF Listed
<1>2. CASE list' # list
  <2>1. list[e] \in Seq(S) /\ list' = [list EXCEPT ![d] = F(list[d])] /\ DOMAIN list = Clients
    BY <1>2 DEF TypeOK, RemoveFrom
  <2>2. CASE e # d
    <3>1. list'[e] = list[e]
      BY <2>1, <2>2
    <3>2. QED
      BY <3>1 DEF Listed
  <2>3. CASE e = d
    <3>1. list'[e] = F(list[e])
      <4> HIDE DEF F
      <4> QED BY <2>1, <2>3
    <3>2. PICK m \in DOMAIN F(list[e]) : F(list[e])[m] = j
      BY <3>1 DEF Listed
    <3>3. F(list[e])[m] = NoInv \/ (m \in DOMAIN list[e] /\ F(list[e])[m] = list[e][m])
      BY <2>1, PutElements
    <3>4. QED
      BY <3>2, <3>3, NullAssumption DEF Listed
  <2>4. QED
    BY <2>2, <2>3
<1>3. QED
  BY <1>1, <1>2

\* A step of thread c that makes no invitation.
LEMMA EndsStep ==
    ASSUME TInv, TInv', EInv, NEW c \in Clients, UNCHANGED <<source, target>>,
           \A i \in Invs : istate'[i] = "unused" <=> istate[i] = "unused",
           \A d \in Clients \ {c} : pc'[d] = pc[d] /\ cur'[d] = cur[d],
           \/ pc'[c] \notin WithInv
           \/ cur'[c] = cur[c] /\ pc[c] \in WithInv
           \/ cur'[c] \in Invs /\ Listed(c, cur'[c]),
           \A e \in Clients, j \in Invs : Listed(e, j)' =>
               Listed(e, j) \/ (j = cur[c] /\ pc[c] \in WithInv /\ e \in Ends(j))
    PROVE  EInv'
<1>1. \A i \in Invs : Ends(i)' = Ends(i)
  BY DEF Ends
<1>2. ASSUME NEW i \in Invs, istate'[i] # "unused"
      PROVE  source'[i] \in Clients /\ target'[i] \in Clients /\ source'[i] # target'[i]
  BY <1>2 DEF EInv
<1>3. ASSUME NEW d \in Clients, NEW i \in Invs, Listed(d, i)'
      PROVE  istate'[i] # "unused" /\ d \in Ends(i)'
  BY <1>1, <1>3 DEF EInv
<1>4. ASSUME NEW d \in Clients, pc'[d] \in WithInv
      PROVE  istate'[cur'[d]] # "unused" /\ d \in Ends(cur[d])'
  <2>1. cur'[d] \in Invs /\ Ends(cur[d])' = {source[cur'[d]], target[cur'[d]]}
    BY <1>4 DEF TInv, HasInv, Ends
  <2>2. CASE d # c \/ (cur'[d] = cur[d] /\ pc[d] \in WithInv)
    <3>1. pc[d] \in WithInv /\ cur'[d] = cur[d]
      BY <1>4, <2>2
    <3>2. istate[cur[d]] # "unused" /\ d \in Ends(cur[d])
      BY <3>1 DEF EInv
    <3>3. QED
      BY <2>1, <3>1, <3>2 DEF Ends
  <2>3. CASE d = c /\ Listed(c, cur'[c])
    <3>1. istate[cur'[c]] # "unused" /\ c \in Ends(cur'[c])
      BY <2>1, <2>3 DEF EInv
    <3>2. QED
      BY <2>1, <2>3, <3>1 DEF Ends
  <2>4. QED
    BY <1>4, <2>2, <2>3
<1>5. QED
  <2>1. \A i \in Invs : istate'[i] # "unused" =>
           source'[i] \in Clients /\ target'[i] \in Clients /\ source'[i] # target'[i]
    BY <1>2
  <2>2. \A d \in Clients, i \in Invs : Listed(d, i)' => istate'[i] # "unused" /\ d \in Ends(i)'
    BY <1>3
  <2>3. \A d \in Clients : pc'[d] \in WithInv =>
           istate'[cur'[d]] # "unused" /\ d \in Ends(cur[d])'
    BY <1>4
  <2>4. QED
    BY <2>1, <2>2, <2>3 DEF EInv

\* Steps outside the list operations.
LEMMA EndsKept ==
    ASSUME TInv, TInv', EInv, NEW c \in Clients,
           NEW l \in Label, Goto(c, l), UNCHANGED <<list, source, target>>,
           \A i \in Invs : istate'[i] = "unused" <=> istate[i] = "unused",
           \/ cur' = cur /\ (l \in WithInv => pc[c] \in WithInv)
           \/ (\A d \in Clients \ {c} : cur'[d] = cur[d]) /\ l \notin WithInv
           \/ \E i \in Invs : cur' = [cur EXCEPT ![c] = i] /\ Listed(c, i)
    PROVE  EInv'
<1>1. pc'[c] = l /\ \A d \in Clients \ {c} : pc'[d] = pc[d] /\ cur'[d] = cur[d]
  BY DEF Goto, TInv, TypeOK
<1>2. \A e \in Clients, j \in Invs : Listed(e, j)' => Listed(e, j)
  BY DEF Listed
<1>3. \/ pc'[c] \notin WithInv
      \/ cur'[c] = cur[c] /\ pc[c] \in WithInv
      \/ cur'[c] \in Invs /\ Listed(c, cur'[c])
  BY <1>1 DEF TInv, TypeOK
<1>4. QED
  BY <1>1, <1>2, <1>3, EndsStep

LEMMA EndsSteps ==
    ASSUME TInv, TInv', EInv, NEW c \in Clients,
           \/ Connect(c) \/ (\E p \in Players : RecvLogin(c, p)) \/ ScanPlayers(c) \/ SetPlayer(c)
           \/ EndOfInput(c) \/ BeginLogout(c) \/ LogoutNext(c) \/ EndLogout(c)
           \/ Unregister(c) \/ Free(c) \/ DropMade(c) \/ EndInvite(c)
           \/ \E i \in Invs : \/ RecvRevoke(c, i) \/ RecvDecline(c, i) \/ RecvAccept(c, i)
                            \/ RecvResign(c, i) \/ RecvMove(c, i)
           \/ CloseOpen(c) \/ Unref(c) \/ Notify(c) \/ Accept(c) \/ TellAccepted(c)
           \/ ResignGame(c) \/ PostResult(c) \/ ApplyMove(c) \/ RefuseMove(c)
           \/ TellMoved(c) \/ MoveOver(c) \/ Finish(c)
    PROVE  EInv'
<1> DEFINE Kept(l) == /\ Goto(c, l) /\ UNCHANGED <<list, source, target>>
                      /\ \A i \in Invs : istate'[i] = "unused" <=> istate[i] = "unused"
           Same(l) == cur' = cur /\ (l \in WithInv => pc[c] \in WithInv)
           Left(l) == (\A d \in Clients \ {c} : cur'[d] = cur[d]) /\ l \notin WithInv
           Took == \E i \in Invs : cur' = [cur EXCEPT ![c] = i] /\ Listed(c, i)
<1>1. ASSUME NEW l \in Label, Kept(l), Same(l) \/ Left(l) \/ Took PROVE EInv'
  BY <1>1, EndsKept
<1>2. istate \in [Invs -> {"unused", "open", "accepted", "closed"}]
  BY DEF TInv, TypeOK
<1>3. CASE Connect(c) \/ (\E p \in Players : RecvLogin(c, p)) \/ ScanPlayers(c) \/ SetPlayer(c)
  BY <1>1, <1>3 DEF Connect, RecvLogin, ScanPlayers, SetPlayer, madeVars, Label, WithInv
<1>4. CASE EndOfInput(c) \/ BeginLogout(c) \/ EndLogout(c)
  BY <1>1, <1>4 DEF EndOfInput, BeginLogout, EndLogout, madeVars, Label, WithInv
<1>5. CASE Unregister(c) \/ Free(c)
  BY <1>1, <1>5 DEF Unregister, Free, madeVars, Label, WithInv
<1>6. CASE LogoutNext(c)
  <2>1. PICK k \in Ahead(c) :
          Pin(c, list[c][k], IF started[list[c][k]] THEN "resign" ELSE "close")
    BY <1>6 DEF LogoutNext
  <2>2. list[c][k] \in Invs
    <3>1. list[c] \in Seq(Invs \cup {NoInv})
      BY DEF TInv, TypeOK
    <3>2. k \in 1..Len(list[c]) /\ list[c][k] # NoInv
      BY <3>1 DEF Ahead
    <3>3. QED
      BY <3>1, <3>2, ElementOfSeq
  <2>3. Took /\ UNCHANGED <<list, source, target, istate>>
    BY <1>6, <2>1, <2>2 DEF LogoutNext, Pin, madeVars
  <2>4. \E l \in Label : Goto(c, l)
    BY <2>1 DEF Pin, Label
  <2>5. QED
    BY <1>1, <2>3, <2>4
<1>7. CASE DropMade(c) \/ Unref(c)
  BY <1>1, <1>7 DEF DropMade, Unref, madeVars, Label, WithInv
<1>8. CASE EndInvite(c) \/ Notify(c) \/ Finish(c)
  BY <1>1, <1>8 DEF EndInvite, Notify, Finish, Resume, madeVars, Label, WithInv, TInv, TypeOK
<1>9. CASE \E i \in Invs : \/ RecvRevoke(c, i) \/ RecvDecline(c, i) \/ RecvAccept(c, i)
                         \/ RecvResign(c, i) \/ RecvMove(c, i)
  <2>1. PICK i \in Invs, l \in {"close", "refuse", "accept", "resign", "move"} : Request(c, i, l)
    BY <1>9 DEF RecvRevoke, RecvDecline, RecvAccept, RecvResign, RecvMove
  <2>2. QED
    BY <1>1, <2>1 DEF Request, Pin, madeVars, Label
<1>10. CASE CloseOpen(c)
  BY <1>1, <1>2, <1>10 DEF CloseOpen, Closable, CloseInv, CloseInvTo, madeVars, Label, WithInv
<1>11. CASE Accept(c) \/ TellAccepted(c) \/ TellMoved(c)
  BY <1>1, <1>2, <1>11 DEF Accept, AcceptInv, TellAccepted, TellMoved, Tell, madeVars, Label,
     WithInv
<1>12. CASE ResignGame(c)
  BY <1>1, <1>2, <1>12 DEF ResignGame, Closable, CloseInv, CloseInvTo, madeVars, Label, WithInv
<1>13. CASE PostResult(c) \/ ApplyMove(c) \/ RefuseMove(c)
  BY <1>1, <1>13 DEF PostResult, ApplyMove, RefuseMove, madeVars, Label, WithInv
<1>14. CASE MoveOver(c)
  BY <1>1, <1>2, <1>14 DEF MoveOver, Closable, CloseInv, CloseInvTo, madeVars, Label, WithInv
<1>15. QED
  BY <1>3, <1>4, <1>5, <1>6, <1>7, <1>8, <1>9, <1>10, <1>11, <1>12, <1>13, <1>14

LEMMA EndsListSteps ==
    ASSUME TInv, TInv', EInv, NEW c \in Clients,
           \/ AddSource(c) \/ AddTarget(c)
           \/ RemoveSource(c) \/ RemoveTarget(c) \/ RemoveOwn(c) \/ RemoveOpp(c)
    PROVE  EInv'
<1> DEFINE i == cur[c]
<1>1. ASSUME NEW l \in WithInv, Goto(c, l), pc[c] \in WithInv,
             UNCHANGED <<source, target, istate, cur>>,
             \A e \in Clients, j \in Invs : Listed(e, j)' => Listed(e, j) \/ (j = i /\ e \in Ends(i))
      PROVE  EInv'
  <2>1. \A d \in Clients \ {c} : pc'[d] = pc[d] /\ cur'[d] = cur[d]
    BY <1>1 DEF Goto, TInv, TypeOK
  <2>2. QED
    BY <1>1, <2>1, EndsStep
<1>2. ASSUME pc[c] \in WithInv PROVE i \in Invs /\ c \in Ends(i)
  BY <1>2, Working DEF EInv
<1>3. CASE AddSource(c) \/ AddTarget(c)
  <2>1. pc[c] \in WithInv /\ UNCHANGED <<source, target, istate, cur>>
    BY <1>3 DEF AddSource, AddTarget, madeVars, WithInv, Label
  <2>2. \A e \in Clients, j \in Invs : Listed(e, j)' => Listed(e, j) \/ (j = i /\ e \in Ends(i))
    <3>1. CASE list' = list
      BY <3>1 DEF Listed
    <3>2. CASE list' # list
      <4>1. PICK d \in Ends(i) : AddTo(d, i)
        BY <1>2, <1>3, <2>1, <3>2 DEF AddSource, AddTarget, Ends
      <4>2. QED
        BY <1>2, <2>1, <4>1, AddToListed DEF TInv
    <3>3. QED
      BY <3>1, <3>2
  <2>3. \E l \in WithInv : Goto(c, l)
    BY <1>3 DEF AddSource, AddTarget, WithInv, Label
  <2>4. QED
    BY <1>1, <2>1, <2>2, <2>3
<1>4. ASSUME NEW d, NEW l \in WithInv, NEW m \in WithInv, Remove(c, d, l, m) PROVE EInv'
  <2>1. pc[c] \in WithInv /\ Goto(c, m) /\ UNCHANGED <<source, target, istate, cur>>
    BY <1>4 DEF Remove, madeVars
  <2>2. \A e \in Clients, j \in Invs : Listed(e, j)' => Listed(e, j)
    BY <1>2, <1>4, <2>1, RemoveFromListed DEF Remove, TInv
  <2>3. QED
    BY <1>1, <2>1, <2>2
<1>5. QED
  BY <1>3, <1>4
  DEF RemoveSource, RemoveTarget, RemoveOwn, RemoveOpp, WithInv, Label

LEMMA EndsInvite ==
    ASSUME TInv, TInv', EInv, NEW c \in Clients,
           \E p \in Players, r \in InviteRoles : RecvInvite(c, p, r)
    PROVE  EInv'
<1>1. PICK d \in Clients \ {c}, i \in Invs :
        /\ istate[i] = "unused" /\ istate' = [istate EXCEPT ![i] = "open"]
        /\ source' = [source EXCEPT ![i] = c] /\ target' = [target EXCEPT ![i] = d]
        /\ cur' = [cur EXCEPT ![c] = i]
  BY DEF RecvInvite, MakeInv
<1>2. Goto(c, "add_source") /\ list' = list
  BY DEF RecvInvite, MakeInv
<1>3. /\ pc'[c] = "add_source" /\ cur'[c] = i
      /\ \A e \in Clients \ {c} : pc'[e] = pc[e] /\ cur'[e] = cur[e]
  BY <1>1, <1>2 DEF Goto, TInv, TypeOK
<1>4. /\ istate'[i] = "open" /\ source'[i] = c /\ target'[i] = d
      /\ \A j \in Invs \ {i} : /\ istate'[j] = istate[j] /\ source'[j] = source[j]
                              /\ target'[j] = target[j]
  BY <1>1 DEF TInv, TypeOK
<1>5. \A j \in Invs : istate'[j] # "unused" =>
         source'[j] \in Clients /\ target'[j] \in Clients /\ source'[j] # target'[j]
  BY <1>1, <1>4 DEF EInv
<1>6. ASSUME NEW e \in Clients, NEW j \in Invs, Listed(e, j)'
      PROVE  istate'[j] # "unused" /\ e \in Ends(j)'
  <2>1. Listed(e, j)
    BY <1>2, <1>6 DEF Listed
  <2>2. j # i /\ e \in Ends(j) /\ istate[j] # "unused"
    BY <1>1, <2>1 DEF EInv
  <2>3. QED
    BY <1>4, <2>2 DEF Ends
<1>7. ASSUME NEW e \in Clients, pc'[e] \in WithInv
      PROVE  istate'[cur'[e]] # "unused" /\ e \in Ends(cur[e])'
  <2>1. CASE e = c
    BY <1>3, <1>4, <2>1 DEF Ends
  <2>2. CASE e # c
    <3>1. pc[e] \in WithInv /\ cur'[e] = cur[e] /\ cur[e] \in Invs
      BY <1>3, <1>7, <2>2 DEF TInv, HasInv
    <3>2. istate[cur[e]] # "unused" /\ e \in Ends(cur[e])
      BY <3>1 DEF EInv
    <3>3. QED
      BY <1>1, <1>4, <3>1, <3>2 DEF Ends
  <2>3. QED
    BY <2>1, <2>2
<1>8. QED
  BY <1>5, <1>6, <1>7 DEF EInv

LEMMA EndsNext == TInv /\ EInv /\ [Next]_vars => EInv'
<1> SUFFICES ASSUME TInv, EInv, [Next]_vars PROVE EInv'
  OBVIOUS
<1>1. TInv'
  BY TypeNext
<1>2. CASE Next
  BY <1>1, <1>2, EndsSteps, EndsListSteps, EndsInvite DEF Next, Recv, Work
<1>3. CASE UNCHANGED vars
  BY <1>3 DEF vars, madeVars, threadVars, EInv, Ends, Listed
<1>4. QED
  BY <1>2, <1>3
-----------------------------------------------------------------------------
(***************************************************************************)
(* SingleCloser is not inductive alone.  That nobody has posted when a     *)
(* thread closes needs that nothing is posted before an invitation closes; *)
(* that the winner is who is posted when the loser resigns from a game     *)
(* that is over needs DecidedIsClosed: the winner's thread is busy then,   *)
(* so the one that resigns plays for the other side.                       *)
(***************************************************************************)
Phases ==
    \A i \in Invs :
        /\ istate[i] # "closed" => results[i] = << >>
        /\ turn[i] # NULL_ROLE => istate[i] = "accepted"
        /\ istate[i] = "accepted" => started[i]
        /\ istate[i] \in {"unused", "open"} => ~started[i]

Moving == {"mv_tell", "mv_over"}

CInv == TInv /\ EInv /\ Phases /\ DecidedIsClosed /\ SingleCloser

\* A step that only takes a thread to a label outside Closing.
LEMMA QuietStep ==
    ASSUME CInv, TInv', EInv', NEW c \in Clients, NEW l \in Label \ Closing, Goto(c, l),
           \A d \in Clients \ {c} : cur'[d] = cur[d],
           \/ pc[c] \notin Moving
           \/ l \in Moving /\ cur'[c] = cur[c]
           \/ istate[cur[c]] # "accepted" \/ turn[cur[c]] # NULL_ROLE,
           UNCHANGED <<istate, source, target, role, started, turn, winner, results, verdict>>
    PROVE  CInv'
<1>1. pc'[c] = l /\ \A d \in Clients \ {c} : pc'[d] = pc[d]
  BY DEF Goto, CInv, TInv, TypeOK
<1>2. SingleCloser'
  BY <1>1 DEF CInv, SingleCloser
<1>3. DecidedIsClosed'
  <2> SUFFICES ASSUME NEW i \in Invs, istate[i] = "accepted", turn[i] = NULL_ROLE
               PROVE  \E d \in Clients : /\ pc'[d] \in Moving /\ cur'[d] = i
                                        /\ winner[i] \in {NULL_ROLE, RoleOf(d, i)}
    BY DEF DecidedIsClosed, RoleOf, Moving
  <2>1. PICK d \in Clients : /\ pc[d] \in Moving /\ cur[d] = i
                             /\ winner[i] \in {NULL_ROLE, RoleOf(d, i)}
    BY DEF CInv, DecidedIsClosed, Moving
  <2>2. pc'[d] \in Moving /\ cur'[d] = i
    BY <1>1, <2>1
  <2>3. QED
    BY <2>1, <2>2
<1>4. Phases'
  BY DEF CInv, Phases
<1>5. QED
  BY <1>2, <1>3, <1>4 DEF CInv

\* A thread that closes cur[c]: nobody else is closing it.
LEMMA CloseStep ==
    ASSUME CInv, TInv', EInv', NEW c \in Clients, NEW l \in Closing, Goto(c, l),
           pc[c] \in WithInv,
           istate[cur[c]] \in {"open", "accepted"},
           istate' = [istate EXCEPT ![cur[c]] = "closed"],
           turn' = [turn EXCEPT ![cur[c]] = NULL_ROLE],
           \A i \in Invs \ {cur[c]} : winner'[i] = winner[i],
           \A d \in Clients \ {c} : verdict'[d] = verdict[d],
           l \in Ending => /\ istate[cur[c]] = "accepted"
                           /\ winner'[cur[c]] \in {NULL_ROLE, verdict'[c]},
           UNCHANGED <<source, target, role, cur, started, results>>
    PROVE  CInv'
<1>1. cur[c] \in Invs
  BY Working DEF CInv
<1>2. pc'[c] = l /\ \A d \in Clients \ {c} : pc'[d] = pc[d]
  BY DEF Goto, CInv, TInv, TypeOK
<1>3. \A d \in Clients : pc[d] \in Closing => cur[d] # cur[c] /\ cur[d] \in Invs
  BY Working DEF CInv, SingleCloser, Closing, Ending, WithInv, Label
<1>4. /\ istate'[cur[c]] = "closed" /\ turn'[cur[c]] = NULL_ROLE
      /\ results[cur[c]] = << >> /\ (istate[cur[c]] = "accepted" => started[cur[c]])
      /\ \A i \in Invs \ {cur[c]} : istate'[i] = istate[i] /\ turn'[i] = turn[i]
  BY <1>1 DEF CInv, Phases, TInv, TypeOK
<1>5. Phases'
  BY <1>4 DEF CInv, Phases
<1>6. SingleCloser'
  <2> SUFFICES ASSUME NEW d \in Clients, pc'[d] \in Closing
               PROVE  /\ istate'[cur[d]] = "closed" /\ results[cur[d]] = << >>
                      /\ \A e \in Clients : pc'[e] \in Closing /\ cur[e] = cur[d] => e = d
                      /\ pc'[d] \in Ending =>
                             started[cur[d]] /\ winner'[cur[d]] \in {NULL_ROLE, verdict'[d]}
    BY DEF SingleCloser
  <2>1. CASE d = c
    BY <1>2, <1>3, <1>4, <2>1
  <2>2. CASE d # c
    <3>1. pc[d] \in Closing /\ cur[d] # cur[c] /\ cur[d] \in Invs
      BY <1>2, <1>3, <2>2
    <3>2. \A e \in Clients : pc'[e] \in Closing /\ cur[e] = cur[d] => pc[e] \in Closing
      BY <1>2, <3>1
    <3>3. QED
      BY <1>2, <1>4, <2>2, <3>1, <3>2 DEF CInv, SingleCloser
  <2>3. QED
    BY <2>1, <2>2
<1>7. DecidedIsClosed'
  <2> SUFFICES ASSUME NEW i \in Invs, istate'[i] = "accepted", turn'[i] = NULL_ROLE
               PROVE  \E d \in Clients : /\ pc'[d] \in Moving /\ cur[d] = i
                                        /\ winner'[i] \in {NULL_ROLE, RoleOf(d, i)}
    BY DEF DecidedIsClosed, RoleOf, Moving
  <2>1. i # cur[c] /\ istate[i] = "accepted" /\ turn[i] = NULL_ROLE /\ winner'[i] = winner[i]
    BY <1>4
  <2>2. PICK d \in Clients : /\ pc[d] \in Moving /\ cur[d] = i
                             /\ winner[i] \in {NULL_ROLE, RoleOf(d, i)}
    BY <2>1 DEF CInv, DecidedIsClosed, Moving
  <2>3. QED
    BY <1>2, <2>1, <2>2
<1>8. QED
  BY <1>5, <1>6, <1>7 DEF CInv

\* The steps that close nothing, and leave the game and the results alone.
LEMMA QuietSteps ==
    ASSUME CInv, TInv', EInv', NEW c \in Clients,
           \/ Connect(c) \/ (\E p \in Players : RecvLogin(c, p)) \/ ScanPlayers(c) \/ SetPlayer(c)
           \/ EndOfInput(c) \/ BeginLogout(c) \/ LogoutNext(c) \/ EndLogout(c)
           \/ Unregister(c) \/ Free(c)
           \/ AddSource(c) \/ AddTarget(c) \/ DropMade(c) \/ EndInvite(c)
           \/ \E i \in Invs : \/ RecvRevoke(c, i) \/ RecvDecline(c, i) \/ RecvAccept(c, i)
                            \/ RecvResign(c, i) \/ RecvMove(c, i)
           \/ Unref(c) \/ Notify(c) \/ TellAccepted(c) \/ TellMoved(c)
           \/ RefuseMove(c)
    PROVE  CInv'
<1> DEFINE Quiet(l) == /\ Goto(c, l)
                       /\ \A d \in Clients \ {c} : cur'[d] = cur[d]
                       /\ \/ pc[c] \notin Moving
                          \/ l \in Moving /\ cur'[c] = cur[c]
                       /\ UNCHANGED <<istate, source, target, role, started, turn, winner,
                                      results, verdict>>
<1>1. ASSUME NEW l \in Label \ Closing, Quiet(l) PROVE CInv'
  BY <1>1, QuietStep
<1> USE DEF Label, Closing, Ending, Moving, gameVars, madeVars, CInv, TInv, TypeOK
<1>2. CASE Connect(c) \/ (\E p \in Players : RecvLogin(c, p)) \/ ScanPlayers(c) \/ SetPlayer(c)
  BY <1>1, <1>2 DEF Connect, RecvLogin, ScanPlayers, SetPlayer
<1>3. CASE EndOfInput(c) \/ BeginLogout(c)
  BY <1>1, <1>3 DEF EndOfInput, BeginLogout
<1>4. CASE LogoutNext(c)
  <2>1. PICK k : Pin(c, list[c][k], IF started[list[c][k]] THEN "resign" ELSE "close")
    BY <1>4 DEF LogoutNext
  <2>2. QED
    BY <1>1, <1>4, <2>1 DEF LogoutNext, Pin
<1>5. CASE EndLogout(c) \/ Unregister(c) \/ Free(c)
  BY <1>1, <1>5 DEF EndLogout, Unregister, Free
<1>6. CASE AddSource(c) \/ AddTarget(c)
  BY <1>1, <1>6 DEF AddSource, AddTarget
<1>7. CASE DropMade(c) \/ EndInvite(c)
  BY <1>1, <1>7 DEF DropMade, EndInvite, Resume
<1>8. CASE \E i \in Invs : \/ RecvRevoke(c, i) \/ RecvDecline(c, i) \/ RecvAccept(c, i)
                         \/ RecvResign(c, i) \/ RecvMove(c, i)
  <2>1. PICK i \in Invs, l \in {"close", "refuse", "accept", "resign", "move"} : Request(c, i, l)
    BY <1>8 DEF RecvRevoke, RecvDecline, RecvAccept, RecvResign, RecvMove
  <2>2. QED
    BY <1>1, <2>1 DEF Request, Pin
<1>9. CASE Unref(c) \/ Notify(c)
  BY <1>1, <1>9 DEF Unref, Notify, Resume
<1>10. CASE TellAccepted(c) \/ TellMoved(c) \/ RefuseMove(c)
  BY <1>1, <1>10 DEF TellAccepted, TellMoved, Tell, RefuseMove
<1>11. QED
  BY <1>2, <1>3, <1>4, <1>5, <1>6, <1>7, <1>8, <1>9, <1>10

LEMMA FinishStep == ASSUME CInv, TInv', EInv', NEW c \in Clients, Finish(c) PROVE CInv'
<1>1. /\ \E l \in {"logout", "idle"} : Goto(c, l)
      /\ \A d \in Clients \ {c} : cur'[d] = cur[d]
      /\ pc[c] \notin Moving
      /\ UNCHANGED <<istate, source, target, role, started, turn, winner, results, verdict>>
  BY DEF Finish, Resume, Moving, gameVars, madeVars, CInv, TInv, TypeOK
<1>2. QED
  BY <1>1, QuietStep DEF Label, Closing, Ending

\* An invitation is made.
LEMMA InviteStep ==
    ASSUME CInv, TInv', EInv', NEW c \in Clients,
           \E p \in Players, r \in InviteRoles : RecvInvite(c, p, r)
    PROVE  CInv'
<1>1. PICK i \in Invs :
        /\ istate[i] = "unused" /\ istate' = [istate EXCEPT ![i] = "open"]
        /\ \A j \in Invs \ {i} : /\ source'[j] = source[j] /\ target'[j] = target[j]
                                /\ role'[j] = role[j]
        /\ cur' = [cur EXCEPT ![c] = i]
  BY ZenonT(60) DEF RecvInvite, MakeInv, CInv, TInv, TypeOK
<1>2. /\ Goto(c, "add_source") /\ pc[c] = "idle"
      /\ UNCHANGED <<started, turn, winner, results, verdict>>
  BY DEF RecvInvite, MakeInv, gameVars
<1>3. pc'[c] = "add_source" /\ \A d \in Clients \ {c} : pc'[d] = pc[d] /\ cur'[d] = cur[d]
  BY <1>1, <1>2 DEF Goto, CInv, TInv, TypeOK
<1>4. /\ istate'[i] = "open" /\ \A j \in Invs \ {i} : istate'[j] = istate[j]
  BY <1>1 DEF CInv, TInv, TypeOK
<1>5. Phases'
  BY <1>1, <1>2, <1>4 DEF CInv, Phases
<1>6. \A d \in Clients : pc'[d] \in Closing => d # c /\ cur[d] \in Invs /\ cur[d] # i
  BY <1>1, <1>3, Working DEF CInv, SingleCloser, Closing, Ending, WithInv, Label
<1>7. SingleCloser'
  BY <1>2, <1>3, <1>4, <1>6 DEF CInv, SingleCloser
<1>8. DecidedIsClosed'
  <2> SUFFICES ASSUME NEW j \in Invs, istate'[j] = "accepted", turn'[j] = NULL_ROLE
               PROVE  \E d \in Clients : /\ pc'[d] \in Moving /\ cur'[d] = j
                                        /\ winner'[j] \in {NULL_ROLE, RoleOf(d, j)'}
    BY DEF DecidedIsClosed, Moving
  <2>1. j # i /\ istate[j] = "accepted" /\ turn[j] = NULL_ROLE
    BY <1>2, <1>4
  <2>2. PICK d \in Clients : /\ pc[d] \in Moving /\ cur[d] = j
                             /\ winner[j] \in {NULL_ROLE, RoleOf(d, j)}
    BY <2>1 DEF CInv, DecidedIsClosed, Moving
  <2>3. d # c /\ RoleOf(d, j)' = RoleOf(d, j)
    BY <1>1, <1>2, <2>1, <2>2 DEF Moving, RoleOf
  <2>4. QED
    BY <1>2, <1>3, <2>2, <2>3
<1>9. QED
  BY <1>5, <1>7, <1>8 DEF CInv

\* Two threads that work on one invitation play opposite roles in it.
LEMMA Opposed ==
    ASSUME TInv, EInv, NEW c \in Clients, NEW d \in Clients, NEW i \in Invs,
           c # d, istate[i] # "unused", c \in Ends(i), d \in Ends(i),
           RoleOf(d, i) \in PlayerRole
    PROVE  Other(RoleOf(c, i)) = RoleOf(d, i)
<1>1. role[i] \in 0..255
  BY DEF TInv, TypeOK
<1>2. \A r \in PlayerRole : Other(Other(r)) = r
  BY DEF Other
<1>3. \A r \in 0..255 : Other(Other(Other(r))) = Other(r)
  BY <1>2, OtherRole
<1>4. CASE source[i] = c
  <2>1. target[i] = d /\ source[i] # d
    BY <1>4 DEF Ends
  <2>2. RoleOf(c, i) = Other(role[i]) /\ RoleOf(d, i) = role[i]
    BY <1>4, <2>1 DEF RoleOf
  <2>3. QED
    BY <1>2, <2>2
<1>5. CASE source[i] # c
  <2>1. source[i] = d
    BY <1>5 DEF Ends
  <2>2. RoleOf(c, i) = role[i] /\ RoleOf(d, i) = Other(role[i])
    BY <1>5, <2>1 DEF RoleOf
  <2>3. QED
    BY <2>2
<1>6. QED
  BY <1>4, <1>5

\* The steps that close an invitation or a game, or fail to.
LEMMA CloseOpenStep ==
    ASSUME CInv, TInv', EInv', NEW c \in Clients, CloseOpen(c) PROVE CInv'
<1> DEFINE i == cur[c]
<1>1. i \in Invs /\ pc[c] \in WithInv /\ pc[c] \notin Moving
  BY Working DEF CloseOpen, CInv, WithInv, Label, Moving
<1>2. UNCHANGED <<source, target, role, started, results, verdict, cur>>
  BY DEF CloseOpen, madeVars
<1>3. CASE istate[i] = "open"
  <2>1. turn[i] = NULL_ROLE
    BY <1>1, <1>3 DEF CInv, Phases
  <2>2. /\ istate' = [istate EXCEPT ![i] = "closed"] /\ Goto(c, "rm_source")
        /\ turn' = turn /\ winner' = winner
    BY <1>3 DEF CloseOpen, Closable, CloseInv, CloseInvTo
  <2>3. turn' = [turn EXCEPT ![i] = NULL_ROLE]
    BY <1>1, <2>1, <2>2 DEF CInv, TInv, TypeOK
  <2>4. QED
    BY <1>1, <1>2, <1>3, <2>2, <2>3, CloseStep DEF Closing, Ending
<1>4. CASE istate[i] # "open"
  <2>1. UNCHANGED <<istate, turn, winner>> /\ Goto(c, "refuse")
    BY <1>4 DEF CloseOpen, Closable
  <2>2. QED
    BY <1>1, <1>2, <2>1, QuietStep DEF Label, Closing, Ending
<1>5. QED
  BY <1>3, <1>4

LEMMA ResignStep ==
    ASSUME CInv, TInv', EInv', NEW c \in Clients, ResignGame(c) PROVE CInv'
<1> DEFINE i == cur[c]
           won == Other(RoleOf(c, i))
<1>1. i \in Invs /\ pc[c] \in WithInv /\ pc[c] \notin Moving
  BY Working DEF ResignGame, CInv, WithInv, Label, Moving
<1>2. UNCHANGED <<source, target, role, started, results, cur>>
  BY DEF ResignGame, madeVars
<1>3. CASE istate[i] = "accepted" /\ RoleOf(c, i) # NULL_ROLE
  <2>1. /\ istate' = [istate EXCEPT ![i] = "closed"]
        /\ turn' = [turn EXCEPT ![i] = NULL_ROLE]
        /\ winner' = IF turn[i] = NULL_ROLE THEN winner ELSE [winner EXCEPT ![i] = won]
        /\ verdict' = [verdict EXCEPT ![c] = won]
        /\ Goto(c, "rm_own")
    <3>1. started[i] /\ Closable(i, RoleOf(c, i))
      BY <1>1, <1>3 DEF CInv, Phases, Closable
    <3>2. CloseInv(i, RoleOf(c, i)) /\ verdict' = [verdict EXCEPT ![c] = won] /\ Goto(c, "rm_own")
      BY <3>1 DEF ResignGame
    <3>3. CASE turn[i] = NULL_ROLE
      <4>1. turn' = turn /\ winner' = winner
        BY <3>2, <3>3 DEF CloseInv, CloseInvTo
      <4>2. turn' = [turn EXCEPT ![i] = NULL_ROLE]
        BY <1>1, <3>3, <4>1 DEF CInv, TInv, TypeOK
      <4>3. QED
        BY <3>2, <3>3, <4>1, <4>2 DEF CloseInv, CloseInvTo
    <3>4. CASE turn[i] # NULL_ROLE
      BY <1>3, <3>2, <3>4 DEF CloseInv, CloseInvTo
    <3>5. QED
      BY <3>3, <3>4
  <2>2. /\ \A j \in Invs \ {i} : winner'[j] = winner[j]
        /\ \A d \in Clients \ {c} : verdict'[d] = verdict[d]
        /\ verdict'[c] = won
    BY <2>1 DEF CInv, TInv, TypeOK
  <2>3. winner'[i] \in {NULL_ROLE, won}
    <3>1. CASE turn[i] = NULL_ROLE
      <4>1. PICK d \in Clients : /\ pc[d] \in Moving /\ cur[d] = i
                                 /\ winner[i] \in {NULL_ROLE, RoleOf(d, i)}
        BY <1>1, <1>3, <3>1 DEF CInv, DecidedIsClosed, Moving
      <4>2. d # c /\ c \in Ends(i) /\ d \in Ends(i)
        BY <1>1, <4>1 DEF CInv, EInv, Moving, WithInv, Label
      <4>3. winner[i] \in GameRole
        BY <1>1 DEF CInv, TInv, TypeOK
      <4>4. winner[i] # NULL_ROLE => won = winner[i]
        <5> SUFFICES ASSUME winner[i] # NULL_ROLE PROVE won = winner[i]
          OBVIOUS
        <5>1. RoleOf(d, i) = winner[i] /\ RoleOf(d, i) \in PlayerRole
          BY <4>1, <4>3
        <5>2. QED
          BY <1>1, <1>3, <4>2, <5>1, Opposed DEF CInv
      <4>5. QED
        BY <2>1, <3>1, <4>4
    <3>2. CASE turn[i] # NULL_ROLE
      BY <1>1, <2>1, <3>2 DEF CInv, TInv, TypeOK
    <3>3. QED
      BY <3>1, <3>2
  <2>4. QED
    BY <1>1, <1>2, <1>3, <2>1, <2>2, <2>3, CloseStep DEF Closing, Ending
<1>4. CASE ~(istate[i] = "accepted" /\ RoleOf(c, i) # NULL_ROLE)
  <2>1. Goto(c, "refuse") /\ UNCHANGED <<istate, turn, winner, verdict>>
    <3>1. ~(started[i] /\ Closable(i, RoleOf(c, i)))
      BY <1>1, <1>4 DEF CInv, Phases, Closable
    <3>2. QED
      BY <3>1 DEF ResignGame
  <2>2. QED
    BY <1>1, <1>2, <2>1, QuietStep DEF Label, Closing, Ending
<1>5. QED
  BY <1>3, <1>4

LEMMA MoveOverStep ==
    ASSUME CInv, TInv', EInv', NEW c \in Clients, MoveOver(c) PROVE CInv'
<1> DEFINE i == cur[c]
<1>1. i \in Invs /\ pc[c] \in WithInv
  BY Working DEF MoveOver, CInv, WithInv, Label
<1>2. UNCHANGED <<source, target, role, started, results, cur>>
  BY DEF MoveOver, madeVars
<1>3. CASE turn[i] = NULL_ROLE /\ istate[i] = "accepted"
  <2>1. /\ istate' = [istate EXCEPT ![i] = "closed"]
        /\ verdict' = [verdict EXCEPT ![c] = winner[i]]
        /\ Goto(c, "rm_own")
        /\ turn' = turn /\ winner' = winner
    <3>1. Other(winner[i]) # NULL_ROLE
      <4>1. winner[i] \in GameRole
        BY <1>1 DEF CInv, TInv, TypeOK
      <4>2. winner[i] \in 0..255 /\ Other(winner[i]) \in PlayerRole
        BY <4>1, OtherRole
      <4>3. QED
        BY <4>2
    <3>2. Over(i) /\ Closable(i, Other(winner[i]))
      BY <1>1, <1>3, <3>1 DEF Over, Closable, CInv, Phases
    <3>3. CloseInv(i, Other(winner[i]))
      BY <3>2 DEF MoveOver
    <3>4. QED
      BY <1>3, <3>2, <3>3 DEF MoveOver, CloseInv, CloseInvTo
  <2>2. turn' = [turn EXCEPT ![i] = NULL_ROLE]
    BY <1>1, <1>3, <2>1 DEF CInv, TInv, TypeOK
  <2>3. (\A d \in Clients \ {c} : verdict'[d] = verdict[d]) /\ verdict'[c] = winner[i]
    BY <2>1 DEF CInv, TInv, TypeOK
  <2>4. QED
    BY <1>1, <1>2, <1>3, <2>1, <2>2, <2>3, CloseStep DEF Closing, Ending
<1>4. CASE ~(turn[i] = NULL_ROLE /\ istate[i] = "accepted")
  <2>1. /\ UNCHANGED <<istate, turn, winner, verdict>>
        /\ \E l \in {"refuse", "finish"} : Goto(c, l)
    <3>1. ~(Over(i) /\ Closable(i, Other(winner[i])))
      BY <1>1, <1>4 DEF Over, Closable, CInv, Phases
    <3>2. QED
      BY <3>1 DEF MoveOver
  <2>2. QED
    BY <1>1, <1>2, <1>4, <2>1, QuietStep DEF Label, Closing, Ending
<1>5. QED
  BY <1>3, <1>4

\* A closing thread takes its invitation out of the next list.
LEMMA RemoveStep ==
    ASSUME CInv, TInv', EInv', NEW c \in Clients,
           RemoveSource(c) \/ RemoveTarget(c) \/ RemoveOwn(c) \/ RemoveOpp(c)
    PROVE  CInv'
<1>1. PICK l \in Closing, m \in Closing :
          (\E d : Remove(c, d, l, m)) /\ (m \in Ending => l \in Ending)
  BY DEF RemoveSource, RemoveTarget, RemoveOwn, RemoveOpp, Closing, Ending
<1>2. /\ UNCHANGED <<istate, source, target, role, started, turn, winner, results, verdict, cur>>
      /\ pc[c] = l /\ Goto(c, m)
  BY <1>1 DEF Remove, madeVars, gameVars
<1>3. pc'[c] = m /\ \A e \in Clients \ {c} : pc'[e] = pc[e]
  BY <1>2 DEF Goto, CInv, TInv, TypeOK
<1>4. Phases'
  BY <1>2 DEF CInv, Phases
<1>5. SingleCloser'
  BY <1>1, <1>2, <1>3 DEF CInv, SingleCloser
<1>6. DecidedIsClosed'
  <2> SUFFICES ASSUME NEW i \in Invs, istate[i] = "accepted", turn[i] = NULL_ROLE
               PROVE  \E e \in Clients : /\ pc'[e] \in Moving /\ cur[e] = i
                                        /\ winner[i] \in {NULL_ROLE, RoleOf(e, i)}
    BY <1>2 DEF DecidedIsClosed, RoleOf, Moving
  <2>1. PICK e \in Clients : /\ pc[e] \in Moving /\ cur[e] = i
                             /\ winner[i] \in {NULL_ROLE, RoleOf(e, i)}
    BY DEF CInv, DecidedIsClosed, Moving
  <2>2. e # c
    BY <1>2, <2>1 DEF Moving, Closing, Ending
  <2>3. QED
    BY <1>3, <2>1, <2>2
<1>7. QED
  BY <1>4, <1>5, <1>6 DEF CInv

\* A step that changes the game of cur[c], which nobody has closed.
LEMMA GameStep ==
    ASSUME CInv, TInv', EInv', NEW c \in Clients, NEW l \in Label \ Closing, Goto(c, l),
           pc[c] \in WithInv, istate[cur[c]] # "closed",
           istate'[cur[c]] = "accepted", started'[cur[c]],
           \A i \in Invs \ {cur[c]} : /\ istate'[i] = istate[i] /\ started'[i] = started[i]
                                      /\ turn'[i] = turn[i] /\ winner'[i] = winner[i],
           turn'[cur[c]] = NULL_ROLE =>
               l \in Moving /\ winner'[cur[c]] \in {NULL_ROLE, RoleOf(c, cur[c])},
           pc[c] \notin Moving,
           UNCHANGED <<source, target, role, cur, results, verdict>>
    PROVE  CInv'
<1>1. cur[c] \in Invs /\ results[cur[c]] = << >>
  BY Working DEF CInv, Phases
<1>2. pc'[c] = l /\ \A d \in Clients \ {c} : pc'[d] = pc[d]
  BY DEF Goto, CInv, TInv, TypeOK
<1>3. Phases'
  BY <1>1 DEF CInv, Phases
<1>4. SingleCloser'
  <2>1. \A d \in Clients : pc'[d] \in Closing =>
            d # c /\ pc[d] \in Closing /\ cur[d] # cur[c] /\ cur[d] \in Invs
    BY <1>2, Working DEF CInv, SingleCloser, Closing, Ending, WithInv, Label
  <2>2. QED
    BY <1>2, <2>1 DEF CInv, SingleCloser
<1>5. DecidedIsClosed'
  <2> SUFFICES ASSUME NEW i \in Invs, istate'[i] = "accepted", turn'[i] = NULL_ROLE
               PROVE  \E d \in Clients : /\ pc'[d] \in Moving /\ cur[d] = i
                                        /\ winner'[i] \in {NULL_ROLE, RoleOf(d, i)}
    BY DEF DecidedIsClosed, RoleOf, Moving
  <2>1. CASE i = cur[c]
    BY <1>2, <2>1
  <2>2. CASE i # cur[c]
    <3>1. istate[i] = "accepted" /\ turn[i] = NULL_ROLE /\ winner'[i] = winner[i]
      BY <2>2
    <3>2. PICK d \in Clients : /\ pc[d] \in Moving /\ cur[d] = i
                               /\ winner[i] \in {NULL_ROLE, RoleOf(d, i)}
      BY <3>1 DEF CInv, DecidedIsClosed, Moving
    <3>3. QED
      BY <1>2, <3>1, <3>2
  <2>3. QED
    BY <2>1, <2>2
<1>6. QED
  BY <1>3, <1>4, <1>5 DEF CInv

LEMMA AcceptStep == ASSUME CInv, TInv', EInv', NEW c \in Clients, Accept(c) PROVE CInv'
<1> DEFINE i == cur[c]
<1>1. i \in Invs /\ pc[c] \in WithInv /\ pc[c] \notin Moving
  BY Working DEF Accept, AcceptInv, CInv, WithInv, Label, Moving
<1>2. UNCHANGED <<source, target, role, cur, results, verdict>>
  BY DEF Accept, AcceptInv, madeVars
<1>3. CASE istate[i] = "open"
  <2>1. /\ istate' = [istate EXCEPT ![i] = "accepted"]
        /\ started' = [started EXCEPT ![i] = TRUE]
        /\ turn' = [turn EXCEPT ![i] = FIRST_PLAYER_ROLE]
        /\ winner' = [winner EXCEPT ![i] = NULL_ROLE]
        /\ Goto(c, "acc_tell")
    BY <1>3 DEF Accept, AcceptInv
  <2>2. /\ istate'[i] = "accepted" /\ started'[i] /\ turn'[i] # NULL_ROLE
        /\ \A j \in Invs \ {i} : /\ istate'[j] = istate[j] /\ started'[j] = started[j]
                                /\ turn'[j] = turn[j] /\ winner'[j] = winner[j]
    BY <1>1, <2>1 DEF CInv, TInv, TypeOK
  <2>3. QED
    BY <1>1, <1>2, <1>3, <2>1, <2>2, GameStep DEF Label, Closing, Ending
<1>4. CASE istate[i] # "open"
  <2>1. Goto(c, "refuse") /\ UNCHANGED <<istate, started, turn, winner>>
    BY <1>4 DEF Accept, AcceptInv, gameVars
  <2>2. QED
    BY <1>1, <1>2, <2>1, QuietStep DEF Label, Closing, Ending
<1>5. QED
  BY <1>3, <1>4

LEMMA MoveStep == ASSUME CInv, TInv', EInv', NEW c \in Clients, ApplyMove(c) PROVE CInv'
<1> DEFINE i == cur[c]
<1>1. i \in Invs /\ pc[c] \in WithInv /\ pc[c] \notin Moving
  BY Working DEF ApplyMove, CInv, WithInv, Label, Moving
<1>2. UNCHANGED <<source, target, role, cur, results, verdict, istate, started>>
  BY DEF ApplyMove, madeVars
<1>3. started[i] /\ turn[i] # NULL_ROLE /\ turn[i] = RoleOf(c, i) /\ Goto(c, "mv_tell")
  BY DEF ApplyMove
<1>4. PICK o \in MoveOutcomes(turn[i]) : /\ turn' = [turn EXCEPT ![i] = o[1]]
                                         /\ winner' = [winner EXCEPT ![i] = o[2]]
  BY DEF ApplyMove
<1>5. o[2] \in {NULL_ROLE, turn[i]}
  BY DEF MoveOutcomes
<1>6. istate[i] = "accepted"
  BY <1>1, <1>3 DEF CInv, Phases
<1>7. /\ winner'[i] \in {NULL_ROLE, RoleOf(c, i)}
      /\ \A j \in Invs \ {i} : turn'[j] = turn[j] /\ winner'[j] = winner[j]
  BY <1>1, <1>3, <1>4, <1>5 DEF CInv, TInv, TypeOK
<1>8. "mv_tell" \in Moving /\ "mv_tell" \in Label \ Closing
  BY DEF Moving, Label, Closing, Ending
<1>9. QED
  BY <1>1, <1>2, <1>3, <1>6, <1>7, <1>8, GameStep

\* The closing thread has posted, or failed to, and closes no more.
LEMMA PostStep == ASSUME CInv, TInv', EInv', NEW c \in Clients, PostResult(c) PROVE CInv'
<1> DEFINE i == cur[c]
<1>1. i \in Invs /\ pc[c] = "post"
  BY Working DEF PostResult, CInv, WithInv, Label
<1>2. UNCHANGED <<source, target, role, cur, istate, started, turn, winner>>
  BY DEF PostResult, madeVars, gameVars
<1>3. /\ \A j \in Invs \ {i} : results'[j] = results[j]
      /\ \A d \in Clients \ {c} : verdict'[d] = verdict[d]
  BY DEF PostResult, CInv, TInv, TypeOK
<1>4. pc'[c] = "finish" /\ \A d \in Clients \ {c} : pc'[d] = pc[d]
  BY DEF PostResult, Goto, CInv, TInv, TypeOK
<1>5. /\ istate[i] = "closed"
      /\ \A d \in Clients : pc'[d] \in Closing =>
             d # c /\ pc[d] \in Closing /\ cur[d] # i /\ cur[d] \in Invs
  BY <1>1, <1>4, Working DEF CInv, SingleCloser, Closing, Ending, WithInv, Label
<1>6. Phases'
  BY <1>2, <1>3, <1>5 DEF CInv, Phases
<1>7. SingleCloser'
  BY <1>2, <1>3, <1>4, <1>5 DEF CInv, SingleCloser
<1>8. DecidedIsClosed'
  <2> SUFFICES ASSUME NEW j \in Invs, istate[j] = "accepted", turn[j] = NULL_ROLE
               PROVE  \E e \in Clients : /\ pc'[e] \in Moving /\ cur[e] = j
                                        /\ winner[j] \in {NULL_ROLE, RoleOf(e, j)}
    BY <1>2 DEF DecidedIsClosed, RoleOf, Moving
  <2>1. PICK e \in Clients : /\ pc[e] \in Moving /\ cur[e] = j
                             /\ winner[j] \in {NULL_ROLE, RoleOf(e, j)}
    BY DEF CInv, DecidedIsClosed, Moving
  <2>2. e # c
    BY <1>1, <2>1 DEF Moving
  <2>3. QED
    BY <1>4, <2>1, <2>2
<1>9. QED
  BY <1>6, <1>7, <1>8 DEF CInv

LEMMA CloseNext == CInv /\ [Next]_vars => CInv'
<1> SUFFICES ASSUME CInv, [Next]_vars PROVE CInv'
  OBVIOUS
<1>1. TInv' /\ EInv'
  BY TypeNext, EndsNext DEF CInv
<1>2. CASE Next
  BY <1>1, <1>2, QuietSteps, FinishStep, InviteStep, CloseOpenStep, ResignStep, MoveOverStep,
     RemoveStep, AcceptStep, MoveStep, PostStep DEF Next, Recv, Work
<1>3. CASE UNCHANGED vars
  BY <1>1, <1>3 DEF vars, madeVars, gameVars, threadVars, CInv, Phases, DecidedIsClosed,
                    SingleCloser, RoleOf
<1>4. QED
  BY <1>2, <1>3

LEMMA CloseInit == Init => CInv
<1> SUFFICES ASSUME Init PROVE CInv
  OBVIOUS
<1>1. TInv
  BY TypeInit
<1>2. EInv
  BY DEF Init, EInv, Listed, WithInv, Label
<1>3. Phases /\ DecidedIsClosed /\ SingleCloser
  BY DEF Init, Phases, DecidedIsClosed, SingleCloser, Closing, Ending
<1>4. QED
  BY <1>1, <1>2, <1>3 DEF CInv

LEMMA CloseInvariant == Spec => []CInv
BY CloseInit, CloseNext, PTL DEF Spec

\* However many threads try to end an invitation, one does, and what it goes
\* on to post is the game's winner unless the game was drawn on the board.
THEOREM ClientSingleCloser == Spec => []SingleCloser
<1>1. CInv => SingleCloser
  BY DEF CInv
<1>2. QED
  BY <1>1, CloseInvariant, PTL

\* A game decided on the board is always in the hands of the thread that
\* decided it, until someone closes it.
THEOREM ClientDecidedIsClosed == Spec => []DecidedIsClosed
<1>1. CInv => DecidedIsClosed
  BY DEF CInv
<1>2. QED
  BY <1>1, CloseInvariant, PTL

-----------------------------------------------------------------------------
\* Each critical section is one action of Invitations, or none.
LEMMA LifeQuiet ==
    ASSUME NEW c \in Clients,
           \/ Connect(c) \/ (\E p \in Players : RecvLogin(c, p)) \/ ScanPlayers(c) \/ SetPlayer(c)
           \/ EndOfInput(c) \/ BeginLogout(c) \/ LogoutNext(c) \/ EndLogout(c)
           \/ Unregister(c) \/ Free(c)
           \/ AddSource(c) \/ AddTarget(c) \/ DropMade(c) \/ EndInvite(c)
           \/ \E i \in Invs : \/ RecvRevoke(c, i) \/ RecvDecline(c, i) \/ RecvAccept(c, i)
                            \/ RecvResign(c, i) \/ RecvMove(c, i)
           \/ RemoveSource(c) \/ RemoveTarget(c) \/ RemoveOwn(c) \/ RemoveOpp(c)
           \/ Unref(c) \/ Notify(c) \/ TellAccepted(c) \/ TellMoved(c)
           \/ RefuseMove(c) \/ Finish(c)
    PROVE  UNCHANGED Life!ivars
<1> USE DEF Life!ivars, gameVars
<1>1. CASE \/ Connect(c) \/ (\E p \in Players : RecvLogin(c, p)) \/ ScanPlayers(c) \/ SetPlayer(c)
           \/ EndOfInput(c) \/ BeginLogout(c) \/ LogoutNext(c) \/ EndLogout(c)
           \/ Unregister(c) \/ Free(c)
  BY <1>1 DEF Connect, RecvLogin, ScanPlayers, SetPlayer, EndOfInput, BeginLogout, LogoutNext,
     EndLogout,
              Unregister, Free
<1>2. CASE AddSource(c) \/ AddTarget(c) \/ DropMade(c) \/ EndInvite(c)
  BY <1>2 DEF AddSource, AddTarget, DropMade, EndInvite
<1>3. CASE \E i \in Invs : \/ RecvRevoke(c, i) \/ RecvDecline(c, i) \/ RecvAccept(c, i)
                         \/ RecvResign(c, i) \/ RecvMove(c, i)
  BY <1>3 DEF RecvRevoke, RecvDecline, RecvAccept, RecvResign, RecvMove, Request
<1>4. CASE RemoveSource(c) \/ RemoveTarget(c) \/ RemoveOwn(c) \/ RemoveOpp(c)
  BY <1>4 DEF RemoveSource, RemoveTarget, RemoveOwn, RemoveOpp, Remove
<1>5. CASE Unref(c) \/ Notify(c) \/ TellAccepted(c) \/ TellMoved(c) \/ RefuseMove(c) \/ Finish(c)
  BY <1>5 DEF Unref, Notify, TellAccepted, TellMoved, Tell, RefuseMove, Finish
<1>6. QED
  BY <1>1, <1>2, <1>3, <1>4, <1>5

LEMMA LifeStep ==
    ASSUME CInv, NEW c \in Clients,
           \/ \E p \in Players, r \in InviteRoles : RecvInvite(c, p, r)
           \/ CloseOpen(c) \/ Accept(c) \/ ResignGame(c) \/ ApplyMove(c) \/ MoveOver(c)
           \/ PostResult(c)
    PROVE  [Life!INext]_(Life!ivars)
<1> DEFINE i == cur[c]
<1> USE DEF Life!ivars, Life!NULL_ROLE, Life!FIRST_PLAYER_ROLE, Life!SECOND_PLAYER_ROLE,
            Life!PlayerRole, Life!GameRole
<1>1. CASE \E p \in Players, r \in InviteRoles : RecvInvite(c, p, r)
  <2>1. PICK j \in Invs : istate[j] = "unused" /\ istate' = [istate EXCEPT ![j] = "open"]
    BY <1>1 DEF RecvInvite, MakeInv
  <2>2. UNCHANGED <<started, turn, winner, results>>
    BY <1>1 DEF RecvInvite, MakeInv, gameVars
  <2>3. Life!Offer(j)
    BY <2>1, <2>2 DEF Life!Offer, Life!Become
  <2>4. QED
    BY <2>3 DEF Life!INext
<1>2. CASE CloseOpen(c)
  <2>1. i \in Invs
    BY <1>2, Working DEF CloseOpen, CInv, WithInv, Label
  <2>2. Life!TakeBack(i) \/ UNCHANGED Life!ivars
    BY <1>2 DEF CloseOpen, Closable, CloseInv, CloseInvTo, Life!TakeBack, Life!Become
  <2>3. QED
    BY <2>1, <2>2 DEF Life!INext
<1>3. CASE Accept(c)
  <2>1. i \in Invs
    BY <1>3, Working DEF Accept, AcceptInv, CInv, WithInv, Label
  <2>2. Life!Begin(i) \/ UNCHANGED Life!ivars
    BY <1>3 DEF Accept, AcceptInv, gameVars, Life!Begin, Life!Become
  <2>3. QED
    BY <2>1, <2>2 DEF Life!INext
<1>4. CASE ResignGame(c)
  <2>1. i \in Invs
    BY <1>4, Working DEF ResignGame, CInv, WithInv, Label
  <2>2. Other(RoleOf(c, i)) \in PlayerRole
    BY <2>1, RoleOfType DEF CInv, TInv
  <2>3. CASE ~(started[i] /\ Closable(i, RoleOf(c, i)))
    BY <1>4, <2>3 DEF ResignGame
  <2>4. CASE started[i] /\ Closable(i, RoleOf(c, i))
    <3>1. /\ istate[i] = "accepted"
          /\ istate' = [istate EXCEPT ![i] = "closed"]
          /\ IF turn[i] # NULL_ROLE
             THEN /\ turn' = [turn EXCEPT ![i] = NULL_ROLE]
                  /\ winner' = [winner EXCEPT ![i] = Other(RoleOf(c, i))]
             ELSE UNCHANGED <<turn, winner>>
          /\ UNCHANGED <<started, results>>
      BY <1>4, <2>1, <2>4 DEF ResignGame, Closable, CloseInv, CloseInvTo, CInv, Phases
    <3>2. CASE turn[i] = NULL_ROLE
      <4>1. Life!CloseDecided(i)
        BY <3>1, <3>2 DEF Life!CloseDecided, Life!Become
      <4>2. QED
        BY <2>1, <4>1 DEF Life!INext
    <3>3. CASE turn[i] # NULL_ROLE
      <4>1. winner' \in {[winner EXCEPT ![i] = r] : r \in PlayerRole}
        BY <2>2, <3>1, <3>3
      <4>2. Life!CloseResigned(i)
        BY <3>1, <3>3, <4>1 DEF Life!CloseResigned, Life!Become
      <4>3. QED
        BY <2>1, <4>2 DEF Life!INext
    <3>4. QED
      BY <3>2, <3>3
  <2>5. QED
    BY <2>3, <2>4
<1>5. CASE ApplyMove(c)
  <2>1. i \in Invs
    BY <1>5, Working DEF ApplyMove, CInv, WithInv, Label
  <2>2. istate[i] = "accepted"
    BY <1>5, <2>1 DEF ApplyMove, CInv, Phases
  <2>3. Life!MoveOutcomes(turn[i]) = MoveOutcomes(turn[i])
    BY DEF Life!MoveOutcomes, MoveOutcomes, Life!Other, Other
  <2>4. Life!MoveIn(i)
    BY <1>5, <2>2, <2>3 DEF ApplyMove, Life!MoveIn
  <2>5. QED
    BY <2>1, <2>4 DEF Life!INext
<1>6. CASE MoveOver(c)
  <2>1. i \in Invs
    BY <1>6, Working DEF MoveOver, CInv, WithInv, Label
  <2>2. CASE Over(i) /\ Closable(i, Other(winner[i]))
    <3>1. istate[i] = "accepted" /\ turn[i] = NULL_ROLE
      BY <2>1, <2>2 DEF Over, Closable, CInv, Phases
    <3>2. Life!CloseDecided(i)
      BY <1>6, <2>2, <3>1 DEF MoveOver, CloseInv, CloseInvTo, Life!CloseDecided, Life!Become
    <3>3. QED
      BY <2>1, <3>2 DEF Life!INext
  <2>3. CASE ~(Over(i) /\ Closable(i, Other(winner[i])))
    BY <1>6, <2>3 DEF MoveOver
  <2>4. QED
    BY <2>2, <2>3
<1>7. CASE PostResult(c)
  <2>1. i \in Invs /\ UNCHANGED <<istate, started, turn, winner>>
    BY <1>7, Working DEF PostResult, CInv, WithInv, Label, gameVars
  <2>2. CASE results' = results
    BY <2>1, <2>2
  <2>3. CASE results' # results
    <3>1. results' = [results EXCEPT ![i] = Append(results[i], verdict[c])]
      BY <1>7, <2>3 DEF PostResult
    <3>2. /\ istate[i] = "closed" /\ results[i] = << >> /\ started[i]
          /\ winner[i] \in {NULL_ROLE, verdict[c]}
      BY <1>7 DEF PostResult, CInv, SingleCloser, Closing, Ending
    <3>3. verdict[c] \in (IF winner[i] = NULL_ROLE THEN GameRole ELSE {winner[i]})
      BY <3>2 DEF CInv, TInv, TypeOK
    <3>4. results' = [results EXCEPT ![i] = <<verdict[c]>>]
      BY <3>1, <3>2
    <3>5. Life!Post(i)
      BY <2>1, <3>2, <3>3, <3>4 DEF Life!Post
    <3>6. QED
      BY <2>1, <3>5 DEF Life!INext
  <2>4. QED
    BY <2>2, <2>3
<1>8. QED
  BY <1>1, <1>2, <1>3, <1>4, <1>5, <1>6, <1>7

\* The critical sections of the service threads, in any order, add up to the
\* life of an invitation that module Invitations promises.
THEOREM ClientImplementsInvitations == Spec => ImplementsInvitations
<1>1. Init => Life!IInit
  BY DEF Init, Life!IInit, Life!NULL_ROLE
<1>2. CInv /\ [Next]_vars => [Life!INext]_(Life!ivars)
  <2> SUFFICES ASSUME CInv, [Next]_vars PROVE [Life!INext]_(Life!ivars)
    OBVIOUS
  <2>1. CASE Next
    BY <2>1, LifeQuiet, LifeStep DEF Next, Recv, Work
  <2>2. CASE UNCHANGED vars
    BY <2>2 DEF vars, gameVars, Life!ivars
  <2>3. QED
    BY <2>1, <2>2
<1>3. QED
  BY <1>1, <1>2, CloseInvariant, PTL DEF Spec, ImplementsInvitations, Life!ISpec

-----------------------------------------------------------------------------
(***************************************************************************)
(* client_login asks only the registered clients who they are.  That is    *)
(* enough because a client that is not registered (any more) has no        *)
(* player: the service thread logs out before it unregisters.  What it has *)
(* seen stays true until it acts on it because players are only set under  *)
(* log_mutex.                                                              *)
(***************************************************************************)
Away == {"new", "unreg", "free", "gone"}
Locked == {"login", "log_set", "logout"}

Anonymous == \A c \in Clients : pc[c] \in Away => player[c] = NoPlayer
LogHeld == \A c \in Clients : pc[c] \in Locked => logm = c
Wanted ==
    \A c \in Clients :
        /\ pc[c] \in {"login", "log_set"} => want[c] \in Players
        /\ pc[c] = "log_set" => \A d \in Clients : player[d] # want[c]

LInv == TInv /\ Anonymous /\ LogHeld /\ Wanted /\ LoginUnique

LEMMA LoginKept ==
    ASSUME LInv, TInv', NEW c \in Clients, NEW l \in Label \ {"log_set"}, Goto(c, l),
           player' = player, l \in Away => player[c] = NoPlayer,
           l \in Locked => logm' = c, logm' = logm \/ logm = NoClient \/ logm = c,
           l = "login" => want'[c] \in Players,
           \A d \in Clients \ {c} : want'[d] = want[d]
    PROVE  LInv'
<1>1. pc'[c] = l /\ \A d \in Clients \ {c} : pc'[d] = pc[d]
  BY DEF Goto, LInv, TInv, TypeOK
<1>2. Anonymous'
  BY <1>1 DEF LInv, Anonymous
<1>3. LogHeld'
  BY <1>1, NullAssumption DEF LInv, LogHeld
<1>4. Wanted'
  BY <1>1 DEF LInv, Wanted
<1>5. LoginUnique'
  BY DEF LInv, LoginUnique
<1>6. QED
  BY <1>2, <1>3, <1>4, <1>5 DEF LInv

LEMMA ScanStep == ASSUME LInv, TInv', NEW c \in Clients, ScanPlayers(c) PROVE LInv'
<1>1. pc[c] = "login" /\ logm = c
  BY DEF ScanPlayers, LInv, LogHeld, Locked
<1>2. CASE \E d \in Clients : Registered(d) /\ player[d] = want[c]
  <2>1. /\ Goto(c, "idle") /\ player' = player
        /\ \A d \in Clients \ {c} : want'[d] = want[d]
    BY <1>2 DEF ScanPlayers, LInv, TInv, TypeOK
  <2>2. QED
    BY <1>1, <2>1, LoginKept DEF Label, Away, Locked
<1>3. CASE \A d \in Clients : Registered(d) => player[d] # want[c]
  <2>1. Goto(c, "log_set") /\ UNCHANGED <<logm, want, player>>
    BY <1>3 DEF ScanPlayers
  <2>2. pc'[c] = "log_set" /\ \A d \in Clients \ {c} : pc'[d] = pc[d]
    BY <2>1 DEF Goto, LInv, TInv, TypeOK
  <2>3. \A d \in Clients : player[d] # want[c]
    BY <1>1, <1>3, NullAssumption DEF LInv, Anonymous, Wanted, Away, Registered
  <2>4. Anonymous' /\ LogHeld' /\ Wanted' /\ LoginUnique'
    BY <1>1, <2>1, <2>2, <2>3 DEF LInv, Anonymous, LogHeld, Wanted, LoginUnique, Away, Locked
  <2>5. QED
    BY <2>4 DEF LInv
<1>4. QED
  BY <1>2, <1>3

LEMMA SetStep == ASSUME LInv, TInv', NEW c \in Clients, SetPlayer(c) PROVE LInv'
<1>1. /\ pc[c] = "log_set" /\ want[c] \in Players
      /\ \A d \in Clients : player[d] # want[c]
  BY DEF SetPlayer, LInv, Wanted
<1>2. /\ pc'[c] = "idle" /\ player'[c] = want[c]
      /\ \A d \in Clients \ {c} : /\ pc'[d] = pc[d] /\ player'[d] = player[d]
                                  /\ want'[d] = want[d]
  BY DEF SetPlayer, Goto, LInv, TInv, TypeOK
<1>3. \A d \in Clients \ {c} : pc[d] \notin Locked
  BY <1>1 DEF LInv, LogHeld, Locked
<1>4. Anonymous' /\ LogHeld' /\ Wanted'
  BY <1>2, <1>3 DEF LInv, Anonymous, LogHeld, Wanted, Away, Locked
<1>5. LoginUnique'
  BY <1>1, <1>2 DEF LInv, LoginUnique
<1>6. QED
  BY <1>4, <1>5 DEF LInv

LEMMA LogoutStep == ASSUME LInv, TInv', NEW c \in Clients, EndLogout(c) PROVE LInv'
<1>1. /\ pc'[c] = "unreg" /\ player'[c] = NoPlayer /\ want' = want
      /\ \A d \in Clients \ {c} : player'[d] = player[d] /\ pc'[d] = pc[d]
  BY DEF EndLogout, Goto, LInv, TInv, TypeOK
<1>2. \A d \in Clients \ {c} : pc[d] \notin Locked
  BY DEF EndLogout, LInv, LogHeld, Locked
<1>3. Anonymous' /\ LogHeld' /\ Wanted'
  BY <1>1, <1>2 DEF LInv, Anonymous, LogHeld, Wanted, Locked
<1>4. LoginUnique'
  BY <1>1 DEF LInv, LoginUnique
<1>5. QED
  BY <1>3, <1>4 DEF LInv

LEMMA LoginKeptSteps ==
    ASSUME LInv, TInv', NEW c \in Clients,
           \/ Connect(c) \/ (\E p \in Players : RecvLogin(c, p)) \/ EndOfInput(c)
           \/ BeginLogout(c) \/ LogoutNext(c) \/ Unregister(c) \/ Free(c)
           \/ \E p \in Players, r \in InviteRoles : RecvInvite(c, p, r)
           \/ AddSource(c) \/ AddTarget(c) \/ DropMade(c) \/ EndInvite(c)
           \/ \E i \in Invs : \/ RecvRevoke(c, i) \/ RecvDecline(c, i) \/ RecvAccept(c, i)
                            \/ RecvResign(c, i) \/ RecvMove(c, i)
           \/ CloseOpen(c) \/ RemoveSource(c) \/ RemoveTarget(c) \/ Unref(c) \/ Notify(c)
           \/ Accept(c) \/ TellAccepted(c)
           \/ ResignGame(c) \/ RemoveOwn(c) \/ RemoveOpp(c) \/ PostResult(c)
           \/ ApplyMove(c) \/ RefuseMove(c) \/ TellMoved(c) \/ MoveOver(c) \/ Finish(c)
    PROVE  LInv'
<1> DEFINE Kept == player' = player /\ want' = want /\ logm' = logm
<1>1. ASSUME NEW l \in Label \ (Away \cup Locked), Goto(c, l), Kept PROVE LInv'
  BY <1>1, LoginKept DEF Locked
<1> USE DEF Label, Away, Locked
<1>2. CASE Connect(c)
  BY <1>1, <1>2 DEF Connect
<1>3. CASE \E p \in Players : RecvLogin(c, p)
  <2>1. /\ Goto(c, "login") /\ logm = NoClient /\ logm' = c /\ player' = player
        /\ want'[c] \in Players /\ \A d \in Clients \ {c} : want'[d] = want[d]
    BY <1>3 DEF RecvLogin, LInv, TInv, TypeOK
  <2>2. QED
    BY <2>1, LoginKept
<1>4. CASE EndOfInput(c)
  <2>1. CASE player[c] = NoPlayer
    <3>1. Goto(c, "unreg") /\ Kept
      BY <1>4, <2>1 DEF EndOfInput
    <3>2. QED
      BY <2>1, <3>1, LoginKept
  <2>2. CASE player[c] # NoPlayer
    BY <1>1, <1>4, <2>2 DEF EndOfInput
  <2>3. QED
    BY <2>1, <2>2
<1>5. CASE BeginLogout(c)
  <2>1. Goto(c, "logout") /\ logm = NoClient /\ logm' = c /\ player' = player /\ want' = want
    BY <1>5 DEF BeginLogout
  <2>2. QED
    BY <2>1, LoginKept
<1>6. CASE LogoutNext(c)
  <2>1. PICK k : Pin(c, list[c][k], IF started[list[c][k]] THEN "resign" ELSE "close")
    BY <1>6 DEF LogoutNext
  <2>2. QED
    BY <1>1, <1>6, <2>1 DEF LogoutNext, Pin
<1>7. CASE Unregister(c) \/ Free(c)
  <2>1. Kept /\ player[c] = NoPlayer /\ \E l \in {"free", "gone"} : Goto(c, l)
    BY <1>7 DEF Unregister, Free, LInv, Anonymous
  <2>2. QED
    BY <2>1, LoginKept
<1>8. CASE \E p \in Players, r \in InviteRoles : RecvInvite(c, p, r)
  BY <1>1, <1>8 DEF RecvInvite, MakeInv
<1>9. CASE AddSource(c) \/ AddTarget(c)
  BY <1>1, <1>9 DEF AddSource, AddTarget
<1>10. CASE DropMade(c) \/ Unref(c)
  BY <1>1, <1>10 DEF DropMade, Unref
<1>11. CASE EndInvite(c) \/ Notify(c) \/ Finish(c)
  <2>1. Kept /\ Resume(c)
    BY <1>11 DEF EndInvite, Notify, Finish
  <2>2. CASE logm = c
    BY <2>1, <2>2, LoginKept DEF Resume
  <2>3. CASE logm # c
    BY <1>1, <2>1, <2>3 DEF Resume
  <2>4. QED
    BY <2>2, <2>3
<1>12. CASE \E i \in Invs : \/ RecvRevoke(c, i) \/ RecvDecline(c, i) \/ RecvAccept(c, i)
                          \/ RecvResign(c, i) \/ RecvMove(c, i)
  <2>1. PICK i \in Invs, l \in {"close", "refuse", "accept", "resign", "move"} : Request(c, i, l)
    BY <1>12 DEF RecvRevoke, RecvDecline, RecvAccept, RecvResign, RecvMove
  <2>2. QED
    BY <1>1, <2>1 DEF Request, Pin
<1>13. CASE CloseOpen(c) \/ Accept(c) \/ ResignGame(c) \/ MoveOver(c)
  BY <1>1, <1>13 DEF CloseOpen, Accept, AcceptInv, ResignGame, MoveOver
<1>14. CASE RemoveSource(c) \/ RemoveTarget(c) \/ RemoveOwn(c) \/ RemoveOpp(c)
  BY <1>1, <1>14 DEF RemoveSource, RemoveTarget, RemoveOwn, RemoveOpp, Remove
<1>15. CASE TellAccepted(c) \/ TellMoved(c) \/ PostResult(c) \/ ApplyMove(c) \/ RefuseMove(c)
  BY <1>1, <1>15 DEF TellAccepted, TellMoved, Tell, PostResult, ApplyMove, RefuseMove
<1>16. QED
  BY <1>2, <1>3, <1>4, <1>5, <1>6, <1>7, <1>8, <1>9, <1>10, <1>11, <1>12, <1>13, <1>14, <1>15

LEMMA LoginInvariant == Spec => []LInv
<1>1. Init => LInv
  BY TypeInit DEF Init, LInv, Anonymous, LogHeld, Wanted, LoginUnique, Locked
<1>2. LInv /\ [Next]_vars => LInv'
  <2> SUFFICES ASSUME LInv, [Next]_vars PROVE LInv'
    OBVIOUS
  <2>1. TInv'
    BY TypeNext DEF LInv
  <2>2. CASE Next
    BY <2>1, <2>2, ScanStep, SetStep, LogoutStep, LoginKeptSteps DEF Next, Recv, Work
  <2>3. CASE UNCHANGED vars
    BY <2>1, <2>3 DEF vars, threadVars, LInv, Anonymous, LogHeld, Wanted, LoginUnique
  <2>4. QED
    BY <2>2, <2>3
<1>3. QED
  BY <1>1, <1>2, PTL DEF Spec

\* Two clients are never logged in as one player.
THEOREM ClientLoginUnique == Spec => []LoginUnique
<1>1. LInv => LoginUnique
  BY DEF LInv
<1>2. QED
  BY <1>1, LoginInvariant, PTL
=============================================================================
