------------------------- MODULE ClientPacketsProofs -------------------------
(***************************************************************************)
(* Proofs about module ClientPackets: whatever module ClientOps promises   *)
(* holds when the packets are counted too, and what the clients have been  *)
(* told agrees with what has happened.                                     *)
(***************************************************************************)
EXTENDS ClientPackets, ClientListsProofs

-----------------------------------------------------------------------------
(***************************************************************************)
(* The packets follow the operations and never hold one up, so every       *)
(* behaviour of PSpec is one of Spec.                                      *)
(***************************************************************************)
LEMMA PacketSteps == ASSUME [PNext]_pvars PROVE [Next]_vars
<1>1. CASE PNext
  BY <1>1 DEF PNext, PRecv, PWork, Next
<1>2. CASE UNCHANGED pvars
  BY <1>2 DEF pvars
<1>3. QED
  BY <1>1, <1>2

\* The operations with their packets are the operations.
LEMMA PacketsFollow == PSpec => Spec
<1>1. PInit => Init
  BY DEF PInit
<1>2. [PNext]_pvars => [Next]_vars
  BY PacketSteps
<1>3. QED
  BY <1>1, <1>2, PTL DEF PSpec, Spec

\* What the proofs about packets need to know of the operations.
PInv == CInv /\ ListInv /\ LInv

LEMMA PacketInvariant == PSpec => []PInv
<1>1. CInv /\ ListInv /\ LInv /\ LeaveInv => PInv
  BY DEF PInv
<1>2. QED
  BY <1>1, PacketsFollow, LeaveInvariant, PTL

\* A logout leaves nothing open behind, whatever its packets meet.
THEOREM PacketsLogoutLeaves == PSpec => []LogoutLeaves
BY PacketsFollow, ClientLogoutLeaves, PTL

\* The operations with their packets implement the life of an invitation.
THEOREM PacketsImplementInvitations == PSpec => ImplementsInvitations
BY PacketsFollow, ClientImplementsInvitations, PTL

-----------------------------------------------------------------------------
(***************************************************************************)
(* Who is to move knows the board, or the thread that is about to show it  *)
(* is on its way.                                                          *)
(***************************************************************************)
ShowInv ==
    \A i \in Invs, d \in Clients : turn[i] # NULL_ROLE /\ d \in Ends(i) /\ RoleOf(d, i) = turn[i] =>
        d \in shown[i] \/ \E c \in Clients : cur[c] = i /\ d \in Shows(c)

\* What a step does to whose turn it is.
TurnStep(c, i) ==
    \/ turn'[i] = turn[i] /\ ~(pc[c] = "move" /\ pc'[c] = "mv_tell" /\ cur[c] = i)
    \/ turn'[i] = NULL_ROLE
    \/ /\ pc[c] = "accept" /\ pc'[c] = "acc_tell" /\ cur[c] = i /\ cur'[c] = i
       /\ turn'[i] = FIRST_PLAYER_ROLE /\ istate[i] # "unused"
    \/ /\ pc[c] = "move" /\ pc'[c] = "mv_tell" /\ cur[c] = i /\ cur'[c] = i
       /\ turn[i] = RoleOf(c, i) /\ turn[i] # NULL_ROLE /\ turn'[i] = Other(turn[i])

LEMMA TurnSteps ==
    ASSUME CInv, NEW c \in Clients, Recv(c) \/ Work(c), NEW i \in Invs
    PROVE  TurnStep(c, i)
<1> USE DEF CInv, TInv, TypeOK, madeVars, gameVars, TurnStep
<1>1. CASE Recv(c)
  <2>1. turn' = turn /\ pc[c] # "move"
    BY <1>1 DEF Recv, Connect, RecvLogin, EndOfInput, RecvInvite, RecvRevoke, RecvDecline,
                RecvAccept, RecvResign, RecvMove, Request
  <2>2. QED
    BY <2>1
<1>2. CASE ScanPlayers(c) \/ SetPlayer(c) \/ BeginLogout(c) \/ LogoutNext(c) \/ EndLogout(c)
  BY <1>2 DEF ScanPlayers, SetPlayer, BeginLogout, LogoutNext, EndLogout
<1>3. CASE Unregister(c) \/ Free(c) \/ AddSource(c) \/ AddTarget(c)
  BY <1>3 DEF Unregister, Free, AddSource, AddTarget
<1>4. CASE DropMade(c) \/ EndInvite(c) \/ Unref(c) \/ Notify(c) \/ Finish(c)
  BY <1>4 DEF DropMade, EndInvite, Unref, Notify, Finish
<1>5. CASE RemoveSource(c) \/ RemoveTarget(c) \/ RemoveOwn(c) \/ RemoveOpp(c)
  BY <1>5 DEF RemoveSource, RemoveTarget, RemoveOwn, RemoveOpp, Remove
<1>6. CASE TellAccepted(c) \/ TellMoved(c) \/ PostResult(c)
  BY <1>6 DEF TellAccepted, TellMoved, Tell, PostResult
<1>7. CASE CloseOpen(c) \/ ResignGame(c) \/ MoveOver(c)
  BY <1>7, Working DEF CloseOpen, ResignGame, MoveOver, CloseInv, CloseInvTo, WithInv, Label
<1>8. CASE RefuseMove(c)
  BY <1>8 DEF RefuseMove, Goto
<1>9. CASE Accept(c)
  BY <1>9, Working DEF Accept, AcceptInv, Goto, WithInv, Label
<1>10. CASE ApplyMove(c)
  <2>1. /\ cur[c] \in Invs /\ cur' = cur /\ pc[c] = "move" /\ pc'[c] = "mv_tell"
        /\ turn[cur[c]] = RoleOf(c, cur[c]) /\ turn[cur[c]] # NULL_ROLE
    BY <1>10, Working DEF ApplyMove, Goto, WithInv, Label
  <2>2. PICK o \in MoveOutcomes(turn[cur[c]]) : turn' = [turn EXCEPT ![cur[c]] = o[1]]
    BY <1>10 DEF ApplyMove
  <2>3. o[1] \in {NULL_ROLE, Other(turn[cur[c]])}
    BY DEF MoveOutcomes
  <2>4. QED
    BY <2>1, <2>2, <2>3
<1>11. QED
  BY <1>1, <1>2, <1>3, <1>4, <1>5, <1>6, <1>7, <1>8, <1>9, <1>10 DEF Work

\* Who has the board to show does so in the step that leaves the label.
LEMMA ShowWork ==
    ASSUME TInv, NEW c \in Clients, PWork(c), NEW i \in Invs, cur[c] = i, NEW d, d \in Shows(c)
    PROVE  d \in shown'[i]
<1>1. pc[c] # "move"
  BY DEF Shows
<1>2. QED
  BY <1>1 DEF PWork

LEMMA ShowNext ==
    ASSUME PInv, ShowInv, NEW c \in Clients, PRecv(c) \/ PWork(c)
    PROVE  ShowInv'
<1>1. CInv /\ TInv /\ EInv /\ Phases /\ Accepting
  BY DEF PInv, CInv, ListInv
<1>2. Recv(c) \/ Work(c)
  BY DEF PRecv, PWork
<1> SUFFICES ASSUME NEW i \in Invs, NEW d \in Clients,
                    turn'[i] # NULL_ROLE, (d \in Ends(i))', RoleOf(d, i)' = turn'[i]
             PROVE  d \in shown'[i] \/ \E e \in Clients : cur'[e] = i /\ (d \in Shows(e))'
  BY DEF ShowInv
<1>3. TurnStep(c, i)
  BY <1>1, <1>2, TurnSteps
<1>4. istate[i] # "unused"
  BY <1>1, <1>3 DEF TurnStep, Phases, EInv, WithInv, Label
<1>5. /\ source'[i] = source[i] /\ target'[i] = target[i] /\ role'[i] = role[i]
      /\ source[i] \in Clients /\ target[i] \in Clients /\ source[i] # target[i]
      /\ role[i] \in 0..255
  BY <1>1, <1>2, <1>4, StateKept DEF EInv, TInv, TypeOK
<1>6. d \in Ends(i) /\ RoleOf(d, i) = turn'[i]
  BY <1>5 DEF Ends, RoleOf
<1>7. CASE turn'[i] = turn[i] /\ ~(pc[c] = "move" /\ pc'[c] = "mv_tell" /\ cur[c] = i)
  <2>1. d \in shown[i] \/ \E e \in Clients : cur[e] = i /\ d \in Shows(e)
    BY <1>6, <1>7 DEF ShowInv
  <2>2. CASE d \in shown[i]
    BY <1>7, <2>2 DEF PRecv, PWork
  <2>3. CASE \E e \in Clients : cur[e] = i /\ d \in Shows(e)
    <3>1. PICK e \in Clients : cur[e] = i /\ d \in Shows(e)
      BY <2>3
    <3>2. CASE e = c
      <4>1. ~Recv(c)
        BY <3>1, <3>2 DEF Shows, Recv, Connect, RecvLogin, EndOfInput, RecvInvite, RecvRevoke,
           RecvDecline, RecvAccept, RecvResign, RecvMove, Request
      <4>2. PWork(c)
        BY <4>1 DEF PRecv
      <4>3. QED
        BY <1>1, <3>1, <3>2, <4>2, ShowWork
    <3>3. CASE e # c
      <4>1. pc'[e] = pc[e] /\ cur'[e] = cur[e]
        BY <1>1, <1>2, <3>3, OthersKept
      <4>2. (d \in Shows(e))'
        BY <1>5, <3>1, <4>1 DEF Shows, Peer
      <4>3. QED
        BY <3>1, <4>1, <4>2
    <3>4. QED
      BY <3>2, <3>3
  <2>4. QED
    BY <2>1, <2>2, <2>3
<1>8. CASE /\ pc'[c] = "acc_tell" /\ cur'[c] = i /\ turn'[i] = FIRST_PLAYER_ROLE
  <2>1. d = IF role[i] = FIRST_PLAYER_ROLE THEN target[i] ELSE source[i]
    BY <1>5, <1>6, <1>8 DEF Ends, RoleOf, Other
  <2>2. (d \in Shows(c))'
    BY <1>5, <1>8, <2>1 DEF Shows
  <2>3. QED
    BY <1>8, <2>2
<1>9. CASE /\ pc[c] = "move" /\ pc'[c] = "mv_tell" /\ cur[c] = i /\ cur'[c] = i
           /\ turn[i] = RoleOf(c, i) /\ turn'[i] = Other(turn[i])
  <2>1. c \in Ends(i)
    BY <1>1, <1>9 DEF EInv, WithInv, Label
  <2>2. turn[i] # turn'[i]
    <3>1. turn[i] \in GameRole
      BY <1>1 DEF TInv, TypeOK
    <3>2. \A r \in GameRole : Other(r) # r
      BY DEF Other, GameRole, PlayerRole, NULL_ROLE, FIRST_PLAYER_ROLE, SECOND_PLAYER_ROLE
    <3>3. QED
      BY <1>9, <3>1, <3>2
  <2>3. d # c
    BY <1>6, <1>9, <2>2
  <2>4. d = Peer(c, i)
    BY <1>6, <2>1, <2>3 DEF Ends, Peer
  <2>5. (d \in Shows(c))'
    BY <1>5, <1>9, <2>4 DEF Shows, Peer
  <2>6. QED
    BY <1>9, <2>5
<1>10. QED
  BY <1>3, <1>7, <1>8, <1>9 DEF TurnStep

LEMMA ShowInvariant == PSpec => []ShowInv
<1>1. PInit => ShowInv
  BY DEF PInit, Init, ShowInv
<1>2. PInv /\ ShowInv /\ [PNext]_pvars => ShowInv'
  <2> SUFFICES ASSUME PInv, ShowInv, [PNext]_pvars PROVE ShowInv'
    OBVIOUS
  <2>1. CASE PNext
    BY <2>1, ShowNext DEF PNext
  <2>2. CASE UNCHANGED pvars
    BY <2>2 DEF pvars, vars, madeVars, gameVars, threadVars, ShowInv, Ends, RoleOf, Shows, Peer
  <2>3. QED
    BY <2>1, <2>2
<1>3. QED
  BY <1>1, <1>2, PacketInvariant, PTL DEF PSpec

\* The player whose turn it is has been shown the board when nobody is busy.
THEOREM PacketsMoverIsShown == PSpec => []MoverIsShown
<1>1. PInv /\ ShowInv => MoverIsShown
  <2> SUFFICES ASSUME PInv, ShowInv, NEW i \in Invs, turn[i] # NULL_ROLE,
                      NEW d \in Ends(i), pc[source[i]] = "idle", pc[target[i]] = "idle",
                      RoleOf(d, i) = turn[i]
               PROVE  d \in shown[i]
    BY DEF MoverIsShown, Ends
  <2>1. EInv /\ d \in Clients
    BY DEF PInv, CInv, EInv, Phases, Ends
  <2>2. \A e \in Clients : cur[e] = i => d \notin Shows(e)
    BY <2>1 DEF Shows, EInv, Ends, WithInv, Label
  <2>3. QED
    BY <2>1, <2>2 DEF ShowInv
<1>2. QED
  BY <1>1, PacketInvariant, ShowInvariant, PTL

-----------------------------------------------------------------------------
(***************************************************************************)
(* The move that is answered NACK.  While a mover looks whether the game   *)
(* is over, a game that has been closed is in the hands of the opponent's  *)
(* thread until it is posted: the opponent resigned, and then the mover    *)
(* has won, or it found the game over, and then the board says who has.    *)
(* Movers: a thread that has moved plays a real role in a real game; with  *)
(* the role byte 0 the opponent's resignation would have no winner.        *)
(***************************************************************************)
Movers ==
    \A c \in Clients : pc[c] \in Moving => RoleOf(c, cur[c]) \in PlayerRole /\ started[cur[c]]

AnswerFor(c, i) ==
    \E v \in {RoleOf(c, i), winner[i]} :
        \/ results[i] = <<v>>
        \/ pc[Peer(c, i)] \in Ending /\ cur[Peer(c, i)] = i /\ verdict[Peer(c, i)] = v

Answered ==
    fault = "none" =>
        \A c \in Clients : pc[c] \in Moving /\ istate[cur[c]] = "closed" => AnswerFor(c, cur[c])

\* Which step takes a thread to the labels of Moving.
LEMMA MovingSteps ==
    ASSUME TInv, NEW c \in Clients, Recv(c) \/ Work(c), pc'[c] \in Moving
    PROVE  /\ cur'[c] = cur[c] /\ UNCHANGED <<istate, source, target, role, started>>
           /\ \/ pc[c] \in Moving /\ UNCHANGED <<winner, results, verdict>>
              \/ ApplyMove(c)
<1> USE DEF Goto, Resume, TInv, TypeOK, Moving, madeVars, gameVars
<1>1. CASE Recv(c)
  BY <1>1 DEF Recv, Connect, RecvLogin, EndOfInput, RecvInvite, RecvRevoke, RecvDecline,
              RecvAccept, RecvResign, RecvMove, Request, Pin
<1>2. CASE ScanPlayers(c) \/ SetPlayer(c) \/ BeginLogout(c) \/ LogoutNext(c) \/ EndLogout(c)
  BY <1>2 DEF ScanPlayers, SetPlayer, BeginLogout, LogoutNext, EndLogout, Pin
<1>3. CASE Unregister(c) \/ Free(c) \/ AddSource(c) \/ AddTarget(c)
  BY <1>3 DEF Unregister, Free, AddSource, AddTarget
<1>4. CASE DropMade(c) \/ EndInvite(c) \/ Unref(c) \/ Notify(c) \/ Finish(c)
  BY <1>4 DEF DropMade, EndInvite, Unref, Notify, Finish
<1>5. CASE RemoveSource(c) \/ RemoveTarget(c) \/ RemoveOwn(c) \/ RemoveOpp(c)
  BY <1>5 DEF RemoveSource, RemoveTarget, RemoveOwn, RemoveOpp, Remove
<1>6. CASE TellAccepted(c) \/ PostResult(c) \/ RefuseMove(c) \/ Accept(c)
  BY <1>6 DEF TellAccepted, Tell, PostResult, RefuseMove, Accept
<1>7. CASE CloseOpen(c) \/ ResignGame(c) \/ MoveOver(c)
  BY <1>7 DEF CloseOpen, ResignGame, MoveOver
<1>8. CASE TellMoved(c)
  BY <1>8 DEF TellMoved, Tell
<1>9. CASE ApplyMove(c)
  BY <1>9 DEF ApplyMove
<1>10. QED
  BY <1>1, <1>2, <1>3, <1>4, <1>5, <1>6, <1>7, <1>8, <1>9 DEF Work

\* What a step does to an invitation that ends or has ended.
EndStep(c, i) ==
    /\ istate[i] = "closed" => winner'[i] = winner[i]
    /\ istate[i] # "closed" /\ istate'[i] = "closed" =>
           \/ ~started[i]
           \/ /\ cur[c] = i /\ cur'[c] = i /\ pc[c] \in WithInv /\ pc'[c] \in Ending
              /\ verdict'[c] \in {Other(RoleOf(c, i)), winner'[i]}
    /\ results'[i] = results[i] \/ (pc[c] = "post" /\ cur[c] = i)
    /\ pc[c] \in Ending /\ cur[c] = i =>
           \/ pc'[c] \in Ending /\ cur'[c] = i /\ verdict'[c] = verdict[c]
           \/ pc[c] = "post" /\ (fault' # "none" \/ results'[i] = Append(results[i], verdict[c]))

LEMMA EndSteps ==
    ASSUME CInv, NEW c \in Clients, Recv(c) \/ Work(c), NEW i \in Invs
    PROVE  EndStep(c, i)
<1> USE DEF CInv, TInv, TypeOK, madeVars, gameVars, EndStep, Goto, Ending
<1>1. CASE Recv(c)
  <2>1. CASE \E p \in Players, r \in InviteRoles : RecvInvite(c, p, r)
    <3>1. /\ winner' = winner /\ results' = results /\ pc[c] = "idle"
          /\ \E j \in Invs : istate' = [istate EXCEPT ![j] = "open"]
      BY <2>1 DEF RecvInvite, MakeInv
    <3>2. QED
      BY <3>1
  <2>2. CASE ~\E p \in Players, r \in InviteRoles : RecvInvite(c, p, r)
    BY <1>1, <2>2 DEF Recv, Connect, RecvLogin, EndOfInput, RecvRevoke, RecvDecline,
                      RecvAccept, RecvResign, RecvMove, Request
  <2>3. QED
    BY <2>1, <2>2
<1>2. CASE ScanPlayers(c) \/ SetPlayer(c) \/ BeginLogout(c) \/ LogoutNext(c) \/ EndLogout(c)
  BY <1>2 DEF ScanPlayers, SetPlayer, BeginLogout, LogoutNext, EndLogout
<1>3. CASE Unregister(c) \/ Free(c) \/ AddSource(c) \/ AddTarget(c)
  BY <1>3 DEF Unregister, Free, AddSource, AddTarget
<1>4. CASE DropMade(c) \/ EndInvite(c) \/ Unref(c) \/ Notify(c) \/ Finish(c)
  BY <1>4 DEF DropMade, EndInvite, Unref, Notify, Finish
<1>5. CASE RemoveSource(c) \/ RemoveTarget(c) \/ RemoveOwn(c) \/ RemoveOpp(c)
  BY <1>5 DEF RemoveSource, RemoveTarget, RemoveOwn, RemoveOpp, Remove
<1>6. CASE TellAccepted(c) \/ TellMoved(c) \/ RefuseMove(c)
  BY <1>6 DEF TellAccepted, TellMoved, Tell, RefuseMove
<1>7. CASE PostResult(c)
  <2>1. cur[c] \in Invs /\ pc[c] = "post"
    BY <1>7, Working DEF PostResult, WithInv, Label
  <2>2. UNCHANGED <<istate, winner>>
    BY <1>7 DEF PostResult
  <2>3. CASE results' = results /\ fault' # "none"
    BY <2>1, <2>2, <2>3
  <2>4. CASE results' = [results EXCEPT ![cur[c]] = Append(@, verdict[c])]
    BY <2>1, <2>2, <2>4
  <2>5. QED
    BY <1>7, <2>3, <2>4 DEF PostResult
<1>8. CASE CloseOpen(c)
  <2>1. cur[c] \in Invs /\ pc[c] = "close" /\ results' = results
    BY <1>8, Working DEF CloseOpen, WithInv, Label
  <2>2. CASE Closable(cur[c], NULL_ROLE)
    <3>1. /\ istate[cur[c]] = "open" /\ istate' = [istate EXCEPT ![cur[c]] = "closed"]
          /\ winner' = winner
      BY <1>8, <2>1, <2>2 DEF CloseOpen, Closable, CloseInv, CloseInvTo
    <3>2. ~started[cur[c]]
      BY <2>1, <3>1 DEF Phases
    <3>3. QED
      BY <2>1, <3>1, <3>2
  <2>3. CASE ~Closable(cur[c], NULL_ROLE)
    BY <1>8, <2>1, <2>3 DEF CloseOpen
  <2>4. QED
    BY <2>2, <2>3
<1>9. CASE Accept(c)
  BY <1>9, Working DEF Accept, AcceptInv, WithInv, Label
<1>10. CASE ResignGame(c)
  <2> DEFINE j == cur[c]
             r == RoleOf(c, j)
  <2>1. j \in Invs /\ pc[c] = "resign" /\ pc[c] \in WithInv /\ results' = results /\ cur' = cur
    BY <1>10, Working DEF ResignGame, WithInv, Label
  <2>2. CASE started[j] /\ Closable(j, r)
    <3>1. /\ istate[j] = "accepted" /\ istate' = [istate EXCEPT ![j] = "closed"]
          /\ \A k \in Invs \ {j} : winner'[k] = winner[k]
          /\ verdict'[c] = Other(r) /\ pc'[c] = "rm_own"
      BY <1>10, <2>1, <2>2 DEF ResignGame, Closable, CloseInv, CloseInvTo, Phases
    <3>2. QED
      BY <2>1, <3>1
  <2>3. CASE ~(started[j] /\ Closable(j, r))
    BY <1>10, <2>1, <2>3 DEF ResignGame
  <2>4. QED
    BY <2>2, <2>3
<1>11. CASE ApplyMove(c)
  <2>1. /\ cur[c] \in Invs /\ pc[c] = "move" /\ istate[cur[c]] = "accepted"
        /\ UNCHANGED <<results, istate>>
    BY <1>11, Working DEF ApplyMove, WithInv, Label, Phases
  <2>2. \A k \in Invs \ {cur[c]} : winner'[k] = winner[k]
    BY <1>11 DEF ApplyMove
  <2>3. QED
    BY <2>1, <2>2
<1>12. CASE MoveOver(c)
  <2> DEFINE j == cur[c]
  <2>1. j \in Invs /\ pc[c] = "mv_over" /\ pc[c] \in WithInv /\ results' = results /\ cur' = cur
    BY <1>12, Working DEF MoveOver, WithInv, Label
  <2>2. CASE Over(j) /\ Closable(j, Other(winner[j]))
    <3>1. /\ istate[j] # "closed" /\ istate' = [istate EXCEPT ![j] = "closed"]
          /\ winner' = winner /\ verdict'[c] = winner[j] /\ pc'[c] = "rm_own"
      BY <1>12, <2>1, <2>2 DEF MoveOver, Over, Closable, CloseInv, CloseInvTo
    <3>2. QED
      BY <2>1, <3>1
  <2>3. CASE ~(Over(j) /\ Closable(j, Other(winner[j])))
    BY <1>12, <2>1, <2>3 DEF MoveOver
  <2>4. QED
    BY <2>2, <2>3
<1>13. QED
  BY <1>1, <1>2, <1>3, <1>4, <1>5, <1>6, <1>7, <1>8, <1>9, <1>10, <1>11, <1>12 DEF Work

LEMMA MoversNext ==
    ASSUME CInv, Movers, NEW e \in Clients, Recv(e) \/ Work(e)
    PROVE  Movers'
<1> SUFFICES ASSUME NEW c \in Clients, pc'[c] \in Moving
             PROVE  RoleOf(c, cur[c])' \in PlayerRole /\ started'[cur'[c]]
  BY DEF Movers
<1>1. TInv /\ EInv
  BY DEF CInv
<1>2. CASE c # e
  <2>1. pc'[c] = pc[c] /\ cur'[c] = cur[c]
    BY <1>1, <1>2, OthersKept
  <2>2. /\ RoleOf(c, cur[c]) \in PlayerRole /\ started[cur[c]]
        /\ cur[c] \in Invs /\ istate[cur[c]] # "unused"
    BY <1>1, <2>1, Working DEF Movers, Moving, WithInv, Label, EInv
  <2>3. /\ source'[cur[c]] = source[cur[c]] /\ role'[cur[c]] = role[cur[c]]
        /\ started'[cur[c]]
    BY <2>2, StateKept
  <2>4. QED
    BY <2>1, <2>2, <2>3 DEF RoleOf
<1>3. CASE c = e
  <2>1. cur'[c] = cur[c] /\ UNCHANGED <<source, role, started>>
    BY <1>1, <1>3, MovingSteps
  <2>2. CASE pc[c] \in Moving
    BY <2>1, <2>2 DEF Movers, RoleOf
  <2>3. CASE ApplyMove(c)
    <3>1. cur[c] \in Invs
      BY <1>1, <2>3, Working DEF ApplyMove, WithInv, Label
    <3>2. /\ started[cur[c]] /\ turn[cur[c]] # NULL_ROLE
          /\ turn[cur[c]] = RoleOf(c, cur[c]) /\ turn[cur[c]] \in GameRole
      BY <1>1, <2>3, <3>1 DEF ApplyMove, TInv, TypeOK
    <3>3. RoleOf(c, cur[c])' = RoleOf(c, cur[c])
      BY <2>1 DEF RoleOf
    <3>4. QED
      BY <2>1, <3>2, <3>3 DEF GameRole
  <2>4. QED
    BY <1>1, <1>3, <2>2, <2>3, MovingSteps
<1>4. QED
  BY <1>2, <1>3

LEMMA AnsweredNext ==
    ASSUME CInv, Movers, Answered, NEW e \in Clients, fault = "none", Recv(e) \/ Work(e)
    PROVE  Answered'
<1> SUFFICES ASSUME fault' = "none", NEW c \in Clients, pc'[c] \in Moving,
                    istate'[cur'[c]] = "closed"
             PROVE  AnswerFor(c, cur[c])'
  BY DEF Answered
<1>1. TInv /\ EInv /\ Phases /\ SingleCloser
  BY DEF CInv
<1>2. CASE c = e
  <2>1. cur'[c] = cur[c] /\ UNCHANGED <<istate, source, target, role, started>>
    BY <1>1, <1>2, MovingSteps
  <2>2. CASE pc[c] \in Moving /\ UNCHANGED <<winner, results, verdict>>
    <3> DEFINE i == cur[c]
               d == Peer(c, i)
    <3>1. AnswerFor(c, i)
      BY <2>1, <2>2 DEF Answered
    <3>2. /\ i \in Invs /\ istate[i] # "unused" /\ c \in Ends(i)
          /\ RoleOf(c, i)' = RoleOf(c, i) /\ d' = d
      BY <1>1, <2>1, <2>2, Working DEF Moving, WithInv, Label, EInv, RoleOf, Peer
    <3>3. d # c /\ d \in Clients
      BY <1>1, <3>2 DEF Peer, Ends, EInv
    <3>4. pc'[d] = pc[d] /\ cur'[d] = cur[d]
      BY <1>1, <1>2, <3>3, OthersKept
    <3>5. QED
      BY <2>1, <2>2, <3>1, <3>2, <3>4 DEF AnswerFor
  <2>3. CASE ApplyMove(c)
    <3>1. cur[c] \in Invs /\ turn[cur[c]] # NULL_ROLE
      BY <1>1, <2>3, Working DEF ApplyMove, WithInv, Label
    <3>2. istate[cur[c]] = "accepted"
      BY <1>1, <3>1 DEF Phases
    <3>3. QED
      BY <2>1, <3>2
  <2>4. QED
    BY <1>1, <1>2, <2>2, <2>3, MovingSteps
<1>3. CASE c # e
  <2> DEFINE i == cur[c]
             d == Peer(c, i)
  <2>1. pc'[c] = pc[c] /\ cur'[c] = cur[c]
    BY <1>1, <1>3, OthersKept
  <2>2. /\ i \in Invs /\ istate[i] # "unused" /\ c \in Ends(i)
        /\ RoleOf(c, i) \in PlayerRole /\ started[i]
    BY <1>1, <2>1, Working DEF Moving, WithInv, Label, EInv, Movers
  <2>3. source'[i] = source[i] /\ target'[i] = target[i] /\ role'[i] = role[i]
    BY <2>2, StateKept
  <2>4. RoleOf(c, i)' = RoleOf(c, i) /\ d' = d /\ d # c /\ d \in Ends(i) /\ d \in Clients
    BY <1>1, <2>1, <2>2, <2>3 DEF RoleOf, Peer, Ends, EInv
  <2>5. pc[e] \in WithInv /\ cur[e] = i => e = d
    BY <1>1, <1>3, <2>2 DEF EInv, Ends, Peer
  <2>6. EndStep(e, i)
    BY <2>2, EndSteps
  <2>7. CASE istate[i] # "closed"
    <3>1. /\ cur[e] = i /\ cur'[e] = i /\ pc[e] \in WithInv /\ pc'[e] \in Ending
          /\ verdict'[e] \in {Other(RoleOf(e, i)), winner'[i]}
      BY <2>1, <2>2, <2>6, <2>7 DEF EndStep
    <3>2. e = d
      BY <2>5, <3>1
    <3>3. Other(RoleOf(d, i)) = RoleOf(c, i)
      BY <1>1, <2>2, <2>4, Opposed
    <3>4. QED
      BY <2>1, <2>4, <3>1, <3>2, <3>3 DEF AnswerFor
  <2>8. CASE istate[i] = "closed"
    <3>1. PICK v \in {RoleOf(c, i), winner[i]} :
            results[i] = <<v>> \/ (pc[d] \in Ending /\ cur[d] = i /\ verdict[d] = v)
      BY <2>1, <2>8 DEF Answered, AnswerFor
    <3>2. v \in {RoleOf(c, i)', winner'[i]}
      BY <2>4, <2>6, <2>8 DEF EndStep
    <3>3. CASE results[i] = <<v>>
      <4>1. ~(pc[e] = "post" /\ cur[e] = i)
        BY <1>1, <3>3 DEF SingleCloser, Closing, Ending
      <4>2. results'[i] = <<v>>
        BY <2>6, <3>3, <4>1 DEF EndStep
      <4>3. QED
        BY <2>1, <3>2, <4>2 DEF AnswerFor
    <3>4. CASE pc[d] \in Ending /\ cur[d] = i /\ verdict[d] = v
      <4>1. CASE d # e
        <5>1. pc'[d] = pc[d] /\ cur'[d] = cur[d] /\ verdict'[d] = verdict[d]
          BY <1>1, <2>4, <4>1, OthersKept
        <5>2. QED
          BY <2>1, <2>4, <3>2, <3>4, <5>1 DEF AnswerFor
      <4>2. CASE d = e
        <5>1. results[i] = << >>
          BY <1>1, <2>4, <3>4 DEF SingleCloser, Closing
        <5>2. \/ pc'[d] \in Ending /\ cur'[d] = i /\ verdict'[d] = v
              \/ results'[i] = Append(results[i], v)
          BY <2>6, <3>4, <4>2 DEF EndStep
        <5>3. Append(results[i], v) = <<v>>
          BY <5>1
        <5>4. QED
          BY <2>1, <2>4, <3>2, <5>2, <5>3 DEF AnswerFor
      <4>3. QED
        BY <4>1, <4>2
    <3>5. QED
      BY <3>1, <3>3, <3>4
  <2>9. QED
    BY <2>7, <2>8
<1>4. QED
  BY <1>2, <1>3

LEMMA AnsweredInvariant == PSpec => [](Movers /\ Answered)
<1>1. PInit => Movers /\ Answered
  BY DEF PInit, Init, Movers, Answered, Moving
<1>2. PInv /\ Movers /\ Answered /\ [PNext]_pvars => (Movers /\ Answered)'
  <2> SUFFICES ASSUME PInv, Movers, Answered, [PNext]_pvars PROVE (Movers /\ Answered)'
    OBVIOUS
  <2>1. CASE PNext
    BY <2>1, MoversNext, AnsweredNext DEF PNext, PRecv, PWork, PInv
  <2>2. CASE UNCHANGED pvars
    BY <2>2 DEF pvars, vars, madeVars, gameVars, threadVars, Movers, Answered, AnswerFor, RoleOf,
                Peer
  <2>3. QED
    BY <2>1, <2>2
<1>3. QED
  BY <1>1, <1>2, PacketInvariant, PTL DEF PSpec

\* A move that is answered NACK does not cost the mover the game.
THEOREM PacketsRefusedMoveCounts == PSpec => RefusedMoveCounts
<1> DEFINE Counts == \A c \in Clients : pc[c] = "mv_over" /\ pc'[c] = "refuse" =>
                        LET i == cur[c]
                            d == Peer(c, i)
                        IN  \E v \in {RoleOf(c, i), winner[i]} :
                                \/ results[i] = <<v>>
                                \/ pc[d] \in Ending /\ cur[d] = i /\ verdict[d] = v
<1>1. PInv /\ Movers /\ Answered /\ [PNext]_pvars => [Counts]_pvars
  <2> SUFFICES ASSUME PInv, Movers, Answered, PNext,
                      NEW c \in Clients, pc[c] = "mv_over", pc'[c] = "refuse"
               PROVE  AnswerFor(c, cur[c])
    BY DEF AnswerFor
  <2>1. CInv /\ TInv /\ EInv
    BY DEF PInv, CInv
  <2>2. PICK e \in Clients : Recv(e) \/ Work(e)
    BY DEF PNext, PRecv, PWork
  <2>3. e = c
    BY <2>1, <2>2, OthersKept
  <2>4. MoveOver(c)
    <3>1. ~Recv(c)
      BY DEF Recv, Connect, RecvLogin, EndOfInput, RecvInvite, RecvRevoke, RecvDecline,
             RecvAccept, RecvResign, RecvMove, Request
    <3>2. QED
      BY <2>2, <2>3, <3>1 DEF Work, ScanPlayers, SetPlayer, BeginLogout, LogoutNext, EndLogout,
         Unregister, Free, AddSource, AddTarget, DropMade, EndInvite, CloseOpen, RemoveSource,
         RemoveTarget, RemoveOwn, RemoveOpp, Remove, Unref, Notify, Accept, TellAccepted, TellMoved,
         Tell, ResignGame, PostResult, ApplyMove, RefuseMove, Finish
  <2>5. cur[c] \in Invs /\ istate[cur[c]] # "unused"
    BY <2>1, Working DEF EInv, WithInv, Label
  <2>6. Over(cur[c]) /\ ~Closable(cur[c], Other(winner[cur[c]]))
    BY <2>1, <2>4 DEF MoveOver, Goto, TInv, TypeOK
  <2>7. Other(winner[cur[c]]) # NULL_ROLE
    <3>1. winner[cur[c]] \in 0..255
      BY <2>1, <2>5 DEF TInv, TypeOK, GameRole, PlayerRole, NULL_ROLE, FIRST_PLAYER_ROLE,
                        SECOND_PLAYER_ROLE
    <3>2. QED
      BY <3>1, OtherRole DEF PlayerRole, NULL_ROLE, FIRST_PLAYER_ROLE, SECOND_PLAYER_ROLE
  <2>8. istate[cur[c]] = "closed"
    BY <2>1, <2>5, <2>6, <2>7 DEF Closable, TInv, TypeOK
  <2>9. QED
    BY <2>8 DEF Answered, PNext, Moving
<1>2. QED
  BY <1>1, PacketInvariant, AnsweredInvariant, PTL DEF PSpec, RefusedMoveCounts

-----------------------------------------------------------------------------
(***************************************************************************)
(* What is told of an invitation.  Each end's story is a function of where *)
(* the invitation is in its life and of which threads still have a packet  *)
(* of it to send: StepKinds lists what a step can do to both, and the rest *)
(* follows each packet to the end it goes to.                              *)
(***************************************************************************)
\* What can have been told of a game that is over or not, after the packet that
\* says there is one; busy: a thread still has a move to tell.
GameTale(first, over, busy) ==
    IF ~over THEN {<<first>>, <<first, "MOVED">>}
    ELSE {<<first, "ENDED">>, <<first, "MOVED", "ENDED">>}
         \cup (IF busy THEN {} ELSE {<<"ENDED", first>>, <<first, "ENDED", "MOVED">>,
                                     <<first, "MOVED", "ENDED", "MOVED">>})

\* What can have been told before that packet.
Early(over) == IF over THEN <<"ENDED">> ELSE << >>

\* Thread c works on invitation i at one of the labels of L.
On(c, i, L) == cur[c] = i /\ pc[c] \in L

\* The labels after an invitation was closed that had no game, up to the packet
\* that says so, and the labels that send a packet.
Withdrawing == {"rm_source", "rm_target", "unref", "notify"}

Saying == {"invite_end", "notify", "acc_tell", "mv_tell", "post"}

Still(i) == istate'[i] = istate[i] /\ started'[i] = started[i]

\* A step that says nothing of invitation i and takes no thread to or from the
\* labels that matter to what it has been told.
Calm(c, i) ==
    /\ Still(i)
    /\ On(c, i, Making)' <=> On(c, i, Making)
    /\ On(c, i, Withdrawing)' <=> On(c, i, Withdrawing)
    /\ On(c, i, Ending)' <=> On(c, i, Ending)
    /\ On(c, i, {"acc_tell"})' <=> On(c, i, {"acc_tell"})
    /\ On(c, i, {"mv_tell"})' <=> On(c, i, {"mv_tell"})
    /\ ~On(c, i, Saying)

\* Thread c goes on with invitation i from label l to m, or is done with it.
Turns(c, i, l, m) == cur[c] = i /\ pc[c] = l /\ cur'[c] = i /\ pc'[c] = m
Done(c, i, l) == cur[c] = i /\ pc[c] = l /\ cur'[c] # i /\ pc'[c] \in {"idle", "logout"}

\* The kinds of steps, as seen from invitation i: none of its business; it is
\* made; a packet was sent, or could not be; a move; it is closed, accepted, or
\* its game is over.
Kinds(c, i) ==
    \/ Calm(c, i)
    \/ /\ istate[i] = "unused" /\ istate'[i] = "open" /\ ~started'[i]
       /\ source'[i] = c /\ target'[i] \in Clients \ {c}
       /\ cur'[c] = i /\ pc'[c] = "add_source"
    \/ Still(i) /\ (Done(c, i, "invite_end") \/ Done(c, i, "invite_fail") \/ Done(c, i, "notify"))
    \/ Still(i) /\ (Turns(c, i, "acc_tell", "finish") \/ Turns(c, i, "mv_tell", "mv_over")
                        \/ Turns(c, i, "post", "finish"))
    \/ Still(i) /\ Turns(c, i, "move", "mv_tell") /\ istate[i] = "accepted"
    \/ /\ Turns(c, i, "close", "rm_source")
       /\ istate[i] = "open" /\ istate'[i] = "closed" /\ ~started[i] /\ ~started'[i]
    \/ /\ Turns(c, i, "accept", "acc_tell")
       /\ istate[i] = "open" /\ istate'[i] = "accepted" /\ ~started[i] /\ started'[i]
    \/ /\ Turns(c, i, "resign", "rm_own") \/ Turns(c, i, "mv_over", "rm_own")
       /\ istate[i] = "accepted" /\ istate'[i] = "closed" /\ started[i] /\ started'[i]

\* Every step is of one of these kinds for every invitation.
LEMMA StepKinds ==
    ASSUME CInv, NEW c \in Clients, Recv(c) \/ Work(c), NEW i \in Invs
    PROVE  Kinds(c, i)
<1> USE DEF CInv, TInv, TypeOK, madeVars, gameVars, Kinds, Goto
<1> USE DEF Calm, Still, On, Making, Withdrawing, Ending, Saying
<1>1. CASE Connect(c) \/ (\E p \in Players : RecvLogin(c, p)) \/ EndOfInput(c)
  BY <1>1 DEF Connect, RecvLogin, EndOfInput
<1>2. CASE \E p \in Players, r \in InviteRoles : RecvInvite(c, p, r)
  <2>1. PICK d \in Clients \ {c}, j \in Invs :
          /\ istate[j] = "unused" /\ istate' = [istate EXCEPT ![j] = "open"]
          /\ source' = [source EXCEPT ![j] = c] /\ target' = [target EXCEPT ![j] = d]
          /\ started' = started /\ cur' = [cur EXCEPT ![c] = j]
    BY <1>2 DEF RecvInvite, MakeInv
  <2>2. pc[c] = "idle" /\ pc'[c] = "add_source" /\ ~started[j]
    BY <1>2, <2>1 DEF RecvInvite, Phases
  <2>3. QED
    BY <2>1, <2>2
<1>3. CASE \E j \in Invs : \/ RecvRevoke(c, j) \/ RecvDecline(c, j) \/ RecvAccept(c, j)
                         \/ RecvResign(c, j) \/ RecvMove(c, j)
  <2>1. PICK j \in Invs, l \in {"close", "refuse", "accept", "resign", "move"} : Request(c, j, l)
    BY <1>3 DEF RecvRevoke, RecvDecline, RecvAccept, RecvResign, RecvMove
  <2>2. /\ pc[c] = "idle" /\ pc'[c] \in {"close", "refuse", "accept", "resign", "move"}
        /\ UNCHANGED <<istate, started>>
    BY <2>1 DEF Request, Pin
  <2>3. QED
    BY <2>2
<1>4. CASE ScanPlayers(c) \/ SetPlayer(c) \/ BeginLogout(c) \/ EndLogout(c)
  BY <1>4 DEF ScanPlayers, SetPlayer, BeginLogout, EndLogout
<1>5. CASE LogoutNext(c)
  <2>1. /\ pc[c] = "logout" /\ pc'[c] \in {"resign", "close"} /\ UNCHANGED <<istate, started>>
    BY <1>5 DEF LogoutNext, Pin
  <2>2. QED
    BY <2>1
<1>6. CASE Unregister(c) \/ Free(c) \/ AddSource(c) \/ AddTarget(c)
  <2>1. CASE Unregister(c)
    BY <2>1 DEF Unregister
  <2>2. CASE Free(c)
    BY <2>2 DEF Free
  <2>3. CASE AddSource(c)
    BY <2>3 DEF AddSource
  <2>4. CASE AddTarget(c)
    BY <2>4 DEF AddTarget
  <2>5. QED
    BY <1>6, <2>1, <2>2, <2>3, <2>4, Zenon
<1>7. CASE DropMade(c) \/ Unref(c)
  <2>1. CASE DropMade(c)
    <3>1. /\ pc[c] \in {"made", "unmade"} /\ pc'[c] \in {"invite_end", "invite_fail"}
          /\ UNCHANGED <<cur, istate, started>>
      BY <2>1 DEF DropMade
    <3>2. QED
      BY <3>1
  <2>2. CASE Unref(c)
    <3>1. pc[c] = "unref" /\ pc'[c] = "notify" /\ UNCHANGED <<cur, istate, started>>
      BY <2>2 DEF Unref
    <3>2. QED
      BY <3>1
  <2>3. QED
    BY <1>7, <2>1, <2>2, Zenon
<1>8. CASE EndInvite(c) \/ Notify(c)
  <2>1. /\ pc[c] \in {"invite_end", "invite_fail", "notify"} /\ pc'[c] \in {"idle", "logout"}
        /\ cur'[c] = NoInv /\ cur'[c] # i /\ istate' = istate /\ started' = started
    BY <1>8, NullAssumption DEF EndInvite, Notify, Resume
  <2>2. QED
    BY <2>1 DEF Done
<1>9. CASE Finish(c)
  <2>1. /\ pc[c] \in {"finish", "refuse"} /\ pc'[c] \in {"idle", "logout"}
        /\ cur'[c] = NoInv /\ cur'[c] # i /\ istate' = istate /\ started' = started
    BY <1>9, NullAssumption DEF Finish, Resume
  <2>2. QED
    BY <2>1
<1>10. CASE RemoveSource(c) \/ RemoveTarget(c) \/ RemoveOwn(c) \/ RemoveOpp(c)
  <2>1. /\ UNCHANGED <<cur, istate, started>>
        /\ \/ pc[c] = "rm_source" /\ pc'[c] = "rm_target"
           \/ pc[c] = "rm_target" /\ pc'[c] = "unref"
           \/ pc[c] = "rm_own" /\ pc'[c] = "rm_opp"
           \/ pc[c] = "rm_opp" /\ pc'[c] = "post"
    BY <1>10 DEF RemoveSource, RemoveTarget, RemoveOwn, RemoveOpp, Remove
  <2>2. QED
    BY <2>1
<1>11. CASE CloseOpen(c)
  <2> DEFINE j == cur[c]
  <2>1. j \in Invs /\ pc[c] = "close" /\ cur' = cur /\ started' = started
    BY <1>11, Working DEF CloseOpen, WithInv, Label
  <2>2. CASE Closable(j, NULL_ROLE)
    <3>1. /\ istate[j] = "open" /\ istate' = [istate EXCEPT ![j] = "closed"]
          /\ pc'[c] = "rm_source" /\ ~started[j]
      BY <1>11, <2>1, <2>2 DEF CloseOpen, Closable, CloseInv, CloseInvTo, Phases
    <3>2. QED
      BY <2>1, <3>1 DEF Turns
  <2>3. CASE ~Closable(j, NULL_ROLE)
    BY <1>11, <2>1, <2>3 DEF CloseOpen
  <2>4. QED
    BY <2>2, <2>3
<1>12. CASE Accept(c)
  <2> DEFINE j == cur[c]
  <2>1. j \in Invs /\ pc[c] = "accept" /\ cur' = cur
    BY <1>12, Working DEF Accept, WithInv, Label
  <2>2. CASE istate[j] = "open"
    <3>1. /\ istate' = [istate EXCEPT ![j] = "accepted"] /\ started' = [started EXCEPT ![j] = TRUE]
          /\ pc'[c] = "acc_tell" /\ ~started[j]
      BY <1>12, <2>1, <2>2 DEF Accept, AcceptInv, Phases
    <3>2. QED
      BY <2>1, <2>2, <3>1 DEF Turns
  <2>3. CASE istate[j] # "open"
    BY <1>12, <2>1, <2>3 DEF Accept, AcceptInv
  <2>4. QED
    BY <2>2, <2>3
<1>13. CASE TellAccepted(c) \/ TellMoved(c) \/ PostResult(c)
  BY <1>13 DEF TellAccepted, TellMoved, Tell, PostResult, Turns
<1>14. CASE RefuseMove(c)
  BY <1>14 DEF RefuseMove
<1>15. CASE ApplyMove(c)
  <2>1. /\ cur[c] \in Invs /\ pc[c] = "move" /\ pc'[c] = "mv_tell" /\ cur' = cur
        /\ istate[cur[c]] = "accepted" /\ UNCHANGED <<istate, started>>
    BY <1>15, Working DEF ApplyMove, WithInv, Label, Phases
  <2>2. QED
    BY <2>1 DEF Turns
<1>16. CASE ResignGame(c)
  <2> DEFINE j == cur[c]
  <2>1. j \in Invs /\ pc[c] = "resign" /\ cur' = cur /\ started' = started
    BY <1>16, Working DEF ResignGame, WithInv, Label
  <2>2. CASE started[j] /\ Closable(j, RoleOf(c, j))
    <3>1. /\ istate[j] = "accepted" /\ istate' = [istate EXCEPT ![j] = "closed"]
          /\ pc'[c] = "rm_own"
      BY <1>16, <2>1, <2>2 DEF ResignGame, Closable, CloseInv, CloseInvTo, Phases
    <3>2. QED
      BY <2>1, <2>2, <3>1 DEF Turns
  <2>3. CASE ~(started[j] /\ Closable(j, RoleOf(c, j)))
    BY <1>16, <2>1, <2>3 DEF ResignGame
  <2>4. QED
    BY <2>2, <2>3
<1>17. CASE MoveOver(c)
  <2> DEFINE j == cur[c]
  <2>1. j \in Invs /\ pc[c] = "mv_over" /\ cur' = cur /\ started' = started
    BY <1>17, Working DEF MoveOver, WithInv, Label
  <2>2. CASE Over(j) /\ Closable(j, Other(winner[j]))
    <3>1. /\ istate[j] = "accepted" /\ istate' = [istate EXCEPT ![j] = "closed"]
          /\ pc'[c] = "rm_own" /\ started[j]
      BY <1>17, <2>1, <2>2 DEF MoveOver, Over, Closable, CloseInv, CloseInvTo, Phases
    <3>2. QED
      BY <2>1, <3>1 DEF Turns
  <2>3. CASE ~(Over(j) /\ Closable(j, Other(winner[j])))
    BY <1>17, <2>1, <2>3 DEF MoveOver
  <2>4. QED
    BY <2>2, <2>3
<1>18. QED
  BY <1>1, <1>2, <1>3, <1>4, <1>5, <1>6, <1>7, <1>8, <1>9, <1>10, <1>11, <1>12, <1>13, <1>14,
     <1>15, <1>16, <1>17 DEF Recv, Work

\* An invitation without a game is withdrawn by one thread ...
Withdrawals ==
    \A c \in Clients : pc[c] \in Withdrawing =>
        /\ istate[cur[c]] = "closed" /\ ~started[cur[c]]
        /\ \A d \in Clients : pc[d] \in Withdrawing /\ cur[d] = cur[c] => d = c

\* ... the source's thread makes it, the target's accepts it, and a game is on
\* before a thread tells of it ...
Parts ==
    \A c \in Clients :
        /\ pc[c] \in Making => source[cur[c]] = c
        /\ pc[c] = "acc_tell" => target[cur[c]] = c /\ started[cur[c]]
        /\ pc[c] = "mv_tell" => started[cur[c]]

\* ... and what cannot reach the target's list finds it logged out, for good.
Missed ==
    \A c \in Clients : pc[c] \in {"unmade", "invite_fail"} =>
        pc[target[cur[c]]] \in Left /\ ~started[cur[c]]

TellInv == Withdrawals /\ Parts /\ Missed

\* What a step does to where the invitations' threads are, the others' included.
LEMMA LabelsKept ==
    ASSUME TInv, NEW c \in Clients, Recv(c) \/ Work(c), NEW d \in Clients \ {c}, NEW i, NEW L
    PROVE  On(d, i, L)' <=> On(d, i, L)
BY OthersKept DEF On

\* Who has left has left for good.
LEMMA LeftKept ==
    ASSUME TInv, NEW c \in Clients, Recv(c) \/ Work(c), NEW d \in Clients, pc[d] \in Left
    PROVE  pc'[d] \in Left
<1>1. CASE d # c
  BY <1>1, OthersKept
<1>2. CASE d = c
  <2>1. Unregister(c) \/ Free(c)
    BY <1>2 DEF Left, Recv, Work, Connect, RecvLogin, EndOfInput, RecvInvite, RecvRevoke,
       RecvDecline, RecvAccept, RecvResign, RecvMove, Request, ScanPlayers, SetPlayer, BeginLogout,
       LogoutNext, EndLogout, AddSource, AddTarget, DropMade, EndInvite, CloseOpen, RemoveSource,
       RemoveTarget, RemoveOwn, RemoveOpp, Remove, Unref, Notify, Accept, TellAccepted, TellMoved,
       Tell, ResignGame, PostResult, ApplyMove, RefuseMove, MoveOver, Finish
  <2>2. QED
    BY <1>2, <2>1 DEF Unregister, Free, Goto, Left, TInv, TypeOK
<1>3. QED
  BY <1>1, <1>2

\* The maker comes to the labels after add_target without the target's list.
LEMMA MissedStep ==
    ASSUME TInv, Known, NEW c \in Clients, Recv(c) \/ Work(c), pc'[c] \in {"unmade", "invite_fail"},
           ListInv, EInv, CInv
    PROVE  /\ cur'[c] = cur[c] /\ UNCHANGED <<istate, started, source, target>>
           /\ pc[c] \in {"unmade", "invite_fail"}
              \/ (istate[cur[c]] = "open" /\ pc[target[cur[c]]] \in Left)
<1> USE DEF TInv, TypeOK, Goto
<1>1. CASE AddTarget(c)
  <2>1. pc[c] = "add_target" /\ cur[c] \in Invs /\ player[target[cur[c]]] = NoPlayer /\ cur' = cur
    BY <1>1, Working DEF AddTarget, WithInv, Label
  <2>2. istate[cur[c]] = "open"
    BY <2>1 DEF ListInv, Fresh, Adding
  <2>3. pc[target[cur[c]]] \in Left
    BY <2>1, <2>2 DEF Known, Ends
  <2>4. QED
    BY <1>1, <2>1, <2>2, <2>3 DEF AddTarget, madeVars, gameVars
<1>2. CASE DropMade(c)
  BY <1>2 DEF DropMade, madeVars, gameVars
<1>3. CASE ~AddTarget(c) /\ ~DropMade(c)
  <2>1. FALSE
    <3>1. CASE Recv(c)
      BY <3>1 DEF Recv, Connect, RecvLogin, EndOfInput, RecvInvite, RecvRevoke, RecvDecline,
         RecvAccept, RecvResign, RecvMove, Request, Pin
    <3>2. CASE Work(c)
      BY <1>3, <3>2 DEF Work, ScanPlayers, SetPlayer, BeginLogout, LogoutNext, Pin,
       EndLogout, Unregister, Free, AddSource, EndInvite, Resume, CloseOpen, RemoveSource,
       RemoveTarget, RemoveOwn, RemoveOpp, Remove, Unref, Notify, Accept, TellAccepted, TellMoved,
       Tell, ResignGame, PostResult, ApplyMove, RefuseMove, MoveOver, Finish
    <3>3. QED
      BY <3>1, <3>2
  <2>2. QED
    BY <2>1
<1>4. QED
  BY <1>1, <1>2, <1>3

\* A step keeps the three.
LEMMA TellNext ==
    ASSUME CInv, CInv', ListInv, Known, TellInv, NEW e \in Clients, Recv(e) \/ Work(e)
    PROVE  TellInv'
<1>1. TInv /\ EInv /\ SingleCloser /\ TInv' /\ Phases
  BY DEF CInv
<1>2. ASSUME NEW c \in Clients, c # e, pc[c] \in WithInv
      PROVE  /\ pc'[c] = pc[c] /\ cur'[c] = cur[c] /\ cur[c] \in Invs
             /\ istate[cur[c]] # "unused" /\ c \in Ends(cur[c])
             /\ source'[cur[c]] = source[cur[c]] /\ target'[cur[c]] = target[cur[c]]
             /\ started[cur[c]] => started'[cur[c]]
  <2>1. cur[c] \in Invs /\ istate[cur[c]] # "unused" /\ c \in Ends(cur[c])
    BY <1>1, <1>2, Working DEF EInv
  <2>2. QED
    BY <1>1, <1>2, <2>1, OthersKept, StateKept
<1>3. \A c \in Clients \ {e} : pc'[c] = pc[c] /\ cur'[c] = cur[c]
  BY <1>1, OthersKept
<1>4. Withdrawals'
  <2> SUFFICES ASSUME NEW c \in Clients, pc'[c] \in Withdrawing
               PROVE  /\ istate'[cur'[c]] = "closed" /\ ~started'[cur'[c]]
                      /\ \A d \in Clients : pc'[d] \in Withdrawing /\ cur'[d] = cur'[c] => d = c
    BY DEF Withdrawals
  <2>1. PICK i \in Invs : cur'[c] = i
    BY <1>1 DEF TInv, HasInv, Withdrawing, WithInv, Label
  <2>2. Kinds(e, i)
    BY <2>1, StepKinds
  <2>3. CASE \E d \in Clients : On(d, i, Withdrawing)
    <3>1. PICK d \in Clients : On(d, i, Withdrawing)
      BY <2>3
    <3>2. /\ istate[i] = "closed" /\ ~started[i]
          /\ \A x \in Clients : On(x, i, Withdrawing) => x = d
      BY <3>1 DEF TellInv, Withdrawals, On
    <3>3. istate'[i] = "closed" /\ ~started'[i]
      BY <2>2, <3>2 DEF Kinds, Calm, Still, Turns
    <3>4. On(e, i, Withdrawing)' => On(e, i, Withdrawing)
      BY <2>2, <3>2 DEF Kinds, Calm, Turns, Done, On, Withdrawing
    <3>5. \A x \in Clients : On(x, i, Withdrawing)' => On(x, i, Withdrawing)
      BY <1>1, <3>4, LabelsKept
    <3>6. QED
      BY <2>1, <3>2, <3>3, <3>5 DEF On
  <2>4. CASE ~\E d \in Clients : On(d, i, Withdrawing)
    <3>1. \A x \in Clients \ {e} : ~On(x, i, Withdrawing)'
      BY <1>1, <2>4, LabelsKept
    <3>2. c = e /\ On(e, i, Withdrawing)'
      BY <2>1, <3>1 DEF On
    <3>3. istate'[i] = "closed" /\ ~started'[i]
      BY <2>2, <2>4, <3>2 DEF Kinds, Calm, Turns, Done, On, Withdrawing
    <3>4. QED
      BY <2>1, <3>1, <3>2, <3>3 DEF On
  <2>5. QED
    BY <2>3, <2>4
<1>5. Parts'
  <2> SUFFICES ASSUME NEW c \in Clients,
                      pc'[c] \in Making \cup {"acc_tell", "mv_tell"}
               PROVE  /\ pc'[c] \in Making => source'[cur'[c]] = c
                      /\ pc'[c] = "acc_tell" => target'[cur'[c]] = c /\ started'[cur'[c]]
                      /\ pc'[c] = "mv_tell" => started'[cur'[c]]
    BY DEF Parts
  <2>1. CASE c # e
    <3>1. pc[c] \in Making \cup {"acc_tell", "mv_tell"} /\ pc[c] \in WithInv
      BY <1>3, <2>1 DEF Making, WithInv, Label
    <3>2. QED
      BY <1>2, <2>1, <3>1 DEF TellInv, Parts
  <2>2. CASE c = e
    <3>1. PICK i \in Invs : cur'[c] = i
      BY <1>1, <2>2 DEF TInv, HasInv, Making, WithInv, Label
    <3>2. Kinds(e, i)
      BY <3>1, StepKinds
    <3>3. CASE istate[i] = "unused"
      <4>1. On(e, i, Making \cup {"acc_tell", "mv_tell"}) => FALSE
        BY <1>1, <3>1, <3>3 DEF On, EInv, Making, WithInv, Label
      <4>2. pc'[c] = "add_source" /\ source'[i] = c
        BY <2>2, <3>1, <3>2, <3>3, <4>1 DEF Kinds, Calm, Turns, Done, On, Making
      <4>3. QED
        BY <3>1, <4>2 DEF Making
    <3>4. CASE istate[i] # "unused"
      <4>1. /\ source'[i] = source[i] /\ target'[i] = target[i]
            /\ started[i] => started'[i]
        BY <3>1, <3>4, StateKept
      <4>2. CASE pc'[c] \in Making
        <5>1. On(e, i, Making)
          BY <2>2, <3>1, <3>2, <3>4, <4>2 DEF Kinds, Calm, Turns, Done, On, Making
        <5>2. QED
          BY <2>2, <3>1, <4>1, <4>2, <5>1 DEF On, TellInv, Parts, Making
      <4>3. CASE pc'[c] = "acc_tell"
        <5>1. CASE On(e, i, {"acc_tell"})
          BY <2>2, <3>1, <4>1, <4>3, <5>1 DEF On, TellInv, Parts, Making
        <5>2. CASE ~On(e, i, {"acc_tell"})
          <6>1. Turns(e, i, "accept", "acc_tell") /\ started'[i]
            BY <2>2, <3>1, <3>2, <3>4, <4>3, <5>2 DEF Kinds, Calm, Turns, Done, On
          <6>2. target[i] = c
            BY <2>2, <3>1, <6>1 DEF Turns, ListInv, Accepting
          <6>3. QED
            BY <3>1, <4>1, <4>3, <6>1, <6>2 DEF Making
        <5>3. QED
          BY <5>1, <5>2
      <4>4. CASE pc'[c] = "mv_tell"
        <5>1. CASE On(e, i, {"mv_tell"})
          BY <2>2, <3>1, <4>1, <4>4, <5>1 DEF On, TellInv, Parts, Making
        <5>2. CASE ~On(e, i, {"mv_tell"})
          <6>1. Still(i) /\ istate[i] = "accepted"
            BY <2>2, <3>1, <3>2, <3>4, <4>4, <5>2 DEF Kinds, Calm, Turns, Done, On
          <6>2. started'[i]
            BY <1>1, <3>1, <6>1 DEF Phases, Still
          <6>3. QED
            BY <3>1, <4>4, <6>2 DEF Making
        <5>3. QED
          BY <5>1, <5>2
      <4>5. QED
        BY <4>2, <4>3, <4>4
    <3>5. QED
      BY <3>3, <3>4
  <2>3. QED
    BY <2>1, <2>2
<1>6. Missed'
  <2> SUFFICES ASSUME NEW c \in Clients, pc'[c] \in {"unmade", "invite_fail"}
               PROVE  pc'[target'[cur'[c]]] \in Left /\ ~started'[cur'[c]]
    BY DEF Missed
  <2>1. CASE c = e
    <3>1. /\ cur'[c] = cur[c] /\ UNCHANGED <<istate, started, source, target>>
          /\ pc[c] \in {"unmade", "invite_fail"}
              \/ (istate[cur[c]] = "open" /\ pc[target[cur[c]]] \in Left)
      BY <1>1, <2>1, MissedStep
    <3>2. cur'[c] \in Invs
      BY <1>1 DEF TInv, HasInv, WithInv, Label
    <3>3. pc[target[cur[c]]] \in Left /\ ~started[cur[c]]
      BY <1>1, <3>1, <3>2 DEF Phases, TellInv, Missed
    <3>4. target[cur[c]] \in Clients
      <4>1. istate[cur[c]] # "unused"
        BY <1>1, <3>1, <3>2 DEF EInv, WithInv, Label
      <4>2. QED
        BY <1>1, <3>1, <3>2, <4>1 DEF EInv
    <3>5. QED
      BY <1>1, <3>1, <3>3, <3>4, LeftKept
  <2>2. CASE c # e
    <3> DEFINE i == cur[c]
    <3>1. pc[c] \in {"unmade", "invite_fail"} /\ pc[c] \in WithInv /\ pc[c] \in Making
      BY <1>3, <2>2 DEF WithInv, Label, Making
    <3>2. /\ pc'[c] = pc[c] /\ cur'[c] = i /\ i \in Invs
          /\ istate[i] # "unused" /\ c \in Ends(i) /\ target'[i] = target[i]
      BY <1>2, <2>2, <3>1
    <3>3. pc[target[i]] \in Left /\ ~started[i] /\ source[i] = c /\ target[i] \in Clients
      BY <1>1, <3>1, <3>2 DEF TellInv, Missed, Parts, EInv
    <3>4. pc'[target[i]] \in Left
      BY <1>1, <3>3, LeftKept
    <3>5. Kinds(e, i)
      BY <3>2, StepKinds
    <3>6. ~(pc[e] \in WithInv /\ cur[e] = i)
      <4>1. pc[e] \in WithInv /\ cur[e] = i => e \in Ends(i)
        BY <1>1 DEF EInv
      <4>2. e # source[i]
        BY <2>2, <3>3
      <4>3. pc[e] \in WithInv => e # target[i]
        BY <3>3 DEF WithInv, Left
      <4>4. QED
        BY <4>1, <4>2, <4>3 DEF Ends
    <3>7. ~started'[i]
      BY <3>2, <3>3, <3>5, <3>6 DEF Kinds, Calm, Still, Turns, WithInv, Label
    <3>8. QED
      BY <3>2, <3>4, <3>7
  <2>3. QED
    BY <2>1, <2>2
<1>7. QED
  BY <1>4, <1>5, <1>6 DEF TellInv

\* The game's end has been sent; the invitation was taken back, and that was sent.
OverTold(i) ==
    istate[i] = "closed" /\ started[i] /\ \A c \in Clients : ~On(c, i, Ending)
BackTold(i) ==
    istate[i] = "closed" /\ ~started[i] /\ \A c \in Clients : ~On(c, i, Withdrawing)

\* What the source has been told: nothing, or that the invitation was declined
\* (back), until the target's thread has told it of the game (on, telling).
SourceTale(story, on, telling, moving, over, back) ==
    IF ~on THEN story = << >> \/ (back /\ story = <<"DECLINED">>)
    ELSE IF telling THEN story = Early(over)
    ELSE story \in GameTale("ACCEPTED", over, moving)

\* What the target has been told, once the source's thread has told it of the
\* invitation (telling): that and no more, that it was revoked, or the game.
TargetTale(story, on, telling, moving, over, back, left) ==
    IF telling THEN story = Early(over)
    ELSE IF on THEN story \in GameTale("INVITED", over, moving)
    ELSE \/ story = <<"INVITED">> \/ (back /\ story = <<"INVITED", "REVOKED">>)
         \/ left /\ (story = << >> \/ (back /\ story = <<"REVOKED">>))

\* The tales of an invitation's source s and target t, and that of a withdrawal
\* exactly one of the two is told.
SourceTold(i, s, t) ==
    SourceTale(sent[i][s], started[i], On(t, i, {"acc_tell"}), On(t, i, {"mv_tell"}),
               OverTold(i), BackTold(i))
TargetTold(i, s, t) ==
    TargetTale(sent[i][t], started[i], On(s, i, Making), On(s, i, {"mv_tell"}),
               OverTold(i), BackTold(i), pc[t] \in Left)
OneTold(i, s, t) ==
    BackTold(i) => (sent[i][s] = <<"DECLINED">> <=> sent[i][t] \in {<< >>, <<"INVITED">>})

ToldBoth(i, s, t) == SourceTold(i, s, t) /\ TargetTold(i, s, t) /\ OneTold(i, s, t)

\* Nobody else is told anything.
Untold ==
    \A i \in Invs, d \in Clients :
        istate[i] = "unused" \/ d \notin Ends(i) => sent[i][d] = << >>

TaleInv ==
    /\ Untold
    /\ \A i \in Invs, s, t \in Clients :
           istate[i] # "unused" /\ source[i] = s /\ target[i] = t => ToldBoth(i, s, t)

-----------------------------------------------------------------------------
\* Whom a step tells nothing.
LEMMA NotTold ==
    ASSUME NEW c \in Clients, PRecv(c) \/ PWork(c), NEW i \in Invs, NEW d \in Clients,
           ~(cur[c] = i /\ \E k \in Kind : <<d, k>> \in Packets(c))
    PROVE  sent'[i][d] = sent[i][d]
<1>1. CASE PRecv(c)
  BY <1>1 DEF PRecv
<1>2. CASE PWork(c)
  <2>1. sent'[i][d] = IF i = cur[c] /\ \E k \in Kind : <<d, k>> \in Packets(c)
                      THEN Hear(sent[i][d], CHOOSE k \in Kind : <<d, k>> \in Packets(c))
                      ELSE sent[i][d]
    BY <1>2 DEF PWork
  <2>2. QED
    BY <2>1
<1>3. QED
  BY <1>1, <1>2

\* And what it tells the others.
LEMMA IsTold ==
    ASSUME NEW c \in Clients, PWork(c), NEW i \in Invs, cur[c] = i, NEW d \in Clients,
           NEW k \in Kind, <<d, k>> \in Packets(c),
           \A l \in Kind : <<d, l>> \in Packets(c) => l = k
    PROVE  sent'[i][d] = Hear(sent[i][d], k)
<1>1. (CHOOSE l \in Kind : <<d, l>> \in Packets(c)) = k
  OBVIOUS
<1>2. sent'[i][d] = Hear(sent[i][d], CHOOSE l \in Kind : <<d, l>> \in Packets(c))
  BY DEF PWork
<1>3. QED
  BY <1>1, <1>2

\* The packets, label by label.
LEMMA PacketsAt ==
    ASSUME NEW c \in Clients, NEW i \in Invs, cur[c] = i, NEW d, NEW k
    PROVE  /\ pc[c] \notin Saying => <<d, k>> \notin Packets(c)
           /\ pc[c] = "invite_end" => (<<d, k>> \in Packets(c) <=> d = target[i] /\ k = "INVITED")
           /\ pc[c] = "notify" =>
                  (<<d, k>> \in Packets(c) <=>
                       d = Peer(c, i) /\ k = IF source[i] = c THEN "REVOKED" ELSE "DECLINED")
           /\ pc[c] = "acc_tell" => (<<d, k>> \in Packets(c) <=> d = source[i] /\ k = "ACCEPTED")
           /\ pc[c] = "mv_tell" => (<<d, k>> \in Packets(c) <=> d = Peer(c, i) /\ k = "MOVED")
           /\ pc[c] = "post" => (<<d, k>> \in Packets(c) <=> d \in {c, Peer(c, i)} /\ k = "ENDED")
BY DEF Packets, Saying

\* At a label where nothing is said, nobody is told anything.
LEMMA Silent ==
    ASSUME NEW c \in Clients, PRecv(c) \/ PWork(c), NEW i \in Invs, ~On(c, i, Saying),
           NEW d \in Clients
    PROVE  sent'[i][d] = sent[i][d]
<1>1. ASSUME cur[c] = i, NEW k \in Kind PROVE <<d, k>> \notin Packets(c)
  BY <1>1, PacketsAt DEF On
<1>2. QED
  BY <1>1, NotTold

\* Only the two ends are told anything.
LEMMA UntoldNext ==
    ASSUME CInv, TellInv, Untold, NEW c \in Clients, PRecv(c) \/ PWork(c)
    PROVE  Untold'
<1>1. TInv /\ EInv /\ (Recv(c) \/ Work(c))
  BY DEF CInv, PRecv, PWork
<1> SUFFICES ASSUME NEW i \in Invs, NEW d \in Clients, istate'[i] = "unused" \/ (d \notin Ends(i))'
             PROVE  sent'[i][d] = << >>
  BY DEF Untold
<1>2. CASE istate[i] = "unused"
  <2>1. ~On(c, i, Saying)
    BY <1>1, <1>2 DEF On, EInv, Saying, WithInv, Label
  <2>2. QED
    BY <1>2, <2>1, Silent DEF Untold
<1>3. CASE istate[i] # "unused"
  <2>1. source'[i] = source[i] /\ target'[i] = target[i] /\ istate'[i] # "unused"
    BY <1>1, <1>3, StateKept
  <2>2. d \notin Ends(i)
    BY <2>1 DEF Ends
  <2>3. cur[c] = i /\ pc[c] \in Saying => c \in Ends(i)
    BY <1>1 DEF EInv, Saying, WithInv, Label
  <2>4. cur[c] = i => \A k \in Kind : <<d, k>> \notin Packets(c)
    BY <2>2, <2>3, PacketsAt DEF Ends, Peer, Saying
  <2>5. sent'[i][d] = sent[i][d]
    BY <2>4, NotTold
  <2>6. QED
    BY <2>2, <2>5 DEF Untold
<1>4. QED
  BY <1>2, <1>3

\* Packets are received by threads that wait for one.
LEMMA Occupied ==
    ASSUME NEW c \in Clients, PRecv(c) \/ PWork(c), pc[c] \notin {"new", "idle"}
    PROVE  PWork(c)
BY DEF PRecv, Recv, Connect, RecvLogin, EndOfInput, RecvInvite, RecvRevoke, RecvDecline,
       RecvAccept, RecvResign, RecvMove, Request

-----------------------------------------------------------------------------
\* A sequence and one element more.
LEMMA AppendIs ==
    ASSUME NEW U, NEW s \in Seq(U), NEW k \in U, NEW r \in Seq(U), Len(r) = Len(s) + 1,
           \A n \in 1..Len(s) : r[n] = s[n], r[Len(s) + 1] = k
    PROVE  Append(s, k) = r
<1>1. /\ Append(s, k) \in Seq(U) /\ Len(Append(s, k)) = Len(s) + 1
      /\ \A n \in 1..Len(s) : Append(s, k)[n] = s[n]
      /\ Append(s, k)[Len(s) + 1] = k
  BY AppendProperties
<1>2. Len(s) \in Nat
  BY LenProperties
<1>3. \A n \in 1..Len(Append(s, k)) : Append(s, k)[n] = r[n]
  BY <1>1, <1>2
<1>4. QED
  BY <1>1, <1>3, SeqEqual

\* The next packet of a short story.
LEMMA HearFirst == ASSUME NEW k PROVE Hear(<< >>, k) = <<k>>
BY DEF Hear

LEMMA HearSecond ==
    ASSUME NEW a, NEW k, ~(a = "MOVED" /\ k = "MOVED") PROVE Hear(<<a>>, k) = <<a, k>>
<1> DEFINE U == {a, k}
           s == <<a>>
           r == <<a, k>>
<1>1. s \in Seq(U) /\ r \in Seq(U) /\ k \in U
  OBVIOUS
<1>2. Len(s) = 1 /\ Len(r) = Len(s) + 1 /\ \A n \in 1..Len(s) : r[n] = s[n]
  OBVIOUS
<1>3. r[Len(s) + 1] = k /\ s[Len(s)] = a
  OBVIOUS
<1> HIDE DEF U, s, r
<1>4. Append(s, k) = r
  BY <1>1, <1>2, <1>3, AppendIs
<1>5. Hear(s, k) = r
  BY <1>3, <1>4 DEF Hear
<1>6. QED
  BY <1>5 DEF s, r

LEMMA HearThird ==
    ASSUME NEW a, NEW b, NEW k, ~(b = "MOVED" /\ k = "MOVED")
    PROVE  Hear(<<a, b>>, k) = <<a, b, k>>
<1> DEFINE U == {a, b, k}
           s == <<a, b>>
           r == <<a, b, k>>
<1>1. s \in Seq(U) /\ r \in Seq(U) /\ k \in U
  OBVIOUS
<1>2. Len(s) = 2 /\ Len(r) = Len(s) + 1 /\ \A n \in 1..Len(s) : r[n] = s[n]
  OBVIOUS
<1>3. r[Len(s) + 1] = k /\ s[Len(s)] = b
  OBVIOUS
<1> HIDE DEF U, s, r
<1>4. Append(s, k) = r
  BY <1>1, <1>2, <1>3, AppendIs
<1>5. Hear(s, k) = r
  BY <1>3, <1>4 DEF Hear
<1>6. QED
  BY <1>5 DEF s, r

LEMMA HearFourth ==
    ASSUME NEW a, NEW b, NEW e, NEW k, ~(e = "MOVED" /\ k = "MOVED")
    PROVE  Hear(<<a, b, e>>, k) = <<a, b, e, k>>
<1> DEFINE U == {a, b, e, k}
           s == <<a, b, e>>
           r == <<a, b, e, k>>
<1>1. s \in Seq(U) /\ r \in Seq(U) /\ k \in U
  OBVIOUS
<1>2. Len(s) = 3 /\ Len(r) = Len(s) + 1 /\ \A n \in 1..Len(s) : r[n] = s[n]
  OBVIOUS
<1>3. r[Len(s) + 1] = k /\ s[Len(s)] = e
  OBVIOUS
<1> HIDE DEF U, s, r
<1>4. Append(s, k) = r
  BY <1>1, <1>2, <1>3, AppendIs
<1>5. Hear(s, k) = r
  BY <1>3, <1>4 DEF Hear
<1>6. QED
  BY <1>5 DEF s, r

LEMMA HearMoved == ASSUME NEW a PROVE Hear(<<a, "MOVED">>, "MOVED") = <<a, "MOVED">>
BY DEF Hear

\* What is told of a game, packet by packet.
LEMMA HearGame ==
    ASSUME NEW f \in {"ACCEPTED", "INVITED"}, NEW over \in BOOLEAN, NEW busy \in BOOLEAN, NEW t
    PROVE  /\ t = Early(over) => Hear(t, f) \in GameTale(f, over, FALSE)
           /\ t \in GameTale(f, over, TRUE) => Hear(t, "MOVED") \in GameTale(f, over, FALSE)
           /\ t = Early(FALSE) => Hear(t, "ENDED") = Early(TRUE)
           /\ t \in GameTale(f, FALSE, busy) => Hear(t, "ENDED") \in GameTale(f, TRUE, TRUE)
           /\ t \in GameTale(f, over, TRUE) => t \in GameTale(f, over, FALSE)
           /\ t \in GameTale(f, FALSE, busy) => t \in GameTale(f, FALSE, TRUE)
<1>1. t = Early(over) => Hear(t, f) \in GameTale(f, over, FALSE)
  <2>1. Hear(<< >>, f) = <<f>>
    BY HearFirst
  <2>2. Hear(<<"ENDED">>, f) = <<"ENDED", f>>
    BY HearSecond
  <2>3. QED
    BY <2>1, <2>2 DEF Early, GameTale
<1>2. t \in GameTale(f, over, TRUE) => Hear(t, "MOVED") \in GameTale(f, over, FALSE)
  <2>1. Hear(<<f>>, "MOVED") = <<f, "MOVED">>
    BY HearSecond
  <2>2. Hear(<<f, "MOVED">>, "MOVED") = <<f, "MOVED">>
    BY HearMoved
  <2>3. Hear(<<f, "ENDED">>, "MOVED") = <<f, "ENDED", "MOVED">>
    BY HearThird
  <2>4. Hear(<<f, "MOVED", "ENDED">>, "MOVED") = <<f, "MOVED", "ENDED", "MOVED">>
    BY HearFourth
  <2>5. QED
    BY <2>1, <2>2, <2>3, <2>4 DEF GameTale
<1>3. t = Early(FALSE) => Hear(t, "ENDED") = Early(TRUE)
  BY HearFirst DEF Early
<1>4. t \in GameTale(f, FALSE, busy) => Hear(t, "ENDED") \in GameTale(f, TRUE, TRUE)
  <2>1. Hear(<<f>>, "ENDED") = <<f, "ENDED">>
    BY HearSecond
  <2>2. Hear(<<f, "MOVED">>, "ENDED") = <<f, "MOVED", "ENDED">>
    BY HearThird
  <2>3. QED
    BY <2>1, <2>2 DEF GameTale
<1>5. t \in GameTale(f, over, TRUE) => t \in GameTale(f, over, FALSE)
  BY DEF GameTale
<1>6. t \in GameTale(f, FALSE, busy) => t \in GameTale(f, FALSE, TRUE)
  BY DEF GameTale
<1>7. QED
  BY <1>1, <1>2, <1>3, <1>4, <1>5, <1>6

\* Nothing is told, and what the tale depends on stays, or allows for more.
LEMMA SourceTaleKept ==
    ASSUME NEW story, NEW on, NEW telling, NEW moving, NEW over, NEW back,
           NEW on2, NEW telling2, NEW moving2, NEW over2, NEW back2,
           SourceTale(story, on, telling, moving, over, back), on2 <=> on,
           on => (telling2 <=> telling) /\ (over2 <=> over) /\ (moving2 => moving \/ ~over),
           ~on => (back => back2)
    PROVE  SourceTale(story, on2, telling2, moving2, over2, back2)
BY DEF SourceTale, GameTale, Early

-----------------------------------------------------------------------------
\* A step of the first kind.
LEMMA ToldCalm ==
    ASSUME NEW c \in Clients, PRecv(c) \/ PWork(c), NEW i \in Invs,
           NEW s \in Clients, NEW t \in Clients, CInv,
           ToldBoth(i, s, t), Calm(c, i)
    PROVE  ToldBoth(i, s, t)'
<1>1. TInv /\ (Recv(c) \/ Work(c))
  BY DEF CInv, PRecv, PWork
<1>2. \A d \in Clients : sent'[i][d] = sent[i][d]
  BY Silent DEF Calm
<1>3. \A d \in Clients :
        /\ On(d, i, Making)' <=> On(d, i, Making)
        /\ On(d, i, Withdrawing)' <=> On(d, i, Withdrawing)
        /\ On(d, i, Ending)' <=> On(d, i, Ending)
        /\ On(d, i, {"acc_tell"})' <=> On(d, i, {"acc_tell"})
        /\ On(d, i, {"mv_tell"})' <=> On(d, i, {"mv_tell"})
  BY <1>1, LabelsKept DEF Calm
<1>4. started'[i] = started[i] /\ istate'[i] = istate[i]
  BY DEF Calm, Still
<1>5. (OverTold(i)' <=> OverTold(i)) /\ (BackTold(i)' <=> BackTold(i))
  BY <1>3, <1>4 DEF OverTold, BackTold
<1>6. (pc[t] \in Left) => (pc'[t] \in Left)
  BY <1>1, LeftKept
<1>7. SourceTold(i, s, t)'
  BY <1>2, <1>3, <1>4, <1>5, SourceTaleKept DEF ToldBoth, SourceTold
<1>8. TargetTold(i, s, t)'
  <2>1. TargetTale(sent'[i][t], started[i], On(s, i, Making), On(s, i, {"mv_tell"}),
                   OverTold(i), BackTold(i), pc[t] \in Left)
    BY <1>2 DEF ToldBoth, TargetTold
  <2>2. TargetTale(sent'[i][t], started'[i], On(s, i, Making)', On(s, i, {"mv_tell"})',
                   OverTold(i)', BackTold(i)', pc'[t] \in Left)
    <3>1. /\ On(s, i, Making)' <=> On(s, i, Making)
          /\ On(s, i, {"mv_tell"})' <=> On(s, i, {"mv_tell"})
          /\ started'[i] <=> started[i]
      BY <1>3, <1>4
    <3>2. QED
      BY <1>5, <1>6, <2>1, <3>1 DEF TargetTale, GameTale, Early
  <2>3. QED
    BY <2>2 DEF TargetTold
<1>9. OneTold(i, s, t)'
  BY <1>2, <1>5 DEF ToldBoth, OneTold
<1>10. QED
  BY <1>7, <1>8, <1>9 DEF ToldBoth

\* The labels that the tales look at, of the thread that does not step.
LEMMA OthersLabels ==
    ASSUME TInv, NEW c \in Clients, Recv(c) \/ Work(c), NEW i, NEW d \in Clients \ {c}
    PROVE  /\ On(d, i, Making)' <=> On(d, i, Making)
           /\ On(d, i, Withdrawing)' <=> On(d, i, Withdrawing)
           /\ On(d, i, Ending)' <=> On(d, i, Ending)
           /\ On(d, i, {"acc_tell"})' <=> On(d, i, {"acc_tell"})
           /\ On(d, i, {"mv_tell"})' <=> On(d, i, {"mv_tell"})
BY LabelsKept

\* The target's thread accepts, and has yet to tell the source.
LEMMA ToldAccept ==
    ASSUME NEW c \in Clients, PRecv(c) \/ PWork(c), NEW i \in Invs,
           NEW s \in Clients, NEW t \in Clients, s # t, CInv, ToldBoth(i, s, t),
           Turns(c, i, "accept", "acc_tell"), c = t,
           istate[i] = "open", istate'[i] = "accepted", ~started[i], started'[i]
    PROVE  ToldBoth(i, s, t)'
<1>1. TInv /\ (Recv(c) \/ Work(c))
  BY DEF CInv, PRecv, PWork
<1>2. \A d \in Clients : sent'[i][d] = sent[i][d]
  BY Silent DEF Turns, On, Saying
<1>3. /\ On(t, i, {"acc_tell"})' /\ ~On(t, i, {"mv_tell"})' /\ pc[t] \notin Left
      /\ On(s, i, Making)' <=> On(s, i, Making)
      /\ On(s, i, {"mv_tell"})' <=> On(s, i, {"mv_tell"})
  BY <1>1, OthersLabels DEF On, Turns, Left
<1>4. ~OverTold(i) /\ ~OverTold(i)' /\ ~BackTold(i) /\ ~BackTold(i)'
  BY DEF OverTold, BackTold
<1>5. SourceTold(i, s, t)'
  BY <1>2, <1>3, <1>4 DEF ToldBoth, SourceTold, SourceTale, Early
<1>6. TargetTold(i, s, t)'
  BY <1>2, <1>3, <1>4 DEF ToldBoth, TargetTold, TargetTale, GameTale, Early
<1>7. OneTold(i, s, t)'
  BY <1>4 DEF OneTold
<1>8. QED
  BY <1>5, <1>6, <1>7 DEF ToldBoth

\* A thread goes on to close the invitation or the game, or has made a move.
LEMMA ToldQuiet ==
    ASSUME NEW c \in Clients, PRecv(c) \/ PWork(c), NEW i \in Invs,
           NEW s \in Clients, NEW t \in Clients, CInv, ToldBoth(i, s, t),
           NEW l, NEW m, Turns(c, i, l, m), started'[i] <=> started[i],
           l \notin Saying \cup Making, m \notin Making \cup {"acc_tell"},
           istate[i] # "closed",
           \/ m \in Withdrawing /\ ~started[i]
           \/ m \in Ending /\ started[i]
           \/ istate'[i] # "closed"
    PROVE  ToldBoth(i, s, t)'
<1>1. TInv /\ (Recv(c) \/ Work(c))
  BY DEF CInv, PRecv, PWork
<1>2. \A d \in Clients : sent'[i][d] = sent[i][d]
  BY Silent DEF Turns, On
<1>3. \A d \in Clients : /\ On(d, i, Making)' <=> On(d, i, Making)
                         /\ On(d, i, {"acc_tell"})' <=> On(d, i, {"acc_tell"})
  BY <1>1, OthersLabels DEF Turns, On, Saying
<1>4. ~OverTold(i) /\ ~OverTold(i)' /\ ~BackTold(i) /\ ~BackTold(i)'
  BY DEF OverTold, BackTold, Turns, On
<1>5. (pc[t] \in Left) => (pc'[t] \in Left)
  BY <1>1, LeftKept
<1>6. SourceTold(i, s, t)'
  BY <1>2, <1>3, <1>4 DEF ToldBoth, SourceTold, SourceTale, GameTale, Early
<1>7. TargetTold(i, s, t)'
  BY <1>2, <1>3, <1>4, <1>5 DEF ToldBoth, TargetTold, TargetTale, GameTale, Early
<1>8. OneTold(i, s, t)'
  BY <1>4 DEF OneTold
<1>9. QED
  BY <1>6, <1>7, <1>8 DEF ToldBoth

\* INVITED, or nothing more for who missed the invitation.
LEMMA ToldInvited ==
    ASSUME NEW c \in Clients, PRecv(c) \/ PWork(c), NEW i \in Invs,
           NEW s \in Clients, NEW t \in Clients, s # t, CInv, Missed, ToldBoth(i, s, t),
           s = c, t = target[i], Still(i),
           Done(c, i, "invite_end") \/ Done(c, i, "invite_fail")
    PROVE  ToldBoth(i, s, t)'
<1>1. TInv /\ (Recv(c) \/ Work(c))
  BY DEF CInv, PRecv, PWork
<1>2. /\ On(s, i, Making) /\ ~On(s, i, Making)' /\ ~On(s, i, {"mv_tell"})'
      /\ On(t, i, {"acc_tell"})' <=> On(t, i, {"acc_tell"})
      /\ On(t, i, {"mv_tell"})' <=> On(t, i, {"mv_tell"})
  BY <1>1, OthersLabels DEF Done, On, Making
<1>3. \A d \in Clients : /\ On(d, i, Withdrawing)' <=> On(d, i, Withdrawing)
                         /\ On(d, i, Ending)' <=> On(d, i, Ending)
  BY <1>1, OthersLabels DEF Done, On, Withdrawing, Ending
<1>4. /\ OverTold(i)' <=> OverTold(i)
      /\ BackTold(i)' <=> BackTold(i)
      /\ OverTold(i) => started[i]
      /\ BackTold(i) => ~started[i]
      /\ started'[i] = started[i]
  BY <1>3 DEF OverTold, BackTold, Still
<1>5. \A k : cur[c] = i => <<s, k>> \notin Packets(c)
  BY PacketsAt DEF Done, Saying
<1>6. sent'[i][s] = sent[i][s]
  BY <1>5, NotTold
<1>7. SourceTold(i, s, t)'
  BY <1>2, <1>4, <1>6 DEF ToldBoth, SourceTold, SourceTale, GameTale, Early
<1>8. sent[i][t] = Early(OverTold(i))
  BY <1>2 DEF ToldBoth, TargetTold, TargetTale
<1>9. CASE pc[c] = "invite_end"
  <2>1. PWork(c) /\ cur[c] = i
    BY <1>9, Occupied DEF Done
  <2>2. \A k : <<t, k>> \in Packets(c) <=> k = "INVITED"
    BY <1>9, <2>1, PacketsAt
  <2>3. sent'[i][t] = Hear(sent[i][t], "INVITED")
    BY <2>1, <2>2, IsTold DEF Kind
  <2>4. CASE OverTold(i)
    <3>1. sent'[i][t] = <<"ENDED", "INVITED">>
      BY <1>8, <2>3, <2>4, HearSecond DEF Early
    <3>2. QED
      BY <1>2, <1>4, <1>7, <2>4, <3>1 DEF ToldBoth, TargetTold, TargetTale, GameTale, OneTold
  <2>5. CASE ~OverTold(i)
    <3>1. sent[i][t] = << >> /\ sent'[i][t] = <<"INVITED">>
      BY <1>8, <2>3, <2>5, HearFirst DEF Early
    <3>2. TargetTold(i, s, t)'
      BY <1>2, <1>4, <2>5, <3>1 DEF TargetTold, TargetTale, GameTale
    <3>3. OneTold(i, s, t)'
      BY <1>4, <1>6, <3>1 DEF ToldBoth, OneTold
    <3>4. QED
      BY <1>7, <3>2, <3>3 DEF ToldBoth
  <2>6. QED
    BY <2>4, <2>5
<1>10. CASE pc[c] = "invite_fail"
  <2>1. sent'[i][t] = sent[i][t]
    BY <1>10, Silent DEF On, Saying
  <2>2. ~started[i] /\ pc[t] \in Left
    BY <1>10 DEF Missed, Done
  <2>3. pc'[t] \in Left
    BY <1>1, <2>2, LeftKept
  <2>4. sent'[i][t] = << >>
    BY <1>4, <1>8, <2>1, <2>2 DEF Early
  <2>5. TargetTold(i, s, t)'
    BY <1>2, <1>4, <2>2, <2>3, <2>4 DEF TargetTold, TargetTale
  <2>6. OneTold(i, s, t)'
    BY <1>4, <1>6, <2>1 DEF ToldBoth, OneTold
  <2>7. QED
    BY <1>7, <2>5, <2>6 DEF ToldBoth
<1>11. QED
  BY <1>9, <1>10 DEF Done

\* DECLINED, or REVOKED.
LEMMA ToldBack ==
    ASSUME NEW c \in Clients, PRecv(c) \/ PWork(c), NEW i \in Invs,
           NEW s \in Clients, NEW t \in Clients, s # t, CInv, Withdrawals, ToldBoth(i, s, t),
           s = source[i], t = target[i], c \in {s, t}, Still(i), Done(c, i, "notify")
    PROVE  ToldBoth(i, s, t)'
<1>1. TInv /\ (Recv(c) \/ Work(c))
  BY DEF CInv, PRecv, PWork
<1>2. /\ istate[i] = "closed" /\ ~started[i] /\ istate'[i] = "closed" /\ ~started'[i]
      /\ On(c, i, Withdrawing) /\ ~On(c, i, Withdrawing)'
      /\ \A d \in Clients \ {c} : ~On(d, i, Withdrawing)
  BY DEF Withdrawals, Done, On, Withdrawing, Still
<1>3. ~BackTold(i) /\ BackTold(i)' /\ ~OverTold(i) /\ ~OverTold(i)'
  BY <1>1, <1>2, OthersLabels DEF BackTold, OverTold
<1>4. On(s, i, Making)' <=> On(s, i, Making)
  BY <1>1, OthersLabels DEF Done, On, Making
<1>5. (pc[t] \in Left) => (pc'[t] \in Left)
  BY <1>1, LeftKept
<1>6. PWork(c) /\ cur[c] = i /\ pc[c] = "notify"
  BY Occupied DEF Done
<1>7. sent[i][s] = << >>
  BY <1>2, <1>3 DEF ToldBoth, SourceTold, SourceTale
<1>8. CASE c = t
  <2>1. /\ \A k : <<s, k>> \in Packets(c) <=> k = "DECLINED"
        /\ \A k : <<t, k>> \notin Packets(c)
    BY <1>6, <1>8, PacketsAt DEF Peer
  <2>2. sent'[i][s] = Hear(sent[i][s], "DECLINED")
    <3>1. "DECLINED" \in Kind /\ <<s, "DECLINED">> \in Packets(c)
      BY <2>1 DEF Kind
    <3>2. QED
      BY <1>6, <2>1, <3>1, IsTold
  <2>3. sent'[i][s] = <<"DECLINED">>
    BY <1>7, <2>2, HearFirst
  <2>4. sent'[i][t] = sent[i][t]
    BY <2>1, NotTold
  <2>5. pc[t] \notin Left
    BY <1>6, <1>8 DEF Left
  <2>6. sent[i][t] \in {<< >>, <<"INVITED">>}
    BY <1>2, <1>3 DEF ToldBoth, TargetTold, TargetTale, Early
  <2>7. SourceTold(i, s, t)'
    BY <1>2, <1>3, <2>3 DEF SourceTold, SourceTale
  <2>8. TargetTold(i, s, t)'
    BY <1>2, <1>3, <1>4, <1>5, <2>4 DEF ToldBoth, TargetTold, TargetTale, Early
  <2>9. OneTold(i, s, t)'
    BY <2>3, <2>4, <2>6 DEF OneTold
  <2>10. QED
    BY <2>7, <2>8, <2>9 DEF ToldBoth
<1>9. CASE c = s
  <2>1. /\ \A k : <<t, k>> \in Packets(c) <=> k = "REVOKED"
        /\ \A k : <<s, k>> \notin Packets(c)
    BY <1>6, <1>9, PacketsAt DEF Peer
  <2>2. sent'[i][t] = Hear(sent[i][t], "REVOKED")
    <3>1. "REVOKED" \in Kind /\ <<t, "REVOKED">> \in Packets(c)
      BY <2>1 DEF Kind
    <3>2. QED
      BY <1>6, <2>1, <3>1, IsTold
  <2>3. sent'[i][s] = << >>
    BY <1>7, <2>1, NotTold
  <2>4. ~On(s, i, Making)
    BY <1>6, <1>9 DEF On, Making
  <2>5. sent[i][t] = <<"INVITED">> \/ (pc[t] \in Left /\ sent[i][t] = << >>)
    BY <1>2, <1>3, <2>4 DEF ToldBoth, TargetTold, TargetTale
  <2>6. \/ sent'[i][t] = <<"INVITED", "REVOKED">>
        \/ pc'[t] \in Left /\ sent'[i][t] = <<"REVOKED">>
    BY <1>5, <2>2, <2>5, HearFirst, HearSecond
  <2>7. SourceTold(i, s, t)'
    BY <1>2, <2>3 DEF SourceTold, SourceTale
  <2>8. TargetTold(i, s, t)'
    BY <1>2, <1>3, <1>4, <2>4, <2>6 DEF TargetTold, TargetTale
  <2>9. OneTold(i, s, t)'
    <3>1. sent'[i][s] # <<"DECLINED">>
      BY <2>3
    <3>2. sent'[i][t] \notin {<< >>, <<"INVITED">>}
      <4>1. CASE sent'[i][t] = <<"INVITED", "REVOKED">>
        BY <4>1
      <4>2. CASE sent'[i][t] = <<"REVOKED">>
        BY <4>2
      <4>3. QED
        BY <2>6, <4>1, <4>2
    <3>3. QED
      BY <3>1, <3>2 DEF OneTold
  <2>10. QED
    BY <2>7, <2>8, <2>9 DEF ToldBoth
<1>10. QED
  BY <1>8, <1>9

\* ACCEPTED, from the target's thread.
LEMMA ToldAccepted ==
    ASSUME NEW c \in Clients, PWork(c), NEW i \in Invs,
           NEW s \in Clients, NEW t \in Clients, s # t, CInv, ToldBoth(i, s, t),
           s = source[i], c = t, started[i], Still(i), Turns(c, i, "acc_tell", "finish")
    PROVE  ToldBoth(i, s, t)'
<1>1. TInv /\ (Recv(c) \/ Work(c))
  BY DEF CInv, PWork
<1>2. /\ On(t, i, {"acc_tell"}) /\ ~On(t, i, {"acc_tell"})' /\ ~On(t, i, {"mv_tell"})'
      /\ On(s, i, Making)' <=> On(s, i, Making)
      /\ On(s, i, {"mv_tell"})' <=> On(s, i, {"mv_tell"})
  BY <1>1, OthersLabels DEF Turns, On
<1>3. \A d \in Clients : On(d, i, Ending)' <=> On(d, i, Ending)
  BY <1>1, OthersLabels DEF Turns, On, Ending
<1>4. /\ OverTold(i)' <=> OverTold(i)
      /\ ~BackTold(i)' /\ started'[i]
  BY <1>3 DEF OverTold, BackTold, Still
<1>5. /\ \A k : <<s, k>> \in Packets(c) <=> k = "ACCEPTED"
      /\ \A k : <<t, k>> \notin Packets(c)
  BY PacketsAt DEF Turns
<1>6. "ACCEPTED" \in Kind /\ <<s, "ACCEPTED">> \in Packets(c) /\ cur[c] = i
  BY <1>5 DEF Kind, Turns
<1>7. sent'[i][s] = Hear(sent[i][s], "ACCEPTED")
  BY <1>5, <1>6, IsTold
<1>8. sent'[i][t] = sent[i][t]
  BY <1>5, NotTold
<1>9. sent[i][s] = Early(OverTold(i))
  BY <1>2 DEF ToldBoth, SourceTold, SourceTale
<1>10. SourceTold(i, s, t)'
  <2>1. CASE OverTold(i)
    <3>1. sent'[i][s] = <<"ENDED", "ACCEPTED">>
      BY <1>7, <1>9, <2>1, HearSecond DEF Early
    <3>2. QED
      BY <1>2, <1>4, <2>1, <3>1 DEF SourceTold, SourceTale, GameTale
  <2>2. CASE ~OverTold(i)
    <3>1. sent'[i][s] = <<"ACCEPTED">>
      BY <1>7, <1>9, <2>2, HearFirst DEF Early
    <3>2. QED
      BY <1>2, <1>4, <2>2, <3>1 DEF SourceTold, SourceTale, GameTale
  <2>3. QED
    BY <2>1, <2>2
<1>11. TargetTold(i, s, t)'
  BY <1>2, <1>4, <1>8 DEF ToldBoth, TargetTold, TargetTale, GameTale, Early
<1>12. OneTold(i, s, t)'
  BY <1>4 DEF OneTold
<1>13. QED
  BY <1>10, <1>11, <1>12 DEF ToldBoth

\* MOVED, from either thread to the other client.
LEMMA ToldMoved ==
    ASSUME NEW c \in Clients, PWork(c), NEW i \in Invs,
           NEW s \in Clients, NEW t \in Clients, s # t, CInv, ToldBoth(i, s, t),
           s = source[i], t = target[i], c \in {s, t}, started[i], Still(i),
           Turns(c, i, "mv_tell", "mv_over")
    PROVE  ToldBoth(i, s, t)'
<1>1. TInv /\ (Recv(c) \/ Work(c))
  BY DEF CInv, PWork
<1>2. /\ \A d \in Clients : /\ On(d, i, Ending)' <=> On(d, i, Ending)
                            /\ On(d, i, {"acc_tell"})' <=> On(d, i, {"acc_tell"})
                            /\ On(d, i, Making)' <=> On(d, i, Making)
      /\ On(c, i, {"mv_tell"}) /\ ~On(c, i, {"mv_tell"})'
      /\ ~On(c, i, {"acc_tell"}) /\ ~On(c, i, Making)
      /\ \A d \in Clients \ {c} : On(d, i, {"mv_tell"})' <=> On(d, i, {"mv_tell"})
  BY <1>1, OthersLabels DEF Turns, On, Ending, Making
<1>3. /\ OverTold(i)' <=> OverTold(i)
      /\ ~BackTold(i)' /\ started'[i]
  BY <1>2 DEF OverTold, BackTold, Still
<1>4. OneTold(i, s, t)'
  BY <1>3 DEF OneTold
<1>5. CASE c = t
  <2>1. /\ \A k : <<s, k>> \in Packets(c) <=> k = "MOVED"
        /\ \A k : <<t, k>> \notin Packets(c)
    BY <1>5, PacketsAt DEF Turns, Peer
  <2>2. "MOVED" \in Kind /\ <<s, "MOVED">> \in Packets(c) /\ cur[c] = i
    BY <2>1 DEF Kind, Turns
  <2>3. sent'[i][s] = Hear(sent[i][s], "MOVED")
    BY <2>1, <2>2, IsTold
  <2>4. sent'[i][t] = sent[i][t]
    BY <2>1, NotTold
  <2>5. SourceTold(i, s, t)'
    <3>1. CASE OverTold(i)
      <4>1. sent[i][s] \in GameTale("ACCEPTED", TRUE, TRUE)
        BY <1>2, <1>5, <3>1 DEF ToldBoth, SourceTold, SourceTale, GameTale
      <4>2. sent'[i][s] \in GameTale("ACCEPTED", TRUE, FALSE)
        BY <2>3, <4>1, HearGame
      <4>3. QED
        BY <1>2, <1>3, <1>5, <3>1, <4>2 DEF SourceTold, SourceTale, GameTale
    <3>2. CASE ~OverTold(i)
      <4>1. sent[i][s] \in GameTale("ACCEPTED", FALSE, TRUE)
        BY <1>2, <1>5, <3>2 DEF ToldBoth, SourceTold, SourceTale, GameTale
      <4>2. sent'[i][s] \in GameTale("ACCEPTED", FALSE, FALSE)
        BY <2>3, <4>1, HearGame
      <4>3. QED
        BY <1>2, <1>3, <1>5, <3>2, <4>2 DEF SourceTold, SourceTale, GameTale
    <3>3. QED
      BY <3>1, <3>2
  <2>6. TargetTold(i, s, t)'
    BY <1>2, <1>3, <1>5, <2>4 DEF ToldBoth, TargetTold, TargetTale, GameTale, Early
  <2>7. QED
    BY <1>4, <2>5, <2>6 DEF ToldBoth
<1>6. CASE c = s
  <2>1. /\ \A k : <<t, k>> \in Packets(c) <=> k = "MOVED"
        /\ \A k : <<s, k>> \notin Packets(c)
    BY <1>6, PacketsAt DEF Turns, Peer
  <2>2. "MOVED" \in Kind /\ <<t, "MOVED">> \in Packets(c) /\ cur[c] = i
    BY <2>1 DEF Kind, Turns
  <2>3. sent'[i][t] = Hear(sent[i][t], "MOVED")
    BY <2>1, <2>2, IsTold
  <2>4. sent'[i][s] = sent[i][s]
    BY <2>1, NotTold
  <2>5. TargetTold(i, s, t)'
    <3>1. CASE OverTold(i)
      <4>1. sent[i][t] \in GameTale("INVITED", TRUE, TRUE)
        BY <1>2, <1>6, <3>1 DEF ToldBoth, TargetTold, TargetTale, GameTale
      <4>2. sent'[i][t] \in GameTale("INVITED", TRUE, FALSE)
        BY <2>3, <4>1, HearGame
      <4>3. QED
        BY <1>2, <1>3, <1>6, <3>1, <4>2 DEF TargetTold, TargetTale, GameTale
    <3>2. CASE ~OverTold(i)
      <4>1. sent[i][t] \in GameTale("INVITED", FALSE, TRUE)
        BY <1>2, <1>6, <3>2 DEF ToldBoth, TargetTold, TargetTale, GameTale
      <4>2. sent'[i][t] \in GameTale("INVITED", FALSE, FALSE)
        BY <2>3, <4>1, HearGame
      <4>3. QED
        BY <1>2, <1>3, <1>6, <3>2, <4>2 DEF TargetTold, TargetTale, GameTale
    <3>3. QED
      BY <3>1, <3>2
  <2>6. SourceTold(i, s, t)'
    BY <1>2, <1>3, <1>6, <2>4 DEF ToldBoth, SourceTold, SourceTale, GameTale, Early
  <2>7. QED
    BY <1>4, <2>5, <2>6 DEF ToldBoth
<1>7. QED
  BY <1>5, <1>6

\* ENDED, to both clients.
LEMMA ToldEnded ==
    ASSUME NEW c \in Clients, PWork(c), NEW i \in Invs,
           NEW s \in Clients, NEW t \in Clients, s # t, CInv, ToldBoth(i, s, t),
           s = source[i], t = target[i], c \in {s, t}, Still(i), Turns(c, i, "post", "finish")
    PROVE  ToldBoth(i, s, t)'
<1>1. TInv /\ (Recv(c) \/ Work(c)) /\ SingleCloser
  BY DEF CInv, PWork
<1>2. /\ istate[i] = "closed" /\ started[i] /\ istate'[i] = "closed" /\ started'[i]
      /\ On(c, i, Ending) /\ ~On(c, i, Ending)'
      /\ \A d \in Clients \ {c} : ~On(d, i, Ending)
  BY <1>1 DEF SingleCloser, Turns, On, Closing, Ending, Still
<1>3. ~OverTold(i) /\ OverTold(i)' /\ ~BackTold(i)'
  BY <1>1, <1>2, OthersLabels DEF BackTold, OverTold
<1>4. \A d \in Clients : /\ On(d, i, {"acc_tell"})' <=> On(d, i, {"acc_tell"})
                         /\ On(d, i, {"mv_tell"})' <=> On(d, i, {"mv_tell"})
                         /\ On(d, i, Making)' <=> On(d, i, Making)
  BY <1>1, OthersLabels DEF Turns, On, Making
<1>5. /\ \A k : <<s, k>> \in Packets(c) <=> k = "ENDED"
      /\ \A k : <<t, k>> \in Packets(c) <=> k = "ENDED"
  BY PacketsAt DEF Turns, Peer
<1>6. /\ "ENDED" \in Kind /\ cur[c] = i
      /\ <<s, "ENDED">> \in Packets(c) /\ <<t, "ENDED">> \in Packets(c)
  BY <1>5 DEF Kind, Turns
<1>7. sent'[i][s] = Hear(sent[i][s], "ENDED")
  BY <1>5, <1>6, IsTold
<1>8. sent'[i][t] = Hear(sent[i][t], "ENDED")
  BY <1>5, <1>6, IsTold
<1>9. SourceTold(i, s, t)'
  <2>1. CASE On(t, i, {"acc_tell"})
    <3>1. sent[i][s] = Early(FALSE)
      BY <1>2, <1>3, <2>1 DEF ToldBoth, SourceTold, SourceTale, Early
    <3>2. sent'[i][s] = Early(TRUE)
      BY <1>7, <3>1, HearGame
    <3>3. QED
      BY <1>2, <1>3, <1>4, <2>1, <3>2 DEF SourceTold, SourceTale, Early
  <2>2. CASE ~On(t, i, {"acc_tell"})
    <3>1. sent[i][s] \in GameTale("ACCEPTED", FALSE, TRUE)
      BY <1>2, <1>3, <2>2 DEF ToldBoth, SourceTold, SourceTale, GameTale
    <3>2. sent'[i][s] \in GameTale("ACCEPTED", TRUE, TRUE)
      BY <1>7, <3>1, HearGame
    <3>3. QED
      BY <1>2, <1>3, <1>4, <2>2, <3>2 DEF SourceTold, SourceTale, GameTale
  <2>3. QED
    BY <2>1, <2>2
<1>10. TargetTold(i, s, t)'
  <2>1. CASE On(s, i, Making)
    <3>1. sent[i][t] = Early(FALSE)
      BY <1>2, <1>3, <2>1 DEF ToldBoth, TargetTold, TargetTale, Early
    <3>2. sent'[i][t] = Early(TRUE)
      BY <1>8, <3>1, HearGame
    <3>3. QED
      BY <1>2, <1>3, <1>4, <2>1, <3>2 DEF TargetTold, TargetTale, Early
  <2>2. CASE ~On(s, i, Making)
    <3>1. sent[i][t] \in GameTale("INVITED", FALSE, TRUE)
      BY <1>2, <1>3, <2>2 DEF ToldBoth, TargetTold, TargetTale, GameTale
    <3>2. sent'[i][t] \in GameTale("INVITED", TRUE, TRUE)
      BY <1>8, <3>1, HearGame
    <3>3. QED
      BY <1>2, <1>3, <1>4, <2>2, <3>2 DEF TargetTold, TargetTale, GameTale
  <2>3. QED
    BY <2>1, <2>2
<1>11. OneTold(i, s, t)'
  BY <1>3 DEF OneTold
<1>12. QED
  BY <1>9, <1>10, <1>11 DEF ToldBoth

\* Every step keeps the tales, kind by kind.
LEMMA TaleNext ==
    ASSUME CInv, ListInv, TellInv, TaleInv, NEW c \in Clients, PRecv(c) \/ PWork(c)
    PROVE  TaleInv'
<1>1. TInv /\ EInv /\ (Recv(c) \/ Work(c))
  BY DEF CInv, PRecv, PWork
<1>2. Untold'
  BY UntoldNext DEF TaleInv
<1> SUFFICES ASSUME NEW i \in Invs, NEW s \in Clients, NEW t \in Clients,
                    istate'[i] # "unused", source'[i] = s, target'[i] = t
             PROVE  ToldBoth(i, s, t)'
  BY <1>2 DEF TaleInv
<1>3. Kinds(c, i)
  BY <1>1, StepKinds
<1>4. CASE istate[i] = "unused"
  <2>1. ~On(c, i, Saying) /\ ~On(c, i, WithInv)
    BY <1>1, <1>4 DEF EInv, On, Saying, WithInv, Label
  <2>2. /\ istate'[i] = "open" /\ ~started'[i] /\ s = c
        /\ cur'[c] = i /\ pc'[c] = "add_source"
    BY <1>3, <1>4, <2>1 DEF Kinds, Calm, Still, Turns, Done, On, WithInv, Label
  <2>3. sent'[i][s] = << >> /\ sent'[i][t] = << >>
    BY <1>4, <2>1, Silent DEF TaleInv, Untold
  <2>4. On(s, i, Making)' /\ ~OverTold(i)' /\ ~BackTold(i)'
    BY <2>2 DEF On, Making, OverTold, BackTold
  <2>5. SourceTold(i, s, t)'
    BY <2>2, <2>3 DEF SourceTold, SourceTale
  <2>6. TargetTold(i, s, t)'
    BY <2>3, <2>4 DEF TargetTold, TargetTale, Early
  <2>7. OneTold(i, s, t)'
    BY <2>4 DEF OneTold
  <2>8. QED
    BY <2>5, <2>6, <2>7 DEF ToldBoth
<1>5. CASE istate[i] # "unused"
  <2>1. source[i] = s /\ target[i] = t /\ s # t
    BY <1>1, <1>5, StateKept DEF EInv
  <2>2. ToldBoth(i, s, t)
    BY <1>5, <2>1 DEF TaleInv
  <2>3. cur[c] = i /\ pc[c] \in WithInv => c \in {s, t}
    BY <1>1, <2>1 DEF EInv, Ends
  <2>4. CASE Calm(c, i)
    BY <2>2, <2>4, ToldCalm
  <2>5. CASE Still(i) /\ (Done(c, i, "invite_end") \/ Done(c, i, "invite_fail"))
    <3>1. s = c
      BY <2>1, <2>5 DEF Done, TellInv, Parts, Making
    <3>2. QED
      BY <2>1, <2>2, <2>5, <3>1, ToldInvited DEF TellInv
  <2>6. CASE Still(i) /\ Done(c, i, "notify")
    <3>1. c \in {s, t}
      BY <2>3, <2>6 DEF Done, WithInv, Label
    <3>2. QED
      BY <2>1, <2>2, <2>6, <3>1, ToldBack DEF TellInv
  <2>7. CASE Still(i) /\ Turns(c, i, "acc_tell", "finish")
    <3>1. PWork(c) /\ c = t /\ started[i]
      BY <2>1, <2>7, Occupied DEF Turns, TellInv, Parts
    <3>2. QED
      BY <2>1, <2>2, <2>7, <3>1, ToldAccepted
  <2>8. CASE Still(i) /\ Turns(c, i, "mv_tell", "mv_over")
    <3>1. PWork(c) /\ c \in {s, t} /\ started[i]
      BY <2>3, <2>8, Occupied DEF Turns, TellInv, Parts, WithInv, Label
    <3>2. QED
      BY <2>1, <2>2, <2>8, <3>1, ToldMoved
  <2>9. CASE Still(i) /\ Turns(c, i, "post", "finish")
    <3>1. PWork(c) /\ c \in {s, t}
      BY <2>3, <2>9, Occupied DEF Turns, WithInv, Label
    <3>2. QED
      BY <2>1, <2>2, <2>9, <3>1, ToldEnded
  <2>10. CASE Still(i) /\ Turns(c, i, "move", "mv_tell") /\ istate[i] = "accepted"
    <3>1. "move" \notin Saying \cup Making /\ "mv_tell" \notin Making \cup {"acc_tell"}
      BY DEF Saying, Making
    <3>2. QED
      BY <2>2, <2>10, <3>1, ToldQuiet DEF Still
  <2>11. CASE /\ Turns(c, i, "close", "rm_source")
              /\ istate[i] = "open" /\ istate'[i] = "closed" /\ ~started[i] /\ ~started'[i]
    <3>1. "close" \notin Saying \cup Making /\ "rm_source" \notin Making \cup {"acc_tell"}
      BY DEF Saying, Making
    <3>2. "rm_source" \in Withdrawing
      BY DEF Withdrawing
    <3>3. QED
      BY <2>2, <2>11, <3>1, <3>2, ToldQuiet
  <2>12. CASE /\ Turns(c, i, "accept", "acc_tell")
              /\ istate[i] = "open" /\ istate'[i] = "accepted" /\ ~started[i] /\ started'[i]
    <3>1. c = t
      BY <2>1, <2>12 DEF Turns, ListInv, Accepting
    <3>2. QED
      BY <2>1, <2>2, <2>12, <3>1, ToldAccept
  <2>13. CASE /\ Turns(c, i, "resign", "rm_own") \/ Turns(c, i, "mv_over", "rm_own")
              /\ istate[i] = "accepted" /\ istate'[i] = "closed" /\ started[i] /\ started'[i]
    <3>1. /\ "resign" \notin Saying \cup Making /\ "mv_over" \notin Saying \cup Making
          /\ "rm_own" \notin Making \cup {"acc_tell"} /\ "rm_own" \in Ending
      BY DEF Saying, Making, Ending
    <3>2. QED
      BY <2>2, <2>13, <3>1, ToldQuiet
  <2>14. QED
    BY <1>3, <1>5, <2>4, <2>5, <2>6, <2>7, <2>8, <2>9, <2>10, <2>11, <2>12, <2>13 DEF Kinds
<1>6. QED
  BY <1>4, <1>5

LEMMA TaleInvariant == PSpec => [](TellInv /\ TaleInv)
<1>1. PInit => TellInv /\ TaleInv
  <2> SUFFICES ASSUME PInit PROVE TellInv /\ TaleInv
    OBVIOUS
  <2>1. /\ \A c \in Clients : pc[c] = "new"
        /\ \A i \in Invs : istate[i] = "unused"
        /\ \A i \in Invs, d \in Clients : sent[i][d] = << >>
    BY DEF PInit, Init
  <2>2. TellInv
    BY <2>1 DEF TellInv, Withdrawals, Parts, Missed, Withdrawing, Making
  <2>3. TaleInv
    BY <2>1 DEF TaleInv, Untold
  <2>4. QED
    BY <2>2, <2>3
<1>2. PInv /\ PInv' /\ Known /\ TellInv /\ TaleInv /\ [PNext]_pvars => (TellInv /\ TaleInv)'
  <2> SUFFICES ASSUME PInv, PInv', Known, TellInv, TaleInv, [PNext]_pvars
               PROVE  (TellInv /\ TaleInv)'
    OBVIOUS
  <2>1. CInv /\ CInv' /\ ListInv
    BY DEF PInv
  <2>2. CASE PNext
    <3>1. PICK c \in Clients : PRecv(c) \/ PWork(c)
      BY <2>2 DEF PNext
    <3>2. Recv(c) \/ Work(c)
      BY <3>1 DEF PRecv, PWork
    <3>3. TellInv'
      BY <2>1, <3>2, TellNext
    <3>4. TaleInv'
      BY <2>1, <3>1, TaleNext
    <3>5. QED
      BY <3>3, <3>4
  <2>3. CASE UNCHANGED pvars
    <3>1. UNCHANGED <<pc, cur, istate, started, source, target, sent>>
      BY <2>3 DEF pvars, vars, madeVars, gameVars, threadVars
    <3>2. TellInv'
      BY <3>1 DEF TellInv, Withdrawals, Parts, Missed
    <3>3. Untold'
      BY <3>1 DEF TaleInv, Untold, Ends
    <3>4. ASSUME NEW i \in Invs, NEW s \in Clients, NEW t \in Clients,
                 istate'[i] # "unused", source'[i] = s, target'[i] = t
          PROVE  ToldBoth(i, s, t)'
      <4>1. ToldBoth(i, s, t)
        BY <3>1, <3>4 DEF TaleInv
      <4>2. (OverTold(i)' <=> OverTold(i)) /\ (BackTold(i)' <=> BackTold(i))
        BY <3>1 DEF OverTold, BackTold, On
      <4>3. \A d \in Clients : /\ On(d, i, Making)' <=> On(d, i, Making)
                               /\ On(d, i, {"acc_tell"})' <=> On(d, i, {"acc_tell"})
                               /\ On(d, i, {"mv_tell"})' <=> On(d, i, {"mv_tell"})
        BY <3>1 DEF On
      <4>4. SourceTold(i, s, t)'
        BY <3>1, <4>1, <4>2, <4>3 DEF ToldBoth, SourceTold, SourceTale, GameTale, Early
      <4>5. TargetTold(i, s, t)'
        BY <3>1, <4>1, <4>2, <4>3 DEF ToldBoth, TargetTold, TargetTale, GameTale, Early
      <4>6. OneTold(i, s, t)'
        BY <3>1, <4>1, <4>2 DEF ToldBoth, OneTold
      <4>7. QED
        BY <4>4, <4>5, <4>6 DEF ToldBoth
    <3>5. QED
      BY <3>2, <3>3, <3>4 DEF TaleInv
  <2>4. QED
    BY <2>2, <2>3
<1>3. RefInv => Known
  BY DEF RefInv
<1>4. QED
  BY <1>1, <1>2, <1>3, PacketInvariant, PacketsFollow, RefInvariant, PTL DEF PSpec

\* A client is told one story of an invitation, whoever's threads send its packets.
THEOREM PacketsOneStory == PSpec => []OneStory
<1>1. PInv /\ TaleInv => OneStory
  <2> SUFFICES ASSUME PInv, TaleInv, NEW i \in Invs, NEW d \in Clients
               PROVE  sent[i][d] \in
                        IF d = source[i] THEN GameStories("ACCEPTED") \cup {<<"DECLINED">>}
                        ELSE IF d # target[i] THEN {<< >>}
                        ELSE GameStories("INVITED") \cup {<<"INVITED", "REVOKED">>}
                                 \cup (IF LoggedOut(d) THEN {<<"REVOKED">>} ELSE {})
    BY DEF OneStory
  <2>1. EInv
    BY DEF PInv, CInv
  <2>2. CASE istate[i] = "unused" \/ d \notin Ends(i)
    <3>1. sent[i][d] = << >>
      BY <2>2 DEF TaleInv, Untold
    <3>2. QED
      BY <3>1 DEF GameStories
  <2>3. CASE istate[i] # "unused" /\ d = source[i]
    <3>1. SourceTold(i, d, target[i])
      BY <2>1, <2>3 DEF TaleInv, EInv, ToldBoth
    <3>2. QED
      BY <2>3, <3>1 DEF SourceTold, SourceTale, GameTale, Early, GameStories
  <2>4. CASE istate[i] # "unused" /\ d = target[i]
    <3>1. d # source[i] /\ TargetTold(i, source[i], d)
      BY <2>1, <2>4 DEF TaleInv, EInv, ToldBoth
    <3>2. QED
      BY <2>4, <3>1 DEF TargetTold, TargetTale, GameTale, Early, GameStories, LoggedOut, Left
  <2>5. QED
    BY <2>2, <2>3, <2>4 DEF Ends
<1>2. QED
  BY <1>1, PacketInvariant, TaleInvariant, PTL

\* What is in a story.
LEMMA InStory ==
    ASSUME NEW i, NEW d, NEW k
    PROVE  /\ sent[i][d] = << >> => ~Told(i, d, k)
           /\ \A a : sent[i][d] = <<a>> => (Told(i, d, k) <=> k = a)
           /\ \A a, b : sent[i][d] = <<a, b>> => (Told(i, d, k) <=> k \in {a, b})
           /\ \A a, b, e : sent[i][d] = <<a, b, e>> => (Told(i, d, k) <=> k \in {a, b, e})
           /\ \A a, b, e, f : sent[i][d] = <<a, b, e, f>> => (Told(i, d, k) <=> k \in {a, b, e, f})
<1>1. sent[i][d] = << >> => ~Told(i, d, k)
  BY DEF Told
<1>2. ASSUME NEW a, sent[i][d] = <<a>> PROVE Told(i, d, k) <=> k = a
  BY <1>2 DEF Told
<1>3. ASSUME NEW a, NEW b, sent[i][d] = <<a, b>> PROVE Told(i, d, k) <=> k \in {a, b}
  BY <1>3 DEF Told
<1>4. ASSUME NEW a, NEW b, NEW e, sent[i][d] = <<a, b, e>>
      PROVE  Told(i, d, k) <=> k \in {a, b, e}
  BY <1>4 DEF Told
<1>5. ASSUME NEW a, NEW b, NEW e, NEW f, sent[i][d] = <<a, b, e, f>>
      PROVE  Told(i, d, k) <=> k \in {a, b, e, f}
  BY <1>5 DEF Told
<1>6. QED
  BY <1>1, <1>2, <1>3, <1>4, <1>5

\* A told game says that it is on, and that it is over exactly if it is.
LEMMA InGame ==
    ASSUME NEW i, NEW d, NEW f \in {"ACCEPTED", "INVITED"}, NEW over \in BOOLEAN, NEW busy,
           sent[i][d] \in GameTale(f, over, busy)
    PROVE  /\ Told(i, d, f)
           /\ Told(i, d, "ENDED") <=> over
<1>1. \/ sent[i][d] \in {<<f>>, <<f, "MOVED">>} /\ ~over
      \/ over /\ sent[i][d] \in {<<f, "ENDED">>, <<f, "MOVED", "ENDED">>, <<"ENDED", f>>,
                        <<f, "ENDED", "MOVED">>, <<f, "MOVED", "ENDED", "MOVED">>}
  BY DEF GameTale
<1>2. CASE sent[i][d] = <<f>> /\ ~over
  BY <1>2, InStory
<1>3. CASE sent[i][d] = <<f, "MOVED">> /\ ~over
  BY <1>3, InStory
<1>4. CASE sent[i][d] = <<f, "ENDED">> /\ over
  BY <1>4, InStory
<1>5. CASE sent[i][d] = <<f, "MOVED", "ENDED">> /\ over
  BY <1>5, InStory
<1>6. CASE sent[i][d] = <<"ENDED", f>> /\ over
  BY <1>6, InStory
<1>7. CASE sent[i][d] = <<f, "ENDED", "MOVED">> /\ over
  BY <1>7, InStory
<1>8. CASE sent[i][d] = <<f, "MOVED", "ENDED", "MOVED">> /\ over
  BY <1>8, InStory
<1>9. QED
  BY <1>1, <1>2, <1>3, <1>4, <1>5, <1>6, <1>7, <1>8

\* Both ends have been told of whatever has happened to an invitation, once the
\* threads of both wait for packets.
THEOREM PacketsNobodyLeftOut == PSpec => []NobodyLeftOut
<1>1. PInv /\ TaleInv => NobodyLeftOut
  <2> SUFFICES ASSUME PInv, TaleInv, NEW i \in Invs, istate[i] # "unused",
                      pc[source[i]] = "idle", pc[target[i]] = "idle"
               PROVE  LET s == source[i]
                          t == target[i]
                          ended == istate[i] = "closed" /\ started[i]
                      IN  /\ Told(i, t, "INVITED")
                          /\ started[i] => Told(i, s, "ACCEPTED")
                          /\ Told(i, s, "ENDED") <=> ended
                          /\ Told(i, t, "ENDED") <=> ended
                          /\ istate[i] = "closed" /\ ~started[i] =>
                                 \/ Told(i, t, "REVOKED") /\ ~Told(i, s, "DECLINED")
                                 \/ Told(i, s, "DECLINED") /\ ~Told(i, t, "REVOKED")
    BY DEF NobodyLeftOut
  <2>1. TInv /\ EInv /\ Phases
    BY DEF PInv, CInv
  <2>2. PICK s \in Clients, t \in Clients : s = source[i] /\ t = target[i] /\ s # t
    BY <2>1 DEF EInv
  <2>3. SourceTold(i, s, t) /\ TargetTold(i, s, t) /\ OneTold(i, s, t)
    BY <2>2 DEF TaleInv, ToldBoth
  <2>4. \A d \in Clients, L \in SUBSET WithInv : ~On(d, i, L)
    BY <2>1, <2>2 DEF EInv, Ends, On, WithInv, Label
  <2>5. /\ Making \subseteq WithInv /\ Ending \subseteq WithInv /\ Withdrawing \subseteq WithInv
        /\ {"mv_tell"} \subseteq WithInv /\ {"acc_tell"} \subseteq WithInv
    BY DEF Making, Ending, Withdrawing, WithInv, Label
  <2>6. /\ OverTold(i) <=> istate[i] = "closed" /\ started[i]
        /\ BackTold(i) <=> istate[i] = "closed" /\ ~started[i]
    BY <2>4, <2>5 DEF OverTold, BackTold
  <2>7. ~On(s, i, Making) /\ ~On(t, i, {"acc_tell"})
    BY <2>4, <2>5
  <2>8. pc[t] \notin Left
    BY <2>2 DEF Left
  <2>9. CASE started[i]
    <3> DEFINE over == OverTold(i)
    <3>1. sent[i][s] \in GameTale("ACCEPTED", over, On(t, i, {"mv_tell"}))
      BY <2>3, <2>7, <2>9 DEF SourceTold, SourceTale, GameTale
    <3>2. sent[i][t] \in GameTale("INVITED", over, On(s, i, {"mv_tell"}))
      BY <2>3, <2>7, <2>9 DEF TargetTold, TargetTale, GameTale
    <3>3. over \in BOOLEAN
      BY DEF OverTold
    <3>4. Told(i, s, "ACCEPTED") /\ (Told(i, s, "ENDED") <=> over)
      BY <3>1, <3>3, InGame
    <3>5. Told(i, t, "INVITED") /\ (Told(i, t, "ENDED") <=> over)
      BY <3>2, <3>3, InGame
    <3>6. QED
      BY <2>2, <2>6, <2>9, <3>4, <3>5
  <2>10. CASE ~started[i]
    <3>1. sent[i][s] = << >> \/ (BackTold(i) /\ sent[i][s] = <<"DECLINED">>)
      BY <2>3, <2>10 DEF SourceTold, SourceTale
    <3>2. sent[i][t] = <<"INVITED">> \/ (BackTold(i) /\ sent[i][t] = <<"INVITED", "REVOKED">>)
      BY <2>3, <2>7, <2>8, <2>10 DEF TargetTold, TargetTale
    <3>3. /\ ~Told(i, s, "ENDED")
          /\ Told(i, s, "DECLINED") <=> sent[i][s] = <<"DECLINED">>
      BY <3>1, InStory
    <3>4. /\ Told(i, t, "INVITED") /\ ~Told(i, t, "ENDED")
          /\ Told(i, t, "REVOKED") <=> sent[i][t] = <<"INVITED", "REVOKED">>
      BY <3>2, InStory
    <3>5. BackTold(i) => (Told(i, s, "DECLINED") <=> ~Told(i, t, "REVOKED"))
      <4>1. sent[i][t] \in {<< >>, <<"INVITED">>} <=> sent[i][t] # <<"INVITED", "REVOKED">>
        <5>1. CASE sent[i][t] = <<"INVITED">>
          BY <5>1
        <5>2. CASE sent[i][t] = <<"INVITED", "REVOKED">>
          BY <5>2
        <5>3. QED
          BY <3>2, <5>1, <5>2
      <4>2. QED
        BY <2>3, <3>3, <3>4, <4>1 DEF OneTold
    <3>6. QED
      BY <2>2, <2>6, <2>10, <3>3, <3>4, <3>5
  <2>11. QED
    BY <2>9, <2>10
<1>2. QED
  BY <1>1, PacketInvariant, TaleInvariant, PTL
=============================================================================
