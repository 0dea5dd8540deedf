-------------------------- MODULE ClientListsProofs --------------------------
(***************************************************************************)
(* Proofs about module ClientOps that are about the clients' lists: what   *)
(* they hold, what a logout leaves in them, and the references that they   *)
(* and the threads count.                                                  *)
(***************************************************************************)
EXTENDS ClientOpsProofs, FiniteSetTheorems, WellFoundedInduction

-----------------------------------------------------------------------------
(***************************************************************************)
(* The array of src/arraylist.c.                                           *)
(***************************************************************************)

\* A set of natural numbers has a least element.
LEMMA LeastNat ==
    ASSUME NEW S \in SUBSET Nat, NEW n \in S
    PROVE  \E m \in S : \A k \in S : m <= k
<1> DEFINE Below(k) == 0..k
           Belows == {Below(k) : k \in {j \in S : j <= n}}
<1>1. IsFiniteSet(0..n)
  BY FS_Interval
<1>2. IsWellFoundedOn(StrictSubsetOrdering(0..n), SUBSET (0..n))
  BY <1>1, FS_StrictSubsetOrderingWellFounded, FS_FiniteSubsetsOfFinite
<1>3. Belows \subseteq SUBSET (0..n) /\ Belows # {}
  OBVIOUS
<1>4. PICK X \in Belows : \A Y \in Belows : <<Y, X>> \notin StrictSubsetOrdering(0..n)
  <2> HIDE DEF Belows
  <2>1. QED
    BY <1>2, <1>3, WFMin
<1>5. PICK m \in S : m <= n /\ X = Below(m)
  OBVIOUS
<1>6. ASSUME NEW k \in S, k < m PROVE FALSE
  <2>1. Below(k) \in Belows /\ <<Below(k), X>> \in StrictSubsetOrdering(0..n)
    BY <1>5, <1>6 DEF StrictSubsetOrdering
  <2>2. QED
    BY <1>4, <2>1
<1>7. QED
  BY <1>5, <1>6

\* arraylist_find returns the first slot, or the size of the array.
LEMMA SlotFirst ==
    ASSUME NEW S, NEW l \in Seq(S), NEW x
    PROVE  \/ Slot(l, x) \in DOMAIN l /\ l[Slot(l, x)] = x
           \/ Slot(l, x) = Len(l) + 1 /\ \A j \in DOMAIN l : l[j] # x
<1> DEFINE Held == {k \in DOMAIN l : l[k] = x}
<1>1. DOMAIN l = 1..Len(l) /\ Len(l) \in Nat
  OBVIOUS
<1>2. CASE Held = {}
  BY <1>2 DEF Slot
<1>3. CASE Held # {}
  <2>1. PICK n \in Held : TRUE
    BY <1>3
  <2>2. PICK m \in Held : \A k \in Held : m <= k
    <3>1. Held \in SUBSET Nat /\ n \in Held
      BY <1>1, <2>1
    <3> HIDE DEF Held
    <3>2. QED
      BY <3>1, LeastNat
  <2>3. m \in DOMAIN l /\ l[m] = x /\ \A j \in 1..(m - 1) : l[j] # x
    BY <1>1, <2>2
  <2>4. QED
    BY <2>3 DEF Slot
<1>4. QED
  BY <1>2, <1>3

\* arraylist_set: one entry changes, or one is appended.
LEMMA PutAt ==
    ASSUME NEW S, NEW l \in Seq(S), NEW k \in 1..(Len(l) + 1), NEW x \in S
    PROVE  /\ Put(l, k, x) \in Seq(S)
           /\ \A j : j \in DOMAIN Put(l, k, x) <=> j \in DOMAIN l \/ j = k
           /\ Len(l) <= Len(Put(l, k, x))
           /\ Put(l, k, x)[k] = x
           /\ \A j \in DOMAIN l \ {k} : Put(l, k, x)[j] = l[j]
<1>1. CASE k \in DOMAIN l
  <2>1. Put(l, k, x) = [l EXCEPT ![k] = x]
    BY <1>1 DEF Put
  <2>2. Len(Put(l, k, x)) = Len(l)
    BY <1>1, <2>1, ExceptSeq
  <2>3. QED
    BY <1>1, <2>1, <2>2, ExceptSeq
<1>2. CASE k \notin DOMAIN l
  <2>1. Put(l, k, x) = Append(l, x) /\ k = Len(l) + 1
    BY <1>2 DEF Put
  <2>2. QED
    BY <2>1, AppendProperties
<1>3. QED
  BY <1>1, <1>2

\* client_add_invitation fills one empty slot of one list, or adds one.
LEMMA Added ==
    ASSUME TypeOK, NEW d \in Clients, NEW i \in Invs, AddTo(d, i)
    PROVE  /\ \E k : /\ \A j : j \in DOMAIN list'[d] <=> j \in DOMAIN list[d] \/ j = k
                     /\ Len(list[d]) <= Len(list'[d])
                     /\ list'[d][k] = i
                     /\ k \in DOMAIN list[d] => list[d][k] = NoInv
                     /\ \A j \in DOMAIN list[d] \ {k} : list'[d][j] = list[d][j]
           /\ \A e \in Clients \ {d} : list'[e] = list[e]
<1> DEFINE S == Invs \cup {NoInv}
           l == list[d]
           k == Slot(l, NoInv)
<1>1. list \in [Clients -> Seq(S)] /\ list' = [list EXCEPT ![d] = Put(l, k, i)]
  BY DEF TypeOK, AddTo
<1>2. l \in Seq(S)
  BY <1>1
<1>3. k \in 1..(Len(l) + 1) /\ (k \in DOMAIN l => l[k] = NoInv)
  <2> HIDE DEF l, S
  <2>1. DOMAIN l = 1..Len(l) /\ Len(l) \in Nat
    BY <1>2
  <2>2. QED
    BY <1>2, <2>1, SlotFirst
<1>4. list'[d] = Put(l, k, i) /\ \A e \in Clients \ {d} : list'[e] = list[e]
  <2> HIDE DEF k
  <2>1. QED
    BY <1>1
<1>5. /\ \A j : j \in DOMAIN Put(l, k, i) <=> j \in DOMAIN l \/ j = k
      /\ Len(l) <= Len(Put(l, k, i))
      /\ Put(l, k, i)[k] = i /\ \A j \in DOMAIN l \ {k} : Put(l, k, i)[j] = l[j]
  <2>1. i \in S
    OBVIOUS
  <2> HIDE DEF l, k, S
  <2>2. l \in Seq(S) /\ k \in 1..(Len(l) + 1)
    BY <1>2, <1>3
  <2>3. QED
    BY <2>1, <2>2, PutAt
<1>6. QED
  <2> HIDE DEF k
  <2>1. QED
    BY <1>3, <1>4, <1>5

\* client_remove_invitation empties one slot of one list, if it has the
\* invitation.
LEMMA Removed ==
    ASSUME TypeOK, NEW d \in Clients, NEW i \in Invs, RemoveFrom(d, i), Listed(d, i)
    PROVE  /\ \E k \in DOMAIN list[d] :
                  /\ list[d][k] = i
                  /\ \A j : j \in DOMAIN list'[d] <=> j \in DOMAIN list[d]
                  /\ Len(list'[d]) >= Len(list[d])
                  /\ list'[d][k] = NoInv
                  /\ \A j \in DOMAIN list[d] \ {k} : list'[d][j] = list[d][j]
           /\ \A e \in Clients \ {d} : list'[e] = list[e]
<1> DEFINE S == Invs \cup {NoInv}
           l == list[d]
           k == Slot(l, i)
<1>1. list \in [Clients -> Seq(S)] /\ list' = [list EXCEPT ![d] = Put(l, k, NoInv)]
  BY DEF TypeOK, RemoveFrom
<1>2. l \in Seq(S)
  BY <1>1
<1>3. k \in DOMAIN l /\ l[k] = i /\ k \in 1..(Len(l) + 1)
  <2>1. \E j \in DOMAIN l : l[j] = i
    BY DEF Listed
  <2> HIDE DEF l, S
  <2>2. DOMAIN l = 1..Len(l) /\ Len(l) \in Nat
    BY <1>2
  <2>3. QED
    BY <1>2, <2>1, <2>2, SlotFirst
<1>4. list'[d] = Put(l, k, NoInv) /\ \A e \in Clients \ {d} : list'[e] = list[e]
  <2> HIDE DEF k
  <2>1. QED
    BY <1>1
<1>5. /\ \A j : j \in DOMAIN Put(l, k, NoInv) <=> j \in DOMAIN l \/ j = k
      /\ Len(l) <= Len(Put(l, k, NoInv))
      /\ Put(l, k, NoInv)[k] = NoInv /\ \A j \in DOMAIN l \ {k} : Put(l, k, NoInv)[j] = l[j]
  <2>1. NoInv \in S
    OBVIOUS
  <2> HIDE DEF l, k, S
  <2>2. l \in Seq(S) /\ k \in 1..(Len(l) + 1)
    BY <1>2, <1>3
  <2>3. QED
    BY <2>1, <2>2, PutAt
<1>6. Len(list[d]) \in Nat /\ Len(list'[d]) >= Len(list[d])
  <2> HIDE DEF k
  <2>1. l \in Seq(S) /\ Put(l, k, NoInv) \in Seq(S)
    <3> HIDE DEF l, S
    <3>1. NoInv \in S
      BY DEF S
    <3>2. QED
      BY <1>2, <1>3, <3>1, PutAt
  <2>2. Len(l) \in Nat /\ Len(Put(l, k, NoInv)) \in Nat
    BY <2>1
  <2>3. QED
    BY <1>4, <1>5, <2>2
<1>7. QED
  <2> HIDE DEF k
  <2>1. QED
    BY <1>3, <1>4, <1>5, <1>6

Once == \A d \in Clients : \A j, k \in DOMAIN list[d] :
            list[d][j] = list[d][k] /\ list[d][j] # NoInv => j = k

\* What is listed after client_add_invitation, and that it is listed once.
LEMMA AddedListed ==
    ASSUME TypeOK, NEW d \in Clients, NEW i \in Invs, AddTo(d, i)
    PROVE  /\ \A e \in Clients, j \in Invs : Listed(e, j)' <=> Listed(e, j) \/ (e = d /\ j = i)
           /\ Once /\ ~Listed(d, i) => Once'
<1>1. \A e \in Clients \ {d} : list'[e] = list[e]
  BY Added
<1>2. PICK k : /\ \A j : j \in DOMAIN list'[d] <=> j \in DOMAIN list[d] \/ j = k
               /\ list'[d][k] = i
               /\ k \in DOMAIN list[d] => list[d][k] = NoInv
               /\ \A j \in DOMAIN list[d] \ {k} : list'[d][j] = list[d][j]
  BY Added
<1>3. ASSUME NEW e \in Clients, NEW j \in Invs
      PROVE  Listed(e, j)' <=> Listed(e, j) \/ (e = d /\ j = i)
  <2>1. CASE e # d
    BY <1>1, <2>1 DEF Listed
  <2>2. CASE e = d
    BY <1>2, <2>2, NullAssumption DEF Listed
  <2>3. QED
    BY <2>1, <2>2
<1>4. ASSUME Once, ~Listed(d, i) PROVE Once'
  <2> SUFFICES ASSUME NEW e \in Clients, NEW m \in DOMAIN list'[e], NEW n \in DOMAIN list'[e],
                      list'[e][m] = list'[e][n], list'[e][m] # NoInv
               PROVE  m = n
    BY DEF Once
  <2>1. CASE e # d
    BY <1>1, <1>4, <2>1 DEF Once
  <2>2. CASE e = d /\ m # k /\ n # k
    BY <1>2, <1>4, <2>2 DEF Once
  <2>3. CASE e = d /\ (m = k \/ n = k)
    BY <1>2, <1>4, <2>3 DEF Listed
  <2>4. QED
    BY <2>1, <2>2, <2>3
<1>5. QED
  BY <1>3, <1>4

\* What is listed after client_remove_invitation.
LEMMA RemovedListed ==
    ASSUME TypeOK, Once, NEW d \in Clients, NEW i \in Invs, RemoveFrom(d, i)
    PROVE  /\ \A e \in Clients, j \in Invs : Listed(e, j)' <=> Listed(e, j) /\ ~(e = d /\ j = i)
           /\ Once'
<1>1. CASE ~Listed(d, i)
  <2>1. list' = list
    BY <1>1 DEF RemoveFrom
  <2>2. QED
    BY <1>1, <2>1 DEF Once, Listed
<1>2. CASE Listed(d, i)
  <2>1. \A e \in Clients \ {d} : list'[e] = list[e]
    BY <1>2, Removed
  <2>2. PICK k \in DOMAIN list[d] :
          /\ list[d][k] = i
          /\ \A j : j \in DOMAIN list'[d] <=> j \in DOMAIN list[d]
          /\ list'[d][k] = NoInv
          /\ \A j \in DOMAIN list[d] \ {k} : list'[d][j] = list[d][j]
    BY <1>2, Removed
  <2>3. ASSUME NEW e \in Clients, NEW j \in Invs
        PROVE  Listed(e, j)' <=> Listed(e, j) /\ ~(e = d /\ j = i)
    <3>1. CASE e # d
      BY <2>1, <3>1 DEF Listed
    <3>2. CASE e = d
      <4>1. \A m \in DOMAIN list[d] : list[d][m] = i => m = k
        BY <2>2, NullAssumption DEF Once
      <4>2. QED
        BY <2>2, <3>2, <4>1, NullAssumption DEF Listed
    <3>3. QED
      BY <3>1, <3>2
  <2>4. Once'
    <3> SUFFICES ASSUME NEW e \in Clients, NEW m \in DOMAIN list'[e], NEW n \in DOMAIN list'[e],
                        list'[e][m] = list'[e][n], list'[e][m] # NoInv
                 PROVE  m = n
      BY DEF Once
    <3>1. CASE e # d
      BY <2>1, <3>1 DEF Once
    <3>2. CASE e = d
      <4>1. m # k /\ n # k
        BY <2>2, <3>2
      <4>2. QED
        BY <2>2, <3>2, <4>1 DEF Once
    <3>3. QED
      BY <3>1, <3>2
  <2>5. QED
    BY <2>3, <2>4
<1>3. QED
  BY <1>1, <1>2

-----------------------------------------------------------------------------
(***************************************************************************)
(* ListsAgree is not inductive alone.  That both ends list a game when it  *)
(* starts needs that its target, which accepts it, has found it in its own *)
(* list (Pinned), and that its source has entered it by then (Offered,     *)
(* Fresh).  That a closed invitation is gone when its thread has been to   *)
(* both lists needs that a list holds it once (Once), and that the thread  *)
(* that makes it enters it before anybody else can close it (Fresh).       *)
(***************************************************************************)
Adding == {"add_source", "add_target"}
Removing == {"rm_source", "rm_target", "rm_own", "rm_opp"}

Fresh ==
    \A c \in Clients : pc[c] \in Adding =>
        /\ source[cur[c]] = c /\ istate[cur[c]] = "open"
        /\ ~Listed(target[cur[c]], cur[c])
        /\ pc[c] = "add_source" => ~Listed(c, cur[c])
        /\ \A d \in Clients \ {c} : pc[d] \in WithInv => cur[d] # cur[c]

Pinned ==
    \A c \in Clients : pc[c] \in WithInv \ {"add_source"} /\ istate[cur[c]] # "closed" =>
        Listed(c, cur[c])

Offered ==
    \A i \in Invs : istate[i] = "open" =>
        Listed(source[i], i) \/ (pc[source[i]] = "add_source" /\ cur[source[i]] = i)

Accepting == \A c \in Clients : pc[c] = "accept" => target[cur[c]] = c

ListInv == Fresh /\ Once /\ Pinned /\ Offered /\ Accepting /\ ListsAgree

\* The three parts of ListsAgree, for proofs that disturb only one.
GameListed ==
    \A i \in Invs : istate[i] = "accepted" => Listed(source[i], i) /\ Listed(target[i], i)

ToRemove ==
    \A c \in Clients :
        /\ pc[c] = "rm_own" => Listed(c, cur[c])
        /\ pc[c] \in {"rm_own", "rm_opp"} => Listed(Peer(c, cur[c]), cur[c])

Removes(c, d, i) ==
    /\ cur[c] = i
    /\ \/ pc[c] = "rm_source"
       \/ pc[c] = "rm_target" /\ d = target[i]
       \/ pc[c] = "rm_own"
       \/ pc[c] = "rm_opp" /\ d = Peer(c, i)

ClosedRemoved ==
    \A i \in Invs, d \in Clients :
        istate[i] = "closed" /\ Listed(d, i) => \E c \in Clients : Removes(c, d, i)

LEMMA ListsAgreeParts == ListsAgree <=> GameListed /\ ToRemove /\ ClosedRemoved
BY DEF ListsAgree, GameListed, ToRemove, ClosedRemoved, Removes

\* A step that leaves the lists and the invitations alone.
LEMMA ListQuiet ==
    ASSUME CInv, CInv', ListInv, NEW c \in Clients, NEW l \in Label \ (Adding \cup Removing),
           Goto(c, l), UNCHANGED <<list, istate, source, target>>,
           \A d \in Clients \ {c} : cur'[d] = cur[d],
           pc[c] \notin Adding \cup Removing,
           \/ l \notin WithInv
           \/ l # "accept" /\ cur'[c] = cur[c] /\ pc[c] \in WithInv
           \/ /\ cur'[c] \in Invs /\ Listed(c, cur'[c])
              /\ l = "accept" => target[cur'[c]] = c
    PROVE  ListInv'
<1>1. pc'[c] = l /\ \A d \in Clients \ {c} : pc'[d] = pc[d] /\ cur'[d] = cur[d]
  BY DEF Goto, CInv, TInv, TypeOK
<1>2. \A d, i : Listed(d, i)' <=> Listed(d, i)
  BY DEF Listed
<1>3. Fresh'
  <2> SUFFICES ASSUME NEW d \in Clients, pc'[d] \in Adding
               PROVE  /\ source[cur'[d]] = d /\ istate[cur'[d]] = "open"
                      /\ ~Listed(target[cur'[d]], cur'[d])
                      /\ pc'[d] = "add_source" => ~Listed(d, cur'[d])
                      /\ \A e \in Clients \ {d} : pc'[e] \in WithInv => cur'[e] # cur'[d]
    BY <1>2 DEF Fresh
  <2>1. d # c /\ pc[d] \in Adding /\ cur'[d] = cur[d] /\ cur[d] \in Invs
    BY <1>1, Working DEF Adding, WithInv, Label, CInv
  <2>2. ASSUME NEW e \in Clients \ {d}, pc'[e] \in WithInv PROVE cur'[e] # cur[d]
    <3>1. CASE e # c \/ (cur'[c] = cur[c] /\ pc[c] \in WithInv)
      BY <1>1, <2>1, <2>2, <3>1 DEF ListInv, Fresh
    <3>2. CASE e = c /\ Listed(c, cur'[c])
      <4>1. Listed(c, cur[d]) => c \in Ends(cur[d])
        BY <2>1 DEF CInv, EInv
      <4>2. ~Listed(c, cur[d])
        BY <2>1, <4>1 DEF ListInv, Fresh, Ends
      <4>3. QED
        BY <3>2, <4>2
    <3>3. QED
      BY <1>1, <2>2, <3>1, <3>2
  <2>3. QED
    BY <1>1, <2>1, <2>2 DEF ListInv, Fresh
<1>4. Once'
  BY DEF ListInv, Once
<1>5. Pinned'
  <2> SUFFICES ASSUME NEW d \in Clients, pc'[d] \in WithInv \ {"add_source"},
                      istate[cur'[d]] # "closed"
               PROVE  Listed(d, cur'[d])
    BY <1>2 DEF Pinned
  <2>1. CASE d # c \/ (cur'[c] = cur[c] /\ pc[c] \in WithInv)
    BY <1>1, <2>1 DEF ListInv, Pinned, Adding
  <2>2. QED
    BY <1>1, <2>1
<1>6. Offered'
  BY <1>1, <1>2 DEF ListInv, Offered, Adding, CInv, EInv
<1>7. Accepting'
  BY <1>1 DEF ListInv, Accepting, WithInv, Label
<1>8. GameListed' /\ ToRemove' /\ ClosedRemoved'
  <2>1. ListsAgree
    BY DEF ListInv
  <2>2. GameListed'
    BY <1>2, <2>1, ListsAgreeParts DEF GameListed
  <2>3. ToRemove'
    BY <1>1, <1>2, <2>1, ListsAgreeParts DEF ToRemove, Removing, Peer
  <2>4. ClosedRemoved'
    <3> SUFFICES ASSUME NEW i \in Invs, NEW d \in Clients, istate[i] = "closed", Listed(d, i)
                 PROVE  \E e \in Clients : Removes(e, d, i)'
      BY <1>2 DEF ClosedRemoved
    <3>1. PICK e \in Clients : Removes(e, d, i)
      BY <2>1, ListsAgreeParts DEF ClosedRemoved
    <3>2. e # c
      BY <3>1 DEF Removes, Removing
    <3>3. Removes(e, d, i)'
      BY <1>1, <3>1, <3>2 DEF Removes, Peer
    <3>4. QED
      BY <3>3
  <2>5. QED
    BY <2>2, <2>3, <2>4
<1>9. QED
  <2>1. ListsAgree'
    BY <1>8 DEF ListsAgree, GameListed, ToRemove, ClosedRemoved, Removes
  <2>2. QED
    BY <1>3, <1>4, <1>5, <1>6, <1>7, <2>1 DEF ListInv

LEMMA ListQuietSteps ==
    ASSUME CInv, CInv', ListInv, NEW c \in Clients,
           \/ Connect(c) \/ (\E p \in Players : RecvLogin(c, p)) \/ ScanPlayers(c) \/ SetPlayer(c)
           \/ EndOfInput(c) \/ BeginLogout(c) \/ LogoutNext(c) \/ EndLogout(c)
           \/ Unregister(c) \/ Free(c) \/ DropMade(c) \/ EndInvite(c)
           \/ \E i \in Invs : \/ RecvRevoke(c, i) \/ RecvDecline(c, i) \/ RecvAccept(c, i)
                            \/ RecvResign(c, i) \/ RecvMove(c, i)
           \/ Unref(c) \/ Notify(c) \/ TellAccepted(c) \/ PostResult(c) \/ ApplyMove(c)
           \/ RefuseMove(c) \/ TellMoved(c) \/ Finish(c)
    PROVE  ListInv'
<1> DEFINE Kept(l) == /\ Goto(c, l) /\ UNCHANGED <<list, istate, source, target>>
                      /\ \A d \in Clients \ {c} : cur'[d] = cur[d]
                      /\ pc[c] \notin Adding \cup Removing
           Same(l) == l # "accept" /\ cur'[c] = cur[c] /\ pc[c] \in WithInv
           Took(l) == /\ cur'[c] \in Invs /\ Listed(c, cur'[c])
                      /\ l = "accept" => target[cur'[c]] = c
<1>1. ASSUME NEW l \in Label \ (Adding \cup Removing), Kept(l), l \notin WithInv \/ Same(l) \/ Took(l)
      PROVE  ListInv'
  BY <1>1, ListQuiet
<1>2. cur \in [Clients -> Invs \cup {NoInv}]
  BY DEF CInv, TInv, TypeOK
<1> USE DEF madeVars, Label, WithInv, Adding, Removing
<1>3. CASE Connect(c) \/ (\E p \in Players : RecvLogin(c, p)) \/ ScanPlayers(c) \/ SetPlayer(c)
  BY <1>1, <1>3 DEF Connect, RecvLogin, ScanPlayers, SetPlayer
<1>4. CASE EndOfInput(c) \/ BeginLogout(c) \/ EndLogout(c)
  BY <1>1, <1>4 DEF EndOfInput, BeginLogout, EndLogout
<1>5. CASE Unregister(c) \/ Free(c)
  BY <1>1, <1>5 DEF Unregister, Free
<1>6. CASE LogoutNext(c)
  <2>1. PICK k \in Ahead(c) :
          Pin(c, list[c][k], IF started[list[c][k]] THEN "resign" ELSE "close")
    BY <1>6 DEF LogoutNext
  <2>2. list[c][k] \in Invs
    <3>1. list[c] \in Seq(Invs \cup {NoInv})
      BY DEF CInv, TInv, TypeOK
    <3>2. k \in 1..Len(list[c]) /\ list[c][k] # NoInv
      BY <3>1 DEF Ahead
    <3>3. QED
      BY <3>1, <3>2, ElementOfSeq
  <2>3. PICK l \in {"resign", "close"} : Kept(l) /\ Took(l)
    BY <1>2, <1>6, <2>1, <2>2 DEF LogoutNext, Pin
  <2>4. QED
    BY <1>1, <2>3
<1>7. CASE DropMade(c) \/ Unref(c)
  BY <1>1, <1>7 DEF DropMade, Unref
<1>8. CASE EndInvite(c) \/ Notify(c) \/ Finish(c)
  BY <1>1, <1>2, <1>8 DEF EndInvite, Notify, Finish, Resume
<1>9. CASE \E i \in Invs : \/ RecvRevoke(c, i) \/ RecvDecline(c, i) \/ RecvAccept(c, i)
                         \/ RecvResign(c, i) \/ RecvMove(c, i)
  <2>1. PICK i \in Invs, l \in {"close", "refuse", "accept", "resign", "move"} :
          Request(c, i, l) /\ (l = "accept" => target[i] = c)
    BY <1>9 DEF RecvRevoke, RecvDecline, RecvAccept, RecvResign, RecvMove
  <2>2. Kept(l) /\ Took(l)
    BY <1>2, <2>1 DEF Request, Pin
  <2>3. QED
    BY <1>1, <2>2
<1>10. CASE TellAccepted(c) \/ TellMoved(c)
  BY <1>1, <1>10 DEF TellAccepted, TellMoved, Tell
<1>11. CASE PostResult(c) \/ ApplyMove(c) \/ RefuseMove(c)
  BY <1>1, <1>11 DEF PostResult, ApplyMove, RefuseMove
<1>12. QED
  BY <1>3, <1>4, <1>5, <1>6, <1>7, <1>8, <1>9, <1>10, <1>11

\* A step of thread c that changes the state of the invitation in its hands
\* and no list: it accepts it, or closes it and has yet to take it out of the
\* lists.
LEMMA ListState ==
    ASSUME CInv, CInv', ListInv, NEW c \in Clients, NEW l \in WithInv \ (Adding \cup {"accept"}),
           Goto(c, l), UNCHANGED <<list, source, target, cur>>,
           pc[c] \in WithInv \ (Adding \cup Removing),
           NEW s \in {"accepted", "closed"}, istate' = [istate EXCEPT ![cur[c]] = s],
           s = "accepted" => /\ istate[cur[c]] = "open" /\ l \notin Removing
                             /\ target[cur[c]] = c,
           s = "closed" => \/ istate[cur[c]] = "open" /\ l = "rm_source"
                           \/ istate[cur[c]] = "accepted" /\ l = "rm_own"
    PROVE  ListInv'
<1> DEFINE i == cur[c]
<1>1. pc'[c] = l /\ \A d \in Clients \ {c} : pc'[d] = pc[d]
  BY DEF Goto, CInv, TInv, TypeOK
<1>2. \A d, j : Listed(d, j)' <=> Listed(d, j)
  BY DEF Listed
<1>3. i \in Invs /\ istate'[i] = s /\ \A j \in Invs \ {i} : istate'[j] = istate[j]
  BY Working DEF CInv, TInv, TypeOK
<1>4. c \in Ends(i) /\ istate[i] \in {"open", "accepted"} /\ Listed(c, i)
  BY DEF CInv, EInv, ListInv, Pinned, Adding
<1>5. \A d \in Clients : pc[d] \in Adding => d # c /\ cur[d] # i /\ cur[d] \in Invs
  BY Working DEF ListInv, Fresh, Adding, WithInv, Label, CInv
<1>6. Fresh'
  BY <1>1, <1>2, <1>3, <1>5 DEF ListInv, Fresh
<1>7. Once' /\ Accepting'
  BY <1>1 DEF ListInv, Once, Accepting
<1>8. Pinned'
  <2> SUFFICES ASSUME NEW d \in Clients, pc'[d] \in WithInv \ {"add_source"},
                      istate'[cur[d]] # "closed"
               PROVE  Listed(d, cur[d])
    BY <1>2 DEF Pinned
  <2>1. pc[d] \in WithInv \ {"add_source"}
    BY <1>1 DEF Adding
  <2>2. istate[cur[d]] # "closed"
    BY <1>3, <1>4, <2>1, Working DEF CInv
  <2>3. QED
    BY <2>1, <2>2 DEF ListInv, Pinned
<1>9. Offered'
  <2> SUFFICES ASSUME NEW j \in Invs, istate'[j] = "open"
               PROVE  Listed(source[j], j) \/ (pc'[source[j]] = "add_source" /\ cur[source[j]] = j)
    BY <1>2 DEF Offered
  <2>1. j # i /\ istate[j] = "open" /\ source[j] \in Clients
    BY <1>3 DEF CInv, EInv
  <2>2. QED
    BY <1>1, <2>1 DEF ListInv, Offered, Adding
<1>10. GameListed'
  <2> SUFFICES ASSUME NEW j \in Invs, istate'[j] = "accepted"
               PROVE  Listed(source[j], j) /\ Listed(target[j], j)
    BY <1>2 DEF GameListed
  <2>1. CASE j # i
    BY <1>3, <2>1 DEF ListInv, ListsAgree
  <2>2. CASE j = i
    <3>1. s = "accepted" /\ istate[i] = "open" /\ target[i] = c /\ source[i] \in Clients
      BY <1>3, <2>2 DEF CInv, EInv
    <3>2. ~(pc[source[i]] = "add_source" /\ cur[source[i]] = i)
      BY <1>5, <3>1 DEF Adding
    <3>3. QED
      BY <1>3, <1>4, <2>2, <3>1, <3>2 DEF ListInv, Offered
  <2>3. QED
    BY <2>1, <2>2
<1>11. ToRemove'
  <2> SUFFICES ASSUME NEW d \in Clients
               PROVE  /\ pc'[d] = "rm_own" => Listed(d, cur[d])
                      /\ pc'[d] \in {"rm_own", "rm_opp"} => Listed(Peer(d, cur[d]), cur[d])
    BY <1>2 DEF ToRemove, Peer
  <2>1. CASE d # c
    BY <1>1, <2>1 DEF ListInv, ListsAgree
  <2>2. CASE d = c /\ l = "rm_own"
    <3>1. istate[i] = "accepted"
      BY <2>2 DEF Removing
    <3>2. Listed(source[i], i) /\ Listed(target[i], i)
      BY <1>3, <3>1 DEF ListInv, ListsAgree
    <3>3. QED
      BY <1>4, <2>2, <3>2 DEF Peer
  <2>3. CASE d = c /\ l # "rm_own"
    BY <1>1, <2>3 DEF Removing
  <2>4. QED
    BY <2>1, <2>2, <2>3
<1>12. ClosedRemoved'
  <2> SUFFICES ASSUME NEW j \in Invs, NEW d \in Clients, istate'[j] = "closed", Listed(d, j)
               PROVE  \E e \in Clients : Removes(e, d, j)'
    BY <1>2 DEF ClosedRemoved
  <2>1. CASE j = i
    <3>1. Removes(c, d, i)'
      BY <1>1, <1>3, <2>1 DEF Removes
    <3>2. QED
      BY <2>1, <3>1
  <2>2. CASE j # i
    <3>1. PICK e \in Clients : Removes(e, d, j)
      BY <1>3, <2>2, ListsAgreeParts DEF ListInv, ClosedRemoved
    <3>2. e # c
      BY <2>2, <3>1 DEF Removes
    <3>3. Removes(e, d, j)'
      BY <1>1, <3>1, <3>2 DEF Removes, Peer
    <3>4. QED
      BY <3>3
  <2>3. QED
    BY <2>1, <2>2
<1>13. QED
  <2>1. ListsAgree'
    BY <1>10, <1>11, <1>12 DEF ListsAgree, GameListed, ToRemove, ClosedRemoved, Removes
  <2>2. QED
    BY <1>6, <1>7, <1>8, <1>9, <2>1 DEF ListInv

LEMMA ListStateSteps ==
    ASSUME CInv, CInv', ListInv, NEW c \in Clients,
           CloseOpen(c) \/ Accept(c) \/ ResignGame(c) \/ MoveOver(c)
    PROVE  ListInv'
<1> DEFINE i == cur[c]
           To(s, l) == istate' = [istate EXCEPT ![i] = s] /\ Goto(c, l)
           Refused == istate' = istate /\ (Goto(c, "refuse") \/ Goto(c, "finish"))
<1>1. /\ pc[c] \in {"close", "accept", "resign", "mv_over"} /\ i \in Invs
      /\ UNCHANGED <<list, source, target, cur>>
  BY Working DEF CloseOpen, Accept, AcceptInv, ResignGame, MoveOver, madeVars, CInv, WithInv, Label
<1> USE DEF Label, WithInv, Adding, Removing
<1>2. CASE Refused
  <2>1. \E l \in {"refuse", "finish"} : Goto(c, l)
    BY <1>2
  <2>2. QED
    BY <1>1, <1>2, <2>1, ListQuiet
<1>3. CASE Accept(c)
  <2>1. CASE istate[i] = "open"
    <3>1. To("accepted", "acc_tell")
      BY <1>3, <2>1 DEF Accept, AcceptInv
    <3>2. target[i] = c
      BY <1>3 DEF Accept, ListInv, Accepting
    <3>3. /\ pc[c] \in WithInv \ (Adding \cup Removing)
          /\ "acc_tell" \in WithInv \ (Adding \cup {"accept"}) /\ "acc_tell" \notin Removing
      BY <1>1
    <3> HIDE DEF Label, WithInv, Adding, Removing
    <3>4. QED
      BY <1>1, <2>1, <3>1, <3>2, <3>3, ListState
  <2>2. CASE istate[i] # "open"
    BY <1>2, <1>3, <2>2 DEF Accept, AcceptInv
  <2>3. QED
    BY <2>1, <2>2
<1>4. CASE CloseOpen(c)
  <2>1. CASE istate[i] = "open"
    <3>1. To("closed", "rm_source")
      BY <1>4, <2>1 DEF CloseOpen, Closable, CloseInv, CloseInvTo
    <3>2. QED
      BY <1>1, <2>1, <3>1, ListState
  <2>2. CASE istate[i] # "open"
    BY <1>2, <1>4, <2>2 DEF CloseOpen, Closable
  <2>3. QED
    BY <2>1, <2>2
<1>5. CASE ResignGame(c)
  <2>1. CASE started[i] /\ Closable(i, RoleOf(c, i))
    <3>1. istate[i] = "accepted" /\ To("closed", "rm_own")
      BY <1>1, <1>5, <2>1 DEF ResignGame, Closable, CloseInv, CloseInvTo, CInv, Phases
    <3>2. QED
      BY <1>1, <3>1, ListState
  <2>2. CASE ~(started[i] /\ Closable(i, RoleOf(c, i)))
    BY <1>2, <1>5, <2>2 DEF ResignGame
  <2>3. QED
    BY <2>1, <2>2
<1>6. CASE MoveOver(c)
  <2>1. CASE Over(i) /\ Closable(i, Other(winner[i]))
    <3>1. istate[i] = "accepted" /\ To("closed", "rm_own")
      BY <1>1, <1>6, <2>1 DEF MoveOver, Over, Closable, CloseInv, CloseInvTo, CInv, Phases
    <3>2. QED
      BY <1>1, <3>1, ListState
  <2>2. CASE ~(Over(i) /\ Closable(i, Other(winner[i])))
    BY <1>2, <1>6, <2>2 DEF MoveOver
  <2>3. QED
    BY <2>1, <2>2
<1>7. QED
  BY <1>3, <1>4, <1>5, <1>6

\* client_make_invitation enters the invitation in a list.
LEMMA ListAdd ==
    ASSUME CInv, CInv', ListInv, NEW c \in Clients, NEW l \in WithInv \ (Removing \cup {"accept"}),
           pc[c] \in Adding, Goto(c, l), UNCHANGED <<istate, source, target, cur>>,
           \A e \in Clients, j \in Invs :
               /\ Listed(e, j) => Listed(e, j)'
               /\ Listed(e, j)' => Listed(e, j) \/ j = cur[c],
           Once', Listed(c, cur[c])',
           l \in Adding => l = "add_target" /\ ~Listed(target[cur[c]], cur[c])'
    PROVE  ListInv'
<1> DEFINE i == cur[c]
<1>1. pc'[c] = l /\ \A d \in Clients \ {c} : pc'[d] = pc[d]
  BY DEF Goto, CInv, TInv, TypeOK
<1>2. i \in Invs /\ pc[c] \in WithInv /\ source[i] = c /\ istate[i] = "open"
  BY Working DEF CInv, ListInv, Fresh, Adding, WithInv, Label
<1>3. Fresh'
  <2> SUFFICES ASSUME NEW d \in Clients, pc'[d] \in Adding
               PROVE  /\ source[cur[d]] = d /\ istate[cur[d]] = "open"
                      /\ ~Listed(target[cur[d]], cur[d])'
                      /\ pc'[d] = "add_source" => ~Listed(d, cur[d])'
                      /\ \A e \in Clients \ {d} : pc'[e] \in WithInv => cur[e] # cur[d]
    BY DEF Fresh, Listed
  <2>1. pc[d] \in Adding /\ \A e \in Clients : pc'[e] \in WithInv => pc[e] \in WithInv
    BY <1>1, <1>2
  <2>2. CASE d = c
    BY <1>1, <1>2, <2>1, <2>2 DEF ListInv, Fresh, Adding
  <2>3. CASE d # c
    <3>1. cur[d] \in Invs /\ target[cur[d]] \in Clients /\ cur[d] # i
      BY <1>2, <2>1, <2>3, Working DEF CInv, EInv, ListInv, Fresh, Adding, WithInv, Label
    <3>2. QED
      BY <1>1, <2>1, <2>3, <3>1 DEF ListInv, Fresh
  <2>4. QED
    BY <2>2, <2>3
<1>4. Pinned'
  <2> SUFFICES ASSUME NEW d \in Clients, pc'[d] \in WithInv \ {"add_source"},
                      istate[cur[d]] # "closed"
               PROVE  Listed(d, cur[d])'
    BY DEF Pinned, Listed
  <2>1. CASE d # c
    <3>1. pc[d] \in WithInv \ {"add_source"} /\ cur[d] \in Invs
      BY <1>1, <2>1, Working DEF CInv
    <3>2. QED
      BY <3>1 DEF ListInv, Pinned
  <2>2. QED
    BY <2>1
<1>5. Offered'
  <2> SUFFICES ASSUME NEW j \in Invs, istate[j] = "open"
               PROVE  \/ Listed(source[j], j)'
                      \/ pc'[source[j]] = "add_source" /\ cur[source[j]] = j
    BY DEF Offered, Listed
  <2>1. source[j] \in Clients
    BY DEF CInv, EInv
  <2>2. QED
    BY <1>1, <1>2, <2>1 DEF ListInv, Offered
<1>6. Accepting'
  BY <1>1 DEF ListInv, Accepting
<1>7. GameListed'
  <2> SUFFICES ASSUME NEW j \in Invs, istate[j] = "accepted"
               PROVE  Listed(source[j], j)' /\ Listed(target[j], j)'
    BY DEF GameListed, Listed
  <2>1. source[j] \in Clients /\ target[j] \in Clients
    BY DEF CInv, EInv
  <2>2. QED
    BY <2>1 DEF ListInv, ListsAgree
<1>8. ToRemove'
  <2> SUFFICES ASSUME NEW d \in Clients
               PROVE  /\ pc'[d] = "rm_own" => Listed(d, cur[d])'
                      /\ pc'[d] \in {"rm_own", "rm_opp"} => Listed(Peer(d, cur[d]), cur[d])'
    BY DEF ToRemove, Peer, Listed
  <2> SUFFICES ASSUME pc'[d] \in {"rm_own", "rm_opp"}
               PROVE  /\ pc'[d] = "rm_own" => Listed(d, cur[d])'
                      /\ Listed(Peer(d, cur[d]), cur[d])'
    OBVIOUS
  <2>1. d # c /\ pc[d] = pc'[d] /\ cur[d] \in Invs /\ Peer(d, cur[d]) \in Clients
    BY <1>1, Working DEF Removing, CInv, EInv, Peer, WithInv, Label
  <2>2. Peer(d, cur[d])' = Peer(d, cur[d])
    BY DEF Peer
  <2>3. QED
    BY <2>1, <2>2 DEF ListInv, ListsAgree
<1>9. ClosedRemoved'
  <2> SUFFICES ASSUME NEW j \in Invs, NEW d \in Clients, istate[j] = "closed", Listed(d, j)'
               PROVE  \E e \in Clients : Removes(e, d, j)'
    BY DEF ClosedRemoved
  <2>1. Listed(d, j)
    BY <1>2
  <2>2. PICK e \in Clients : Removes(e, d, j)
    BY <2>1, ListsAgreeParts DEF ListInv, ClosedRemoved
  <2>3. e # c
    BY <2>2 DEF Removes, Adding
  <2>4. Removes(e, d, j)'
    BY <1>1, <2>2, <2>3 DEF Removes, Peer
  <2>5. QED
    BY <2>4
<1>10. QED
  <2>1. ListsAgree'
    BY <1>7, <1>8, <1>9 DEF ListsAgree, GameListed, ToRemove, ClosedRemoved, Removes
  <2>2. QED
    BY <1>3, <1>4, <1>5, <1>6, <2>1 DEF ListInv

LEMMA ListAddSteps ==
    ASSUME CInv, CInv', ListInv, NEW c \in Clients, AddSource(c) \/ AddTarget(c)
    PROVE  ListInv'
<1> DEFINE i == cur[c]
           t == target[i]
<1>1. pc[c] \in Adding /\ i \in Invs /\ UNCHANGED <<istate, source, target, cur>>
  BY Working DEF AddSource, AddTarget, madeVars, Adding, CInv, WithInv, Label
<1>2. /\ source[i] = c /\ ~Listed(t, i) /\ t \in Clients /\ t # c
      /\ pc[c] = "add_source" => ~Listed(c, i)
  BY <1>1, Working DEF ListInv, Fresh, CInv, EInv, Adding, WithInv, Label
<1>3. TypeOK /\ Once
  BY DEF CInv, TInv, ListInv
<1>4. CASE AddSource(c)
  <2>1. AddTo(c, i) /\ ~Listed(c, i) /\ Goto(c, "add_target")
    BY <1>2, <1>4 DEF AddSource
  <2>2. /\ \A e \in Clients, j \in Invs : Listed(e, j)' <=> Listed(e, j) \/ (e = c /\ j = i)
        /\ Once'
    BY <1>1, <1>3, <2>1, AddedListed
  <2>3. Listed(c, i)' /\ ~Listed(t, i)'
    BY <1>1, <1>2, <2>2
  <2>4. QED
    BY <1>1, <2>1, <2>2, <2>3, ListAdd DEF Adding, Removing, WithInv, Label
<1>5. CASE AddTarget(c)
  <2>1. \E l \in {"made", "unmade"} : Goto(c, l)
    BY <1>5 DEF AddTarget
  <2>2. Listed(c, i)
    BY <1>1, <1>2, <1>5 DEF AddTarget, ListInv, Fresh, Pinned, Adding, WithInv, Label
  <2>3. /\ \A e \in Clients, j \in Invs :
               (Listed(e, j) => Listed(e, j)') /\ (Listed(e, j)' => Listed(e, j) \/ j = i)
        /\ Once'
    <3>1. CASE player[t] # NoPlayer
      <4>1. AddTo(t, i)
        BY <1>5, <3>1 DEF AddTarget
      <4>2. QED
        BY <1>1, <1>2, <1>3, <4>1, AddedListed
    <3>2. CASE player[t] = NoPlayer
      <4>1. list' = list
        BY <1>5, <3>2 DEF AddTarget
      <4>2. QED
        BY <1>3, <4>1 DEF Listed, Once
    <3>3. QED
      BY <3>1, <3>2
  <2>4. Listed(c, i)'
    BY <1>1, <2>2, <2>3
  <2>5. QED
    BY <1>1, <2>1, <2>3, <2>4, ListAdd DEF Adding, Removing, WithInv, Label
<1>6. QED
  BY <1>4, <1>5

\* A closing thread takes its invitation out of the list of one of the ends,
\* e, and goes on to where only the other end may still have it.
LEMMA ListRemove ==
    ASSUME CInv, CInv', ListInv, NEW c \in Clients, NEW e \in Clients,
           NEW l \in {"rm_target", "unref", "rm_opp", "post"}, Goto(c, l),
           UNCHANGED <<istate, source, target, cur>>, pc[c] \in Removing,
           RemoveFrom(e, cur[c]), e \in Ends(cur[c]),
           \A d \in Ends(cur[c]) \ {e} : Removes(c, d, cur[c]) => Removes(c, d, cur[c])',
           l = "rm_opp" => pc[c] = "rm_own" /\ e = c
    PROVE  ListInv'
<1> DEFINE i == cur[c]
<1>1. pc'[c] = l /\ \A d \in Clients \ {c} : pc'[d] = pc[d]
  BY DEF Goto, CInv, TInv, TypeOK
<1>2. /\ i \in Invs /\ pc[c] \in Closing /\ istate[i] = "closed"
      /\ \A d \in Clients : pc[d] \in Closing /\ cur[d] = i => d = c
  BY Working DEF CInv, SingleCloser, Removing, Closing, Ending, WithInv, Label
<1>3. /\ \A d \in Clients, j \in Invs : Listed(d, j)' <=> Listed(d, j) /\ ~(d = e /\ j = i)
      /\ Once'
  BY <1>2, RemovedListed DEF CInv, TInv, ListInv
<1>4. Fresh'
  <2> SUFFICES ASSUME NEW d \in Clients, pc'[d] \in Adding
               PROVE  /\ source[cur[d]] = d /\ istate[cur[d]] = "open"
                      /\ ~Listed(target[cur[d]], cur[d])'
                      /\ pc'[d] = "add_source" => ~Listed(d, cur[d])'
                      /\ \A f \in Clients \ {d} : pc'[f] \in WithInv => cur[f] # cur[d]
    BY DEF Fresh, Listed
  <2>1. d # c /\ pc[d] \in Adding /\ cur[d] \in Invs /\ target[cur[d]] \in Clients
    BY <1>1, Working DEF CInv, EInv, Adding, WithInv, Label
  <2>2. pc[c] \in WithInv
    BY <1>2 DEF Closing, Ending, WithInv, Label
  <2>3. QED
    BY <1>1, <1>3, <2>1, <2>2 DEF ListInv, Fresh
<1>5. Pinned'
  <2> SUFFICES ASSUME NEW d \in Clients, pc'[d] \in WithInv \ {"add_source"},
                      istate[cur[d]] # "closed"
               PROVE  Listed(d, cur[d])'
    BY DEF Pinned, Listed
  <2>1. d # c /\ pc[d] \in WithInv \ {"add_source"} /\ cur[d] \in Invs /\ cur[d] # i
    BY <1>1, <1>2, Working DEF CInv
  <2>2. QED
    BY <1>3, <2>1 DEF ListInv, Pinned
<1>6. Offered'
  <2> SUFFICES ASSUME NEW j \in Invs, istate[j] = "open"
               PROVE  \/ Listed(source[j], j)'
                      \/ pc'[source[j]] = "add_source" /\ cur[source[j]] = j
    BY DEF Offered, Listed
  <2>1. source[j] \in Clients /\ j # i
    BY <1>2 DEF CInv, EInv
  <2>2. pc[c] # "add_source"
    BY DEF Removing
  <2>3. QED
    BY <1>1, <1>3, <2>1, <2>2 DEF ListInv, Offered
<1>7. Accepting'
  BY <1>1 DEF ListInv, Accepting
<1>8. GameListed'
  <2> SUFFICES ASSUME NEW j \in Invs, istate[j] = "accepted"
               PROVE  Listed(source[j], j)' /\ Listed(target[j], j)'
    BY DEF GameListed, Listed
  <2>1. source[j] \in Clients /\ target[j] \in Clients /\ j # i
    BY <1>2 DEF CInv, EInv
  <2>2. QED
    BY <1>3, <2>1 DEF ListInv, ListsAgree
<1>9. ToRemove'
  <2> SUFFICES ASSUME NEW d \in Clients, pc'[d] \in {"rm_own", "rm_opp"}
               PROVE  /\ pc'[d] = "rm_own" => Listed(d, cur[d])'
                      /\ Listed(Peer(d, cur[d]), cur[d])'
    BY DEF ToRemove, Peer, Listed
  <2>1. Peer(d, cur[d])' = Peer(d, cur[d])
    BY DEF Peer
  <2>2. pc[d] \in {"rm_own", "rm_opp"}
    BY <1>1
  <2>3. /\ cur[d] \in Invs /\ pc[d] \in Closing /\ d \in Ends(cur[d])
        /\ Peer(d, cur[d]) \in Clients \ {d}
    BY <2>2, Working DEF CInv, EInv, Ends, Peer, Closing, Ending, WithInv, Label
  <2>4. CASE d # c
    <3>1. cur[d] # i
      BY <1>2, <2>3, <2>4
    <3>2. QED
      BY <1>1, <1>3, <2>1, <2>3, <2>4, <3>1 DEF ListInv, ListsAgree
  <2>5. CASE d = c
    <3>1. pc'[c] = "rm_opp" /\ pc[c] = "rm_own" /\ e = c
      BY <1>1, <2>5
    <3>2. QED
      BY <1>3, <2>1, <2>3, <2>5, <3>1 DEF ListInv, ListsAgree
  <2>6. QED
    BY <2>4, <2>5
<1>10. ClosedRemoved'
  <2> SUFFICES ASSUME NEW j \in Invs, NEW d \in Clients, istate[j] = "closed", Listed(d, j)'
               PROVE  \E f \in Clients : Removes(f, d, j)'
    BY DEF ClosedRemoved
  <2>1. Listed(d, j) /\ ~(d = e /\ j = i) /\ d \in Ends(j)
    BY <1>3 DEF CInv, EInv
  <2>2. PICK f \in Clients : Removes(f, d, j)
    BY <2>1, ListsAgreeParts DEF ListInv, ClosedRemoved
  <2>3. CASE f = c
    <3>1. j = i /\ Removes(c, d, i)
      BY <2>2, <2>3 DEF Removes
    <3>2. d \in Ends(i) \ {e}
      BY <2>1, <3>1
    <3>3. Removes(c, d, i)'
      BY <3>1, <3>2
    <3>4. QED
      BY <3>1, <3>3
  <2>4. CASE f # c
    <3>1. Removes(f, d, j)'
      BY <1>1, <2>2, <2>4 DEF Removes, Peer
    <3>2. QED
      BY <3>1
  <2>5. QED
    BY <2>3, <2>4
<1>11. QED
  <2>1. ListsAgree'
    BY <1>8, <1>9, <1>10 DEF ListsAgree, GameListed, ToRemove, ClosedRemoved, Removes
  <2>2. QED
    BY <1>3, <1>4, <1>5, <1>6, <1>7, <2>1 DEF ListInv

LEMMA ListRemoveSteps ==
    ASSUME CInv, CInv', ListInv, NEW c \in Clients,
           RemoveSource(c) \/ RemoveTarget(c) \/ RemoveOwn(c) \/ RemoveOpp(c)
    PROVE  ListInv'
<1> DEFINE i == cur[c]
           To(e, l) == RemoveFrom(e, i) /\ Goto(c, l)
           Rest(e) == \A d \in Ends(i) \ {e} : Removes(c, d, i) => Removes(c, d, i)'
<1>1. pc[c] \in Removing /\ UNCHANGED <<istate, source, target, cur>>
  BY DEF RemoveSource, RemoveTarget, RemoveOwn, RemoveOpp, Remove, madeVars, Removing
<1>2. /\ i \in Invs /\ c \in Ends(i) /\ source[i] \in Clients /\ target[i] \in Clients
      /\ source[i] # target[i]
  BY <1>1, Working DEF CInv, EInv, Removing, WithInv, Label
<1>3. Peer(c, i) \in Ends(i) /\ Peer(c, i) # c /\ Ends(i) = {c, Peer(c, i)}
  BY <1>2 DEF Ends, Peer
<1>4. \A l \in Label : Goto(c, l) => pc'[c] = l
  BY DEF Goto, CInv, TInv, TypeOK
<1> USE DEF Label
<1>5. CASE RemoveSource(c)
  <2>1. To(source[i], "rm_target")
    BY <1>5 DEF RemoveSource, Remove
  <2>2. Rest(source[i])
    BY <1>1, <1>4, <2>1 DEF Removes, Ends
  <2>3. QED
    BY <1>1, <1>2, <2>1, <2>2, ListRemove DEF Ends
<1>6. CASE RemoveTarget(c)
  <2>1. pc[c] = "rm_target" /\ To(target[i], "unref")
    BY <1>6 DEF RemoveTarget, Remove
  <2>2. Rest(target[i])
    BY <2>1 DEF Removes
  <2>3. QED
    BY <1>1, <1>2, <2>1, <2>2, ListRemove DEF Ends
<1>7. CASE RemoveOwn(c)
  <2>1. pc[c] = "rm_own" /\ To(c, "rm_opp")
    BY <1>7 DEF RemoveOwn, Remove
  <2>2. Rest(c)
    BY <1>1, <1>3, <1>4, <2>1 DEF Removes, Peer
  <2>3. QED
    BY <1>1, <1>2, <2>1, <2>2, ListRemove
<1>8. CASE RemoveOpp(c)
  <2>1. pc[c] = "rm_opp" /\ To(Peer(c, i), "post")
    BY <1>8 DEF RemoveOpp, Remove
  <2>2. Rest(Peer(c, i)) /\ Peer(c, i) \in Clients
    BY <1>2, <2>1 DEF Removes, Peer
  <2>3. QED
    BY <1>1, <1>3, <2>1, <2>2, ListRemove
<1>9. QED
  BY <1>5, <1>6, <1>7, <1>8

\* A new invitation is in no list and in nobody's hands.
LEMMA ListInvite ==
    ASSUME CInv, CInv', ListInv, NEW c \in Clients,
           \E p \in Players, r \in InviteRoles : RecvInvite(c, p, r)
    PROVE  ListInv'
<1>1. PICK i \in Invs :
        /\ istate[i] = "unused" /\ istate' = [istate EXCEPT ![i] = "open"]
        /\ \A j \in Invs \ {i} : source'[j] = source[j] /\ target'[j] = target[j]
        /\ source'[i] = c
        /\ target'[i] \in Clients
        /\ cur' = [cur EXCEPT ![c] = i]
  <2>1. PICK j \in Invs, t \in Clients :
          /\ istate[j] = "unused" /\ istate' = [istate EXCEPT ![j] = "open"]
          /\ source' = [source EXCEPT ![j] = c] /\ target' = [target EXCEPT ![j] = t]
          /\ cur' = [cur EXCEPT ![c] = j]
    BY DEF RecvInvite, MakeInv
  <2>2. /\ source'[j] = c /\ target'[j] = t
        /\ \A k \in Invs \ {j} : source'[k] = source[k] /\ target'[k] = target[k]
    BY <2>1 DEF CInv, TInv, TypeOK
  <2>3. QED
    BY <2>1, <2>2
<1>2. Goto(c, "add_source") /\ pc[c] = "idle" /\ list' = list
  BY DEF RecvInvite, MakeInv
<1>3. /\ pc'[c] = "add_source" /\ cur'[c] = i
      /\ \A d \in Clients \ {c} : pc'[d] = pc[d] /\ cur'[d] = cur[d]
  BY <1>1, <1>2 DEF Goto, CInv, TInv, TypeOK
<1>4. istate'[i] = "open" /\ \A j \in Invs \ {i} : istate'[j] = istate[j]
  BY <1>1 DEF CInv, TInv, TypeOK
<1>5. \A d, j : Listed(d, j)' <=> Listed(d, j)
  BY <1>2 DEF Listed
<1>6. /\ \A d \in Clients : ~Listed(d, i)
      /\ \A d \in Clients : pc[d] \in WithInv => cur[d] \in Invs \ {i} /\ d # c
  BY <1>1, <1>2, Working DEF CInv, EInv, WithInv
<1>7. Fresh'
  <2> SUFFICES ASSUME NEW d \in Clients, pc'[d] \in Adding
               PROVE  /\ source'[cur'[d]] = d /\ istate'[cur'[d]] = "open"
                      /\ ~Listed(target'[cur'[d]], cur'[d])
                      /\ pc'[d] = "add_source" => ~Listed(d, cur'[d])
                      /\ \A e \in Clients \ {d} : pc'[e] \in WithInv => cur'[e] # cur'[d]
    BY <1>5 DEF Fresh
  <2>1. CASE d = c
    BY <1>1, <1>3, <1>4, <1>6, <2>1
  <2>2. CASE d # c
    <3>1. pc[d] \in Adding /\ pc[d] \in WithInv /\ cur'[d] = cur[d] /\ cur[d] \in Invs \ {i}
      BY <1>3, <1>6, <2>2 DEF Adding, WithInv, Label
    <3>2. \A e \in Clients \ {d} : pc'[e] \in WithInv => cur'[e] # cur'[d]
      BY <1>3, <3>1 DEF ListInv, Fresh
    <3>3. QED
      BY <1>1, <1>3, <1>4, <2>2, <3>1, <3>2 DEF ListInv, Fresh
  <2>3. QED
    BY <2>1, <2>2
<1>8. Once' /\ Accepting'
  BY <1>1, <1>2, <1>3, <1>6 DEF ListInv, Once, Accepting, WithInv, Label
<1>9. Pinned'
  <2> SUFFICES ASSUME NEW d \in Clients, pc'[d] \in WithInv \ {"add_source"},
                      istate'[cur'[d]] # "closed"
               PROVE  Listed(d, cur'[d])
    BY <1>5 DEF Pinned
  <2>1. pc[d] \in WithInv \ {"add_source"} /\ cur'[d] = cur[d] /\ cur[d] \in Invs \ {i}
    BY <1>3, <1>6
  <2>2. QED
    BY <1>4, <2>1 DEF ListInv, Pinned
<1>10. Offered'
  <2> SUFFICES ASSUME NEW j \in Invs, istate'[j] = "open"
               PROVE  \/ Listed(source'[j], j)
                      \/ pc'[source'[j]] = "add_source" /\ cur'[source'[j]] = j
    BY <1>5 DEF Offered
  <2>1. CASE j = i
    BY <1>1, <1>3, <2>1
  <2>2. CASE j # i
    <3>1. istate[j] = "open" /\ source'[j] = source[j] /\ source[j] \in Clients
      BY <1>1, <1>4, <2>2 DEF CInv, EInv
    <3>2. QED
      BY <1>2, <1>3, <3>1 DEF ListInv, Offered
  <2>3. QED
    BY <2>1, <2>2
<1>11. GameListed'
  <2> SUFFICES ASSUME NEW j \in Invs, istate'[j] = "accepted"
               PROVE  Listed(source'[j], j) /\ Listed(target'[j], j)
    BY <1>5 DEF GameListed
  <2>1. j # i
    BY <1>4
  <2>2. QED
    BY <1>1, <1>4, <2>1 DEF ListInv, ListsAgree
<1>12. ToRemove'
  <2> SUFFICES ASSUME NEW d \in Clients, pc'[d] \in {"rm_own", "rm_opp"}
               PROVE  /\ pc'[d] = "rm_own" => Listed(d, cur[d])'
                      /\ Listed(Peer(d, cur[d]), cur[d])'
    BY DEF ToRemove
  <2>1. d # c /\ pc[d] = pc'[d] /\ cur'[d] = cur[d] /\ cur[d] \in Invs \ {i}
    BY <1>3, <1>6 DEF WithInv, Label
  <2>2. Peer(d, cur[d])' = Peer(d, cur[d])
    BY <1>1, <2>1 DEF Peer
  <2>3. QED
    BY <1>2, <2>1, <2>2 DEF ListInv, ListsAgree, Listed
<1>13. ClosedRemoved'
  <2> SUFFICES ASSUME NEW j \in Invs, NEW d \in Clients, istate'[j] = "closed", Listed(d, j)
               PROVE  \E e \in Clients : Removes(e, d, j)'
    BY <1>5 DEF ClosedRemoved
  <2>1. j # i /\ istate[j] = "closed"
    BY <1>4
  <2>2. PICK e \in Clients : Removes(e, d, j)
    BY <2>1, ListsAgreeParts DEF ListInv, ClosedRemoved
  <2>3. e # c
    BY <1>2, <2>2 DEF Removes
  <2>4. Removes(e, d, j)'
    BY <1>1, <1>3, <2>1, <2>2, <2>3 DEF Removes, Peer
  <2>5. QED
    BY <2>4
<1>14. QED
  <2>1. ListsAgree'
    BY <1>11, <1>12, <1>13 DEF ListsAgree, GameListed, ToRemove, ClosedRemoved, Removes
  <2>2. QED
    BY <1>7, <1>8, <1>9, <1>10, <2>1 DEF ListInv

LEMMA ListNext == CInv /\ ListInv /\ [Next]_vars => ListInv'
<1> SUFFICES ASSUME CInv, ListInv, [Next]_vars PROVE ListInv'
  OBVIOUS
<1>1. CInv'
  BY CloseNext
<1>2. CASE Next
  BY <1>1, <1>2, ListQuietSteps, ListStateSteps, ListAddSteps, ListRemoveSteps, ListInvite
  DEF Next, Recv, Work
<1>3. CASE UNCHANGED vars
  BY <1>3 DEF vars, madeVars, threadVars, ListInv, Fresh, Once, Pinned, Offered, Accepting,
              ListsAgree, Listed, Peer
<1>4. QED
  BY <1>2, <1>3

LEMMA ListInit == Init => ListInv
<1> SUFFICES ASSUME Init PROVE ListInv
  OBVIOUS
<1>1. Fresh /\ Pinned /\ Accepting
  BY DEF Init, Fresh, Pinned, Accepting, Adding, WithInv, Label
<1>2. Once /\ Offered /\ ListsAgree
  BY DEF Init, Once, Offered, ListsAgree, Listed
<1>3. QED
  BY <1>1, <1>2 DEF ListInv

LEMMA ListInvariant == Spec => [](CInv /\ ListInv)
<1>1. Init => CInv /\ ListInv
  BY CloseInit, ListInit
<1>2. CInv /\ ListInv /\ [Next]_vars => (CInv /\ ListInv)'
  BY CloseNext, ListNext
<1>3. QED
  BY <1>1, <1>2, PTL DEF Spec

\* Both players of a game can name it; what a closing thread has yet to take
\* out of a list is there; and a closed invitation is in no list but those.
THEOREM ClientListsAgree == Spec => []ListsAgree
<1>1. CInv /\ ListInv => ListsAgree
  BY DEF ListInv
<1>2. QED
  BY <1>1, ListInvariant, PTL

-----------------------------------------------------------------------------
\* What a step of thread c does to the lists: a new invitation comes, into c's
\* own list or that of a client that is logged in and not logging out; or one
\* goes; or neither.
Adds(c, d, i) ==
    /\ AddTo(d, i) /\ istate[i] = "open" /\ ~Listed(d, i)
    /\ \/ pc[c] = "add_source" /\ d = c
       \/ pc[c] = "add_target" /\ player[d] # NoPlayer /\ LockFree(c, d)

LEMMA ListChanges ==
    ASSUME CInv, ListInv, NEW c \in Clients, Recv(c) \/ Work(c)
    PROVE  \/ list' = list
           \/ \E d \in Clients, i \in Invs : Adds(c, d, i)
           \/ \E d \in Clients, i \in Invs : RemoveFrom(d, i) /\ Listed(d, i)
<1> SUFFICES ASSUME list' # list
             PROVE  \/ \E d \in Clients, i \in Invs : Adds(c, d, i)
                    \/ \E d \in Clients, i \in Invs : RemoveFrom(d, i) /\ Listed(d, i)
  OBVIOUS
<1> DEFINE i == cur[c]
<1>1. CASE AddSource(c)
  <2>1. i \in Invs /\ Adds(c, c, i)
    BY <1>1, Working DEF AddSource, Adds, ListInv, Fresh, Adding, CInv, WithInv, Label
  <2>2. QED
    BY <2>1
<1>2. CASE AddTarget(c)
  <2>1. i \in Invs /\ target[i] \in Clients /\ Adds(c, target[i], i)
    BY <1>2, Working DEF AddTarget, Adds, ListInv, Fresh, Adding, CInv, EInv, WithInv, Label
  <2>2. QED
    BY <2>1
<1>3. ASSUME NEW d, NEW l \in Removing, NEW m, Remove(c, d, l, m), d \in Ends(i)
      PROVE  \E e \in Clients, j \in Invs : RemoveFrom(e, j) /\ Listed(e, j)
  <2>1. RemoveFrom(d, i) /\ i \in Invs /\ d \in Clients
    BY <1>3, Working DEF Remove, CInv, EInv, Ends, Removing, WithInv, Label
  <2>2. Listed(d, i)
    BY <2>1 DEF RemoveFrom
  <2>3. QED
    BY <2>1, <2>2
<1>4. CASE RemoveSource(c) \/ RemoveTarget(c)
  BY <1>3, <1>4 DEF RemoveSource, RemoveTarget, Ends, Removing
<1>5. CASE RemoveOwn(c) \/ RemoveOpp(c)
  <2>1. c \in Ends(i) /\ Peer(c, i) \in Ends(i)
    BY <1>5 DEF RemoveOwn, RemoveOpp, Remove, CInv, EInv, Ends, Peer, WithInv, Label
  <2>2. QED
    BY <1>3, <1>5, <2>1 DEF RemoveOwn, RemoveOpp, Removing
<1>6. CASE Recv(c)
  BY <1>6 DEF Recv, Connect, RecvLogin, EndOfInput, RecvInvite, RecvRevoke, RecvDecline,
              RecvAccept, RecvResign, RecvMove, Request
<1>7. CASE \/ ScanPlayers(c) \/ SetPlayer(c) \/ BeginLogout(c) \/ LogoutNext(c) \/ EndLogout(c)
           \/ Unregister(c) \/ Free(c) \/ DropMade(c) \/ EndInvite(c)
  BY <1>7 DEF ScanPlayers, SetPlayer, BeginLogout, LogoutNext, EndLogout, Unregister, Free,
              DropMade, EndInvite
<1>8. CASE \/ CloseOpen(c) \/ Unref(c) \/ Notify(c) \/ Accept(c) \/ TellAccepted(c)
           \/ ResignGame(c) \/ PostResult(c)
           \/ ApplyMove(c) \/ RefuseMove(c) \/ TellMoved(c) \/ MoveOver(c) \/ Finish(c)
  BY <1>8 DEF CloseOpen, Unref, Notify, Accept, TellAccepted, ResignGame, PostResult, ApplyMove,
              RefuseMove, TellMoved, Tell, MoveOver, Finish
<1>9. QED
  BY <1>1, <1>2, <1>4, <1>5, <1>6, <1>7, <1>8 DEF Work

\* An id, which is a slot, keeps its invitation, and an invitation its id.
THEOREM ClientIdStable == Spec => IdStable
<1> DEFINE Stable(c) ==
           /\ Len(list'[c]) >= Len(list[c])
           /\ \A k \in DOMAIN list[c] :
                  list[c][k] # NoInv => list'[c][k] \in {list[c][k], NoInv}
           /\ \A k \in DOMAIN list'[c] :
                  list'[c][k] # NoInv => \/ k \in DOMAIN list[c] /\ list'[c][k] = list[c][k]
                                         \/ istate[list'[c][k]] = "open"
                                            /\ ~Listed(c, list'[c][k])
<1>1. ASSUME CInv, ListInv, [Next]_vars, NEW c \in Clients PROVE Stable(c)
  <2>1. TypeOK /\ list[c] \in Seq(Invs \cup {NoInv}) /\ Len(list[c]) \in Nat
    <3>1. TypeOK
      BY <1>1, Zenon DEF CInv, TInv
    <3>2. list \in [Clients -> Seq(Invs \cup {NoInv})]
      BY <3>1, Zenon DEF TypeOK
    <3>3. list[c] \in Seq(Invs \cup {NoInv})
      BY <1>1, <3>2
    <3>4. QED
      BY <3>1, <3>3
  <2>2. CASE list'[c] = list[c]
    BY <2>1, <2>2
  <2>3. ASSUME NEW d \in Clients, NEW i \in Invs, AddTo(d, i), istate[i] = "open", ~Listed(d, i)
        PROVE  Stable(c)
    <3>1. CASE c # d
      BY <2>1, <2>2, <2>3, <3>1, Added
    <3>2. CASE c = d
      <4>1. PICK k : /\ \A j : j \in DOMAIN list'[d] <=> j \in DOMAIN list[d] \/ j = k
                     /\ Len(list[d]) <= Len(list'[d])
                     /\ list'[d][k] = i
                     /\ k \in DOMAIN list[d] => list[d][k] = NoInv
                     /\ \A j \in DOMAIN list[d] \ {k} : list'[d][j] = list[d][j]
        BY <2>1, <2>3, Added
      <4>2. Len(list'[c]) >= Len(list[c])
        <5>1. list' \in [Clients -> Seq(Invs \cup {NoInv})]
          BY <2>1, <2>3, AddToType
        <5>2. Len(list'[c]) \in Nat
          BY <5>1
        <5>3. QED
          BY <2>1, <3>2, <4>1, <5>2
      <4>3. QED
        BY <2>3, <3>2, <4>1, <4>2
    <3>3. QED
      BY <3>1, <3>2
  <2>4. ASSUME NEW d \in Clients, NEW i \in Invs, RemoveFrom(d, i), Listed(d, i)
        PROVE  Stable(c)
    <3>1. CASE c # d
      BY <2>1, <2>2, <2>4, <3>1, Removed
    <3>2. CASE c = d
      <4>1. PICK k \in DOMAIN list[d] :
              /\ list[d][k] = i
              /\ \A j : j \in DOMAIN list'[d] <=> j \in DOMAIN list[d]
              /\ Len(list'[d]) >= Len(list[d])
              /\ list'[d][k] = NoInv
              /\ \A j \in DOMAIN list[d] \ {k} : list'[d][j] = list[d][j]
        BY <2>1, <2>4, Removed
      <4>2. QED
        BY <3>2, <4>1
    <3>3. QED
      BY <3>1, <3>2
  <2>5. QED
    BY <1>1, <2>2, <2>3, <2>4, ListChanges DEF Next, vars, Adds
<1>2. CInv /\ ListInv /\ [Next]_vars => [\A c \in Clients : Stable(c)]_vars
  <2> HIDE DEF Stable
  <2>1. QED
    BY <1>1
<1>3. QED
  BY <1>2, ListInvariant, PTL DEF Spec, IdStable

-----------------------------------------------------------------------------
(***************************************************************************)
(* What a step of thread c leaves alone.                                   *)
(***************************************************************************)

\* The other threads' variables, and the other clients' players.
LEMMA OthersKept ==
    ASSUME TInv, NEW c \in Clients, Recv(c) \/ Work(c), NEW d \in Clients \ {c}
    PROVE  /\ pc'[d] = pc[d] /\ cur'[d] = cur[d] /\ idx'[d] = idx[d] /\ verdict'[d] = verdict[d]
           /\ player'[d] = player[d]
<1> USE DEF Goto, Resume, TInv, TypeOK
<1>1. CASE Connect(c) \/ (\E p \in Players : RecvLogin(c, p)) \/ EndOfInput(c)
  BY <1>1 DEF Connect, RecvLogin, EndOfInput
<1>2. CASE \E p \in Players, r \in InviteRoles : RecvInvite(c, p, r)
  BY <1>2 DEF RecvInvite, MakeInv
<1>3. CASE \E i \in Invs : \/ RecvRevoke(c, i) \/ RecvDecline(c, i) \/ RecvAccept(c, i)
                         \/ RecvResign(c, i) \/ RecvMove(c, i)
  BY <1>3 DEF RecvRevoke, RecvDecline, RecvAccept, RecvResign, RecvMove, Request, Pin
<1>4. CASE ScanPlayers(c) \/ SetPlayer(c) \/ BeginLogout(c)
  BY <1>4 DEF ScanPlayers, SetPlayer, BeginLogout
<1>5. CASE LogoutNext(c) \/ EndLogout(c)
  BY <1>5 DEF LogoutNext, EndLogout, Pin
<1>6. CASE Unregister(c) \/ Free(c) \/ AddSource(c) \/ AddTarget(c)
  BY <1>6 DEF Unregister, Free, AddSource, AddTarget
<1>7. CASE DropMade(c) \/ EndInvite(c) \/ Unref(c) \/ Notify(c) \/ Finish(c)
  BY <1>7 DEF DropMade, EndInvite, Unref, Notify, Finish
<1>8. CASE RemoveSource(c) \/ RemoveTarget(c) \/ RemoveOwn(c) \/ RemoveOpp(c)
  BY <1>8 DEF RemoveSource, RemoveTarget, RemoveOwn, RemoveOpp, Remove
<1>9. CASE CloseOpen(c) \/ Accept(c) \/ TellAccepted(c) \/ TellMoved(c)
  BY <1>9 DEF CloseOpen, Accept, TellAccepted, TellMoved, Tell
<1>10. CASE ResignGame(c) \/ PostResult(c) \/ MoveOver(c)
  BY <1>10 DEF ResignGame, PostResult, MoveOver
<1>11. CASE ApplyMove(c) \/ RefuseMove(c)
  BY <1>11 DEF ApplyMove, RefuseMove
<1>12. QED
  BY <1>1, <1>2, <1>3, <1>4, <1>5, <1>6, <1>7, <1>8, <1>9, <1>10, <1>11 DEF Recv, Work

\* The fields of an invitation that has been made, and its place in its life:
\* from open to accepted it goes only in the hands of a thread that accepts it.
LEMMA StateKept ==
    ASSUME CInv, NEW c \in Clients, Recv(c) \/ Work(c), NEW i \in Invs, istate[i] # "unused"
    PROVE  /\ source'[i] = source[i] /\ target'[i] = target[i] /\ role'[i] = role[i]
           /\ started[i] => started'[i]
           /\ \/ istate'[i] = istate[i]
              \/ istate'[i] = "closed"
              \/ istate[i] = "open" /\ istate'[i] = "accepted" /\ pc[c] = "accept" /\ cur[c] = i
<1> USE DEF CInv, TInv, TypeOK, madeVars, gameVars
<1>1. CASE Connect(c) \/ (\E p \in Players : RecvLogin(c, p)) \/ EndOfInput(c)
  BY <1>1 DEF Connect, RecvLogin, EndOfInput
<1>2. CASE \E p \in Players, r \in InviteRoles : RecvInvite(c, p, r)
  <2>1. PICK d \in Clients, r \in InviteRoles, j \in Invs :
          /\ istate[j] = "unused" /\ istate' = [istate EXCEPT ![j] = "open"]
          /\ source' = [source EXCEPT ![j] = c] /\ target' = [target EXCEPT ![j] = d]
          /\ role' = [role EXCEPT ![j] = r] /\ started' = started
    BY <1>2 DEF RecvInvite, MakeInv
  <2>2. j # i
    BY <2>1
  <2>3. QED
    BY <2>1, <2>2
<1>3. CASE \E j \in Invs : \/ RecvRevoke(c, j) \/ RecvDecline(c, j) \/ RecvAccept(c, j)
                         \/ RecvResign(c, j) \/ RecvMove(c, j)
  BY <1>3 DEF RecvRevoke, RecvDecline, RecvAccept, RecvResign, RecvMove, Request
<1>4. CASE ScanPlayers(c) \/ SetPlayer(c) \/ BeginLogout(c) \/ LogoutNext(c) \/ EndLogout(c)
  BY <1>4 DEF ScanPlayers, SetPlayer, BeginLogout, LogoutNext, EndLogout
<1>5. CASE Unregister(c) \/ Free(c) \/ AddSource(c) \/ AddTarget(c)
  BY <1>5 DEF Unregister, Free, AddSource, AddTarget
<1>6. CASE DropMade(c) \/ EndInvite(c) \/ Unref(c) \/ Notify(c) \/ Finish(c)
  BY <1>6 DEF DropMade, EndInvite, Unref, Notify, Finish
<1>7. CASE RemoveSource(c) \/ RemoveTarget(c) \/ RemoveOwn(c) \/ RemoveOpp(c)
  BY <1>7 DEF RemoveSource, RemoveTarget, RemoveOwn, RemoveOpp, Remove
<1>8. CASE Accept(c)
  BY <1>8, Working DEF Accept, AcceptInv, WithInv, Label
<1>9. CASE CloseOpen(c) \/ ResignGame(c) \/ MoveOver(c)
  BY <1>9, Working DEF CloseOpen, ResignGame, MoveOver, CloseInv, CloseInvTo, WithInv, Label
<1>10. CASE TellAccepted(c) \/ TellMoved(c) \/ PostResult(c) \/ ApplyMove(c) \/ RefuseMove(c)
  BY <1>10 DEF TellAccepted, TellMoved, Tell, PostResult, ApplyMove, RefuseMove
<1>11. QED
  BY <1>1, <1>2, <1>3, <1>4, <1>5, <1>6, <1>7, <1>8, <1>9, <1>10 DEF Recv, Work

-----------------------------------------------------------------------------
(***************************************************************************)
(* What client_logout leaves behind.  Visited: while the loop runs, the    *)
(* slots up to where it is hold nothing but what LogoutLeaves allows, and  *)
(* no invitation can come, because the leaving client's mutex is held.     *)
(* NotIn: a client that is not logged in has an empty list, unless it has  *)
(* logged out; so a connection that ends without a login leaves nothing.   *)
(***************************************************************************)
Left == {"unreg", "free", "gone"}

LeftOver(c, i) ==
    \/ istate[i] = "closed"
    \/ istate[i] = "accepted" /\ (source[i] = c \/ role[i] = NULL_ROLE)

LogoutLabel == {"close", "rm_source", "rm_target", "unref", "notify", "refuse",
                "resign", "rm_own", "rm_opp", "post", "finish", "logout"}

Leaving(c) == logm = c /\ pc[c] \notin {"login", "log_set"}

VisitedBy(c) ==
    /\ pc[c] \in LogoutLabel
    /\ pc[c] \in {"close", "resign"} => idx[c] \in DOMAIN list[c]
    /\ pc[c] = "resign" => started[cur[c]]
    /\ pc[c] = "close" /\ istate[cur[c]] = "accepted" => source[cur[c]] = c
    /\ \A i \in Invs : \A k \in DOMAIN list[c] : k <= idx[c] /\ list[c][k] = i =>
           LeftOver(c, i) \/ (pc[c] \in {"close", "resign"} /\ cur[c] = i)

Visited == \A c \in Clients : Leaving(c) => VisitedBy(c)

NotIn ==
    \A c \in Clients : player[c] = NoPlayer =>
        \/ pc[c] \in Left
        \/ pc[c] \in {"new", "idle", "login", "log_set"} /\ \A i \in Invs : ~Listed(c, i)

LeaveInv == Visited /\ NotIn /\ LogoutLeaves

\* What a logout may leave behind stays what it may leave behind.
LEMMA LeftOverKept ==
    ASSUME CInv, NEW c \in Clients, Recv(c) \/ Work(c), NEW d \in Clients, NEW i \in Invs,
           istate[i] # "unused", LeftOver(d, i)
    PROVE  LeftOver(d, i)'
BY StateKept DEF LeftOver

\* A slot that held nothing, or another invitation, is filled only by Adds.
LEMMA SlotKept ==
    ASSUME CInv, ListInv, NEW c \in Clients, Recv(c) \/ Work(c), NEW d \in Clients,
           \A i \in Invs : ~Adds(c, d, i),
           NEW k \in DOMAIN list'[d], list'[d][k] # NoInv
    PROVE  k \in DOMAIN list[d] /\ list'[d][k] = list[d][k]
<1>1. TypeOK
  BY DEF CInv, TInv
<1>2. CASE list' = list
  BY <1>2
<1>3. ASSUME NEW e \in Clients, NEW i \in Invs, Adds(c, e, i)
      PROVE  k \in DOMAIN list[d] /\ list'[d][k] = list[d][k]
  <2>1. e # d /\ AddTo(e, i)
    BY <1>3 DEF Adds
  <2>2. QED
    BY <1>1, <2>1, Added
<1>4. ASSUME NEW e \in Clients, NEW i \in Invs, RemoveFrom(e, i), Listed(e, i)
      PROVE  k \in DOMAIN list[d] /\ list'[d][k] = list[d][k]
  <2>1. CASE e # d
    BY <1>1, <1>4, <2>1, Removed
  <2>2. CASE e = d
    <3>1. PICK m \in DOMAIN list[d] :
            /\ \A j : j \in DOMAIN list'[d] <=> j \in DOMAIN list[d]
            /\ list'[d][m] = NoInv
            /\ \A j \in DOMAIN list[d] \ {m} : list'[d][j] = list[d][j]
      BY <1>1, <1>4, <2>2, Removed
    <3>2. QED
      BY <3>1
  <2>3. QED
    BY <2>1, <2>2
<1>5. QED
  BY <1>2, <1>3, <1>4, ListChanges

\* Nor does a list get shorter.
LEMMA SlotsKept ==
    ASSUME CInv, ListInv, NEW c \in Clients, Recv(c) \/ Work(c), NEW d \in Clients
    PROVE  \A k \in DOMAIN list[d] : k \in DOMAIN list'[d]
<1>1. TypeOK
  BY DEF CInv, TInv
<1>2. ASSUME NEW e \in Clients, NEW i \in Invs, Adds(c, e, i)
      PROVE  \A k \in DOMAIN list[d] : k \in DOMAIN list'[d]
  BY <1>1, <1>2, Added DEF Adds
<1>3. ASSUME NEW e \in Clients, NEW i \in Invs, RemoveFrom(e, i), Listed(e, i)
      PROVE  \A k \in DOMAIN list[d] : k \in DOMAIN list'[d]
  BY <1>1, <1>3, Removed
<1>4. QED
  BY <1>2, <1>3, ListChanges

\* Who holds log_mutex: a thread takes it to log in or out.
LEMMA LogHolder ==
    ASSUME TInv, NEW c \in Clients, Recv(c) \/ Work(c)
    PROVE  \/ logm' = logm
           \/ logm' = NoClient
           \/ logm' = c /\ (BeginLogout(c) \/ pc'[c] = "login")
<1> USE DEF Goto, TInv, TypeOK
<1>1. CASE Connect(c) \/ (\E p \in Players : RecvLogin(c, p)) \/ EndOfInput(c)
  BY <1>1 DEF Connect, RecvLogin, EndOfInput
<1>2. CASE \E p \in Players, r \in InviteRoles : RecvInvite(c, p, r)
  BY <1>2 DEF RecvInvite, MakeInv
<1>3. CASE \E j \in Invs : \/ RecvRevoke(c, j) \/ RecvDecline(c, j) \/ RecvAccept(c, j)
                         \/ RecvResign(c, j) \/ RecvMove(c, j)
  BY <1>3 DEF RecvRevoke, RecvDecline, RecvAccept, RecvResign, RecvMove, Request
<1>4. CASE ScanPlayers(c) \/ SetPlayer(c) \/ BeginLogout(c) \/ LogoutNext(c) \/ EndLogout(c)
  BY <1>4 DEF ScanPlayers, SetPlayer, BeginLogout, LogoutNext, EndLogout
<1>5. CASE Unregister(c) \/ Free(c) \/ AddSource(c) \/ AddTarget(c)
  BY <1>5 DEF Unregister, Free, AddSource, AddTarget
<1>6. CASE DropMade(c) \/ EndInvite(c) \/ Unref(c) \/ Notify(c) \/ Finish(c)
  BY <1>6 DEF DropMade, EndInvite, Unref, Notify, Finish
<1>7. CASE RemoveSource(c) \/ RemoveTarget(c) \/ RemoveOwn(c) \/ RemoveOpp(c)
  BY <1>7 DEF RemoveSource, RemoveTarget, RemoveOwn, RemoveOpp, Remove
<1>8. CASE CloseOpen(c) \/ Accept(c) \/ ResignGame(c) \/ MoveOver(c)
  BY <1>8 DEF CloseOpen, Accept, ResignGame, MoveOver
<1>9. CASE TellAccepted(c) \/ TellMoved(c) \/ PostResult(c) \/ ApplyMove(c) \/ RefuseMove(c)
  BY <1>9 DEF TellAccepted, TellMoved, Tell, PostResult, ApplyMove, RefuseMove
<1>10. QED
  BY <1>1, <1>2, <1>3, <1>4, <1>5, <1>6, <1>7, <1>8, <1>9 DEF Recv, Work

\* Other threads add nothing to the list of a leaving client, and open no
\* game in it but one of its own invitations.
LEMMA VisitedOther ==
    ASSUME CInv, CInv', ListInv, Visited, NEW c \in Clients, Recv(c) \/ Work(c),
           NEW d \in Clients \ {c}, Leaving(d)'
    PROVE  VisitedBy(d)'
<1>1. /\ pc'[d] = pc[d] /\ cur'[d] = cur[d] /\ idx'[d] = idx[d]
  BY OthersKept DEF CInv
<1>2. Leaving(d)
  BY <1>1, LogHolder, NullAssumption DEF Leaving, CInv
<1>3. VisitedBy(d)
  BY <1>2 DEF Visited
<1>4. \A i \in Invs : ~Adds(c, d, i)
  BY <1>2 DEF Adds, LockFree, Leaving
<1>5. pc[d] \in {"close", "resign"} => cur[d] \in Invs /\ istate[cur[d]] # "unused" /\ d \in Ends(cur[d])
  BY Working DEF CInv, EInv, WithInv, Label
<1>6. ASSUME NEW i \in Invs, NEW k \in DOMAIN list'[d], k <= idx[d], list'[d][k] = i
      PROVE  LeftOver(d, i)' \/ (pc[d] \in {"close", "resign"} /\ cur[d] = i)
  <2>1. k \in DOMAIN list[d] /\ list[d][k] = i
    BY <1>4, <1>6, SlotKept, NullAssumption
  <2>2. istate[i] # "unused"
    BY <2>1 DEF CInv, EInv, Listed
  <2>3. QED
    BY <1>3, <1>6, <2>1, <2>2, LeftOverKept DEF VisitedBy
<1>7. pc[d] = "close" /\ istate'[cur[d]] = "accepted" => source'[cur[d]] = d
  <2> SUFFICES ASSUME pc[d] = "close", istate'[cur[d]] = "accepted" PROVE source'[cur[d]] = d
    OBVIOUS
  <2>1. CASE istate[cur[d]] = "accepted"
    BY <1>3, <1>5, <2>1, StateKept DEF VisitedBy
  <2>2. CASE istate[cur[d]] # "accepted"
    <3>1. pc[c] = "accept" /\ cur[c] = cur[d] /\ source'[cur[d]] = source[cur[d]]
      BY <1>5, <2>2, StateKept
    <3>2. target[cur[d]] = c
      BY <3>1 DEF ListInv, Accepting
    <3>3. QED
      BY <1>5, <3>1, <3>2 DEF Ends
  <2>3. QED
    BY <2>1, <2>2
<1>8. pc[d] \in {"close", "resign"} => idx[d] \in DOMAIN list'[d]
  BY <1>3, SlotsKept DEF VisitedBy
<1>9. pc[d] = "resign" => started'[cur[d]]
  BY <1>3, <1>5, StateKept DEF VisitedBy
<1>10. QED
  BY <1>1, <1>3, <1>6, <1>7, <1>8, <1>9 DEF VisitedBy

\* The loop itself: a slot is left for the next one when its invitation is
\* closed, or cannot be.
LEMMA VisitedOn ==
    ASSUME CInv, CInv', ListInv, NEW c \in Clients, Recv(c) \/ Work(c), VisitedBy(c),
           idx'[c] = idx[c], pc'[c] \in LogoutLabel \ {"close", "resign"},
           \A i \in Invs : pc[c] \in {"close", "resign"} /\ cur[c] = i => LeftOver(c, i)'
    PROVE  VisitedBy(c)'
<1>1. \A i \in Invs : ~Adds(c, c, i)
  BY DEF Adds, VisitedBy, LogoutLabel
<1>2. ASSUME NEW i \in Invs, NEW k \in DOMAIN list'[c], k <= idx[c], list'[c][k] = i
      PROVE  LeftOver(c, i)'
  <2>1. k \in DOMAIN list[c] /\ list[c][k] = i
    BY <1>1, <1>2, SlotKept, NullAssumption
  <2>2. istate[i] # "unused"
    BY <2>1 DEF CInv, EInv, Listed
  <2>3. CASE pc[c] \in {"close", "resign"} /\ cur[c] = i
    BY <2>3
  <2>4. CASE LeftOver(c, i)
    BY <2>2, <2>4, LeftOverKept
  <2>5. QED
    BY <1>2, <2>1, <2>3, <2>4 DEF VisitedBy
<1>3. QED
  BY <1>2 DEF VisitedBy

LEMMA VisitedNext ==
    ASSUME CInv, ListInv, NEW c \in Clients, VisitedBy(c), LogoutNext(c)
    PROVE  VisitedBy(c)'
<1>1. PICK k \in Ahead(c) :
        /\ \A j \in Ahead(c) : k <= j
        /\ idx' = [idx EXCEPT ![c] = k]
        /\ cur' = [cur EXCEPT ![c] = list[c][k]]
        /\ Goto(c, IF started[list[c][k]] THEN "resign" ELSE "close")
  BY DEF LogoutNext, Pin
<1> DEFINE i == list[c][k]
<1>2. /\ idx'[c] = k /\ cur'[c] = i
      /\ pc'[c] = IF started[i] THEN "resign" ELSE "close"
  BY <1>1 DEF Goto, CInv, TInv, TypeOK
<1>3. /\ UNCHANGED <<list, istate, source, role, started>> /\ pc[c] = "logout"
  BY DEF LogoutNext, madeVars, gameVars
<1>4. list[c] \in Seq(Invs \cup {NoInv}) /\ DOMAIN list[c] = 1..Len(list[c]) /\ idx[c] \in Nat
  BY DEF CInv, TInv, TypeOK
<1>5. k \in DOMAIN list[c] /\ k > idx[c] /\ i # NoInv /\ i \in Invs
  BY <1>4, ElementOfSeq DEF Ahead
<1>6. istate[i] = "accepted" => started[i]
  BY <1>5 DEF CInv, Phases
<1>7. ASSUME NEW j \in Invs, NEW m \in DOMAIN list[c], m <= k, list[c][m] = j
      PROVE  LeftOver(c, j) \/ i = j
  <2>1. CASE m <= idx[c]
    BY <1>3, <1>7, <2>1 DEF VisitedBy
  <2>2. CASE ~(m <= idx[c])
    <3>1. m \in Ahead(c)
      BY <1>4, <1>7, <2>2, NullAssumption DEF Ahead
    <3>2. m = k
      BY <1>1, <1>4, <1>5, <1>7, <3>1
    <3>3. QED
      BY <1>7, <3>2
  <2>3. QED
    BY <2>1, <2>2
<1>8. QED
  BY <1>2, <1>3, <1>5, <1>6, <1>7 DEF VisitedBy, LogoutLabel, LeftOver

\* What a thread does at the labels of a login, and when it is not logged in.
LEMMA LoginSteps ==
    ASSUME NEW c \in Clients, Recv(c) \/ Work(c)
    PROVE  /\ pc[c] = "login" => ScanPlayers(c)
           /\ pc[c] = "log_set" => SetPlayer(c)
           /\ pc[c] = "new" => Connect(c)
           /\ pc[c] = "idle" /\ player[c] = NoPlayer =>
                  (\E p \in Players : RecvLogin(c, p)) \/ EndOfInput(c)
           /\ pc[c] \in Left => Unregister(c) \/ Free(c)
BY DEF Left, Recv, Work, Connect, RecvLogin, EndOfInput, RecvInvite, RecvRevoke, RecvDecline,
       RecvAccept, RecvResign, RecvMove, Request, ScanPlayers, SetPlayer, BeginLogout,
       LogoutNext, EndLogout, Unregister, Free, AddSource, AddTarget, DropMade, EndInvite,
       CloseOpen, RemoveSource, RemoveTarget, Remove, Unref, Notify, Accept, TellAccepted, Tell,
       ResignGame, RemoveOwn, RemoveOpp, PostResult, ApplyMove, RefuseMove, TellMoved, MoveOver,
       Finish

\* Each way for the thread to be done with the invitation of a slot.
LEMMA VisitedOwn ==
    ASSUME CInv, CInv', ListInv, LogHeld, Visited, NEW c \in Clients, Recv(c) \/ Work(c), Leaving(c)'
    PROVE  VisitedBy(c)'
<1> DEFINE i == cur[c]
           Done == /\ idx'[c] = idx[c] /\ pc'[c] \in LogoutLabel \ {"close", "resign"}
                   /\ pc[c] \notin {"close", "resign"}
<1>1. pc'[c] # "login" /\ pc'[c] # "log_set" /\ logm' = c
  BY DEF Leaving
<1>2. CASE BeginLogout(c)
  <2>1. list' = list /\ idx'[c] = 0 /\ pc'[c] = "logout"
    BY <1>2 DEF BeginLogout, Goto, CInv, TInv, TypeOK
  <2>2. \A k \in DOMAIN list[c] : ~(k <= 0)
    <3>1. list[c] \in Seq(Invs \cup {NoInv})
      BY DEF CInv, TInv, TypeOK
    <3>2. QED
      BY <3>1
  <2>3. QED
    BY <2>1, <2>2 DEF VisitedBy, LogoutLabel
<1>3. CASE ~BeginLogout(c)
  <2>1. logm = c
    BY <1>1, <1>3, LogHolder, NullAssumption DEF CInv
  <2>2. pc[c] \notin {"login", "log_set"}
    <3>1. CASE pc[c] = "login"
      <4>1. ScanPlayers(c)
        BY <3>1, LoginSteps
      <4>2. QED
        BY <1>1, <4>1, NullAssumption DEF ScanPlayers, Goto, CInv, TInv, TypeOK
    <3>2. CASE pc[c] = "log_set"
      <4>1. SetPlayer(c)
        BY <3>2, LoginSteps
      <4>2. QED
        BY <1>1, <4>1, NullAssumption DEF SetPlayer
    <3>3. QED
      BY <3>1, <3>2
  <2>3. VisitedBy(c) /\ pc[c] \in LogoutLabel
    BY <2>1, <2>2 DEF Visited, Leaving, VisitedBy
  <2>4. \/ LogoutNext(c) \/ EndLogout(c) \/ CloseOpen(c) \/ RemoveSource(c) \/ RemoveTarget(c)
        \/ Unref(c) \/ Notify(c) \/ ResignGame(c) \/ RemoveOwn(c) \/ RemoveOpp(c)
        \/ PostResult(c) \/ Finish(c)
    BY <2>3 DEF LogoutLabel, Recv, Work, Connect, RecvLogin, EndOfInput, RecvInvite,
       RecvRevoke, RecvDecline, RecvAccept, RecvResign, RecvMove, Request, ScanPlayers,
       SetPlayer, BeginLogout, Unregister, Free, AddSource, AddTarget, DropMade, EndInvite,
       Accept, TellAccepted, Tell, ApplyMove, RefuseMove, TellMoved, MoveOver
  <2>5. CASE Done
    BY <2>3, <2>5, VisitedOn
  <2> USE DEF Goto, CInv, TInv, TypeOK, LogoutLabel
  <2>6. CASE LogoutNext(c)
    BY <2>3, <2>6, VisitedNext
  <2>7. CASE EndLogout(c)
    BY <1>1, <2>7, NullAssumption DEF EndLogout
  <2>8. CASE RemoveSource(c) \/ RemoveTarget(c) \/ RemoveOwn(c) \/ RemoveOpp(c)
    BY <2>5, <2>8 DEF RemoveSource, RemoveTarget, RemoveOwn, RemoveOpp, Remove
  <2>9. CASE Unref(c) \/ PostResult(c)
    BY <2>5, <2>9 DEF Unref, PostResult
  <2>10. CASE Notify(c) \/ Finish(c)
    BY <2>1, <2>5, <2>10 DEF Notify, Finish, Resume
  <2>11. CASE CloseOpen(c) \/ ResignGame(c)
    <3>1. i \in Invs /\ istate[i] # "unused" /\ istate'[i] \in {"closed", istate[i]}
      BY <2>11, Working, StateKept
      DEF CloseOpen, ResignGame, EInv, WithInv, Label
    <3>2. /\ idx'[c] = idx[c] /\ pc'[c] \in LogoutLabel \ {"close", "resign"}
          /\ UNCHANGED <<source, role>>
      BY <2>11 DEF CloseOpen, ResignGame, madeVars
    <3>3. LeftOver(c, i) \/ istate'[i] = "closed"
      <4>1. CASE CloseOpen(c)
        BY <2>3, <3>1, <4>1 DEF CloseOpen, Closable, CloseInv, CloseInvTo, VisitedBy, LeftOver
      <4>2. CASE ResignGame(c)
        <5>1. started[i]
          BY <2>3, <4>2 DEF ResignGame, VisitedBy
        <5>2. istate[i] \in {"accepted", "closed"}
          BY <3>1, <5>1 DEF Phases
        <5>3. CASE Closable(i, RoleOf(c, i))
          BY <3>1, <4>2, <5>1, <5>3 DEF ResignGame, CloseInv, CloseInvTo
        <5>4. CASE ~Closable(i, RoleOf(c, i))
          BY <5>2, <5>4 DEF Closable, RoleOf, LeftOver
        <5>5. QED
          BY <5>3, <5>4
      <4>3. QED
        BY <2>11, <4>1, <4>2
    <3>4. \A j \in Invs : pc[c] \in {"close", "resign"} /\ cur[c] = j => LeftOver(c, j)'
      BY <3>1, <3>2, <3>3 DEF LeftOver
    <3>5. QED
      BY <2>3, <3>2, <3>4, VisitedOn
  <2>12. QED
    BY <2>4, <2>6, <2>7, <2>8, <2>9, <2>10, <2>11
<1>4. QED
  BY <1>2, <1>3

\* A thread leaves at the end of its logout, or at once if it is not logged in.
LEMMA LeaveSteps ==
    ASSUME TInv, NEW c \in Clients, Recv(c) \/ Work(c)
    PROVE  /\ pc'[c] \in Left /\ pc[c] \notin Left =>
                  EndLogout(c) \/ (EndOfInput(c) /\ player[c] = NoPlayer)
           /\ player' # player => SetPlayer(c) \/ EndLogout(c)
<1> USE DEF Goto, Resume, TInv, TypeOK, Left
<1>1. CASE Connect(c) \/ (\E p \in Players : RecvLogin(c, p)) \/ EndOfInput(c)
  BY <1>1 DEF Connect, RecvLogin, EndOfInput
<1>2. CASE \E p \in Players, r \in InviteRoles : RecvInvite(c, p, r)
  BY <1>2 DEF RecvInvite, MakeInv
<1>3. CASE \E j \in Invs : \/ RecvRevoke(c, j) \/ RecvDecline(c, j) \/ RecvAccept(c, j)
                         \/ RecvResign(c, j) \/ RecvMove(c, j)
  BY <1>3 DEF RecvRevoke, RecvDecline, RecvAccept, RecvResign, RecvMove, Request, Pin
<1>4. CASE ScanPlayers(c) \/ SetPlayer(c) \/ BeginLogout(c) \/ LogoutNext(c) \/ EndLogout(c)
  BY <1>4 DEF ScanPlayers, SetPlayer, BeginLogout, LogoutNext, EndLogout, Pin
<1>5. CASE Unregister(c) \/ Free(c) \/ AddSource(c) \/ AddTarget(c)
  BY <1>5 DEF Unregister, Free, AddSource, AddTarget
<1>6. CASE DropMade(c) \/ EndInvite(c) \/ Unref(c) \/ Notify(c) \/ Finish(c)
  BY <1>6 DEF DropMade, EndInvite, Unref, Notify, Finish
<1>7. CASE RemoveSource(c) \/ RemoveTarget(c) \/ RemoveOwn(c) \/ RemoveOpp(c)
  BY <1>7 DEF RemoveSource, RemoveTarget, RemoveOwn, RemoveOpp, Remove
<1>8. CASE CloseOpen(c) \/ Accept(c) \/ ResignGame(c) \/ MoveOver(c)
  BY <1>8 DEF CloseOpen, Accept, ResignGame, MoveOver
<1>9. CASE TellAccepted(c) \/ TellMoved(c) \/ PostResult(c) \/ ApplyMove(c) \/ RefuseMove(c)
  BY <1>9 DEF TellAccepted, TellMoved, Tell, PostResult, ApplyMove, RefuseMove
<1>10. QED
  BY <1>1, <1>2, <1>3, <1>4, <1>5, <1>6, <1>7, <1>8, <1>9 DEF Recv, Work

LEMMA NotInStep ==
    ASSUME CInv, CInv', ListInv, LInv, NotIn, NEW c \in Clients, Recv(c) \/ Work(c) PROVE NotIn'
<1> SUFFICES ASSUME NEW d \in Clients, player'[d] = NoPlayer
             PROVE  \/ pc'[d] \in Left
                    \/ /\ pc'[d] \in {"new", "idle", "login", "log_set"}
                       /\ \A i \in Invs : ~Listed(d, i)'
  BY DEF NotIn, Listed
<1>1. CASE d # c
  <2>1. player[d] = NoPlayer /\ pc'[d] = pc[d]
    BY <1>1, OthersKept DEF CInv
  <2>2. \A i \in Invs : ~Adds(c, d, i)
    BY <1>1, <2>1 DEF Adds
  <2>3. \A i \in Invs : Listed(d, i)' => Listed(d, i)
    BY <2>2, SlotKept, NullAssumption DEF Listed
  <2>4. QED
    BY <2>1, <2>3 DEF NotIn
<1> USE DEF Goto, CInv, TInv, TypeOK
<1>2. CASE d = c /\ player[c] = NoPlayer
  <2>1. CASE pc[c] \in Left
    <3>1. Unregister(c) \/ Free(c)
      BY <2>1, LoginSteps
    <3>2. QED
      BY <1>2, <3>1 DEF Unregister, Free, Left
  <2>2. CASE pc[c] \notin Left
    <3>1. pc[c] \in {"new", "idle", "login", "log_set"} /\ \A i \in Invs : ~Listed(c, i)
      BY <1>2, <2>2 DEF NotIn
    <3>2. ~SetPlayer(c)
      BY <1>2, NullAssumption DEF SetPlayer, LInv, Wanted
    <3>3. \/ Connect(c) \/ (\E p \in Players : RecvLogin(c, p)) \/ ScanPlayers(c)
          \/ EndOfInput(c)
      BY <1>2, <3>1, <3>2, LoginSteps
    <3>4. list' = list /\ pc'[c] \in {"idle", "login", "log_set", "unreg"}
      BY <1>2, <3>3 DEF Connect, RecvLogin, ScanPlayers, EndOfInput
    <3>5. QED
      BY <1>2, <3>1, <3>4 DEF Left, Listed
  <2>3. QED
    BY <2>1, <2>2
<1>3. CASE d = c /\ player[c] # NoPlayer
  <2>1. SetPlayer(c) \/ EndLogout(c)
    BY <1>3, LeaveSteps
  <2>2. ~SetPlayer(c)
    BY <1>3, NullAssumption DEF SetPlayer, LInv, Wanted
  <2>3. QED
    BY <1>3, <2>1, <2>2 DEF EndLogout, Left
<1>4. QED
  BY <1>1, <1>2, <1>3

LEMMA LogoutLeavesStep ==
    ASSUME CInv, CInv', ListInv, LInv, LeaveInv, NEW c \in Clients, Recv(c) \/ Work(c)
    PROVE  LogoutLeaves'
<1> SUFFICES ASSUME NEW d \in Clients, NEW i \in Invs, pc'[d] \in Left, Listed(d, i)'
             PROVE  LeftOver(d, i)'
  BY DEF LogoutLeaves, LeftOver, Left
<1>1. CASE pc[d] \in Left
  <2>1. player[d] = NoPlayer
    BY <1>1 DEF LInv, Anonymous, Left, Away
  <2>2. \A j \in Invs : ~Adds(c, d, j)
    BY <1>1, <2>1 DEF Adds, Left
  <2>3. Listed(d, i)
    BY <2>2, SlotKept, NullAssumption DEF Listed
  <2>4. LeftOver(d, i) /\ istate[i] # "unused"
    BY <1>1, <2>3 DEF LeaveInv, LogoutLeaves, LeftOver, Left, CInv, EInv
  <2>5. QED
    BY <2>4, LeftOverKept
<1>2. CASE pc[d] \notin Left
  <2>1. d = c
    BY <1>2, OthersKept DEF CInv
  <2>2. CASE EndOfInput(c) /\ player[c] = NoPlayer
    <3>1. list' = list /\ pc[c] = "idle"
      BY <2>2 DEF EndOfInput
    <3>2. ~Listed(c, i)
      BY <2>2, <3>1 DEF LeaveInv, NotIn, Left
    <3>3. QED
      BY <2>1, <3>1, <3>2 DEF Listed
  <2>3. CASE EndLogout(c)
    <3>1. pc[c] = "logout" /\ Ahead(c) = {} /\ UNCHANGED <<list, istate, source, role>>
      BY <2>3 DEF EndLogout, madeVars
    <3>2. VisitedBy(c)
      BY <3>1 DEF LeaveInv, Visited, Leaving, LInv, LogHeld, Locked
    <3>3. PICK k \in DOMAIN list[c] : list[c][k] = i
      BY <2>1, <3>1 DEF Listed
    <3>4. k <= idx[c]
      <4>1. list[c] \in Seq(Invs \cup {NoInv}) /\ idx[c] \in Nat
        BY DEF CInv, TInv, TypeOK
      <4>2. ~(k > idx[c])
        BY <3>1, <3>3, NullAssumption DEF Ahead
      <4>3. QED
        BY <4>1, <4>2
    <3>5. LeftOver(c, i)
      BY <3>1, <3>2, <3>3, <3>4 DEF VisitedBy
    <3>6. QED
      BY <2>1, <3>1, <3>5 DEF LeftOver
  <2>4. QED
    BY <1>2, <2>1, <2>2, <2>3, LeaveSteps DEF CInv
<1>3. QED
  BY <1>1, <1>2

LEMMA LeaveNext == CInv /\ ListInv /\ LInv /\ LeaveInv /\ [Next]_vars => LeaveInv'
<1> SUFFICES ASSUME CInv, ListInv, LInv, LeaveInv, [Next]_vars PROVE LeaveInv'
  OBVIOUS
<1>1. CInv'
  BY CloseNext
<1>2. ASSUME NEW c \in Clients, Recv(c) \/ Work(c) PROVE LeaveInv'
  <2>1. Visited'
    BY <1>1, <1>2, VisitedOther, VisitedOwn DEF LeaveInv, Visited, LInv
  <2>2. QED
    BY <1>1, <1>2, <2>1, NotInStep, LogoutLeavesStep DEF LeaveInv
<1>3. CASE UNCHANGED vars
  BY <1>3 DEF vars, madeVars, gameVars, threadVars, LeaveInv, Visited, VisitedBy, Leaving,
              LeftOver, NotIn, LogoutLeaves, Listed
<1>4. QED
  BY <1>2, <1>3 DEF Next

LEMMA LeaveInvariant == Spec => [](CInv /\ ListInv /\ LInv /\ LeaveInv)
<1>1. Init => LeaveInv
  BY NullAssumption DEF Init, LeaveInv, Visited, Leaving, NotIn, LogoutLeaves, Listed, Left
<1>2. QED
  BY <1>1, LeaveNext, ListInvariant, LoginInvariant, PTL DEF Spec

\* A logout leaves no open invitation behind, and no game but those that it
\* could not see or may not resign.
THEOREM ClientLogoutLeaves == Spec => []LogoutLeaves
<1>1. LeaveInv => LogoutLeaves
  BY DEF LeaveInv
<1>2. QED
  BY <1>1, LeaveInvariant, PTL


-----------------------------------------------------------------------------
(***************************************************************************)
(* RefsExact counts in both directions, so a step has to be followed on    *)
(* both sides: what it does to the two counters, and to the four sets that *)
(* they count.  It needs that a thread holds an invitation only where its  *)
(* label says so (Known's first part), and that no new client is an end of *)
(* an invitation (its second part), for Connect sets the counter to 1.     *)
(***************************************************************************)
Known ==
    /\ \A c \in Clients : cur[c] # NoInv => pc[c] \in WithInv
    /\ \A i \in Invs : istate[i] # "unused" => \A d \in Ends(i) :
           pc[d] # "new" /\ (player[d] # NoPlayer \/ pc[d] \in Left)

Bit(P) == IF P THEN 1 ELSE 0

\* Who refers to invitation i, and what refers to client d.
Holders(i) == {c \in Clients : cur[c] = i /\ pc[c] \notin Unpinned}
Holding(i) == {d \in Clients : Listed(d, i)}
Live(d)    == {i \in Invs : irefs[i] > 0 /\ d \in Ends(i)}
Makers(d)  == {c \in Clients : pc[c] \in Making /\ target[cur[c]] = d}

InvRefs ==
    \A i \in Invs : irefs[i] = Cardinality(Holders(i)) + Cardinality(Holding(i))
ClientRefs ==
    \A d \in Clients :
        crefs[d] = Bit(Registered(d)) + Cardinality(Live(d)) + Cardinality(Makers(d))

RefInv == Known /\ InvRefs /\ ClientRefs

LEMMA RefsParts == RefsExact <=> InvRefs /\ ClientRefs
BY DEF RefsExact, InvRefs, ClientRefs, Holders, Holding, Live, Makers, Bit, Ends

\* A set that gains or loses at most one element.
LEMMA Recount ==
    ASSUME NEW S, IsFiniteSet(S), NEW T, NEW x, \A y : y # x => (y \in S <=> y \in T)
    PROVE  /\ Cardinality(S) \in Nat /\ Cardinality(T) \in Nat
           /\ Cardinality(T) = Cardinality(S) + Bit(x \in T) - Bit(x \in S)
<1>1. Cardinality(S) \in Nat
  BY FS_CardinalityType
<1>2. CASE x \in S /\ x \notin T
  <2>1. T = S \ {x}
    BY <1>2
  <2>2. Cardinality(T) = Cardinality(S) - 1 /\ IsFiniteSet(T)
    BY <1>2, <2>1, FS_RemoveElement
  <2>3. QED
    BY <1>1, <1>2, <2>2, FS_CardinalityType DEF Bit
<1>3. CASE x \notin S /\ x \in T
  <2>1. T = S \cup {x}
    BY <1>3
  <2>2. Cardinality(T) = Cardinality(S) + 1
    BY <1>3, <2>1, FS_AddElement
  <2>3. QED
    BY <1>1, <1>3, <2>2 DEF Bit
<1>4. CASE x \in S <=> x \in T
  <2>1. T = S
    BY <1>4
  <2>2. QED
    BY <1>1, <2>1 DEF Bit
<1>5. QED
  BY <1>2, <1>3, <1>4

\* The counts are kept if the counters go with the sets, of which thread c and
\* the list of client d change Holders and Holding, and invitation i and thread
\* c change Live and Makers.
LEMMA RefStep ==
    ASSUME CInv, InvRefs, ClientRefs, NEW c \in Clients, Recv(c) \/ Work(c), NEW d, NEW i,
           \A e \in Clients \ {d}, j \in Invs : Listed(e, j)' <=> Listed(e, j),
           \A j \in Invs :
               irefs'[j] = irefs[j] + Bit(c \in Holders(j)') - Bit(c \in Holders(j))
                                    + Bit(d \in Holding(j)') - Bit(d \in Holding(j)),
           \A j \in Invs \ {i}, e \in Clients : j \in Live(e)' <=> j \in Live(e),
           \A e \in Clients :
               crefs'[e] = crefs[e] + Bit(Registered(e)') - Bit(Registered(e))
                                    + Bit(i \in Live(e)') - Bit(i \in Live(e))
                                    + Bit(c \in Makers(e)') - Bit(c \in Makers(e))
    PROVE  InvRefs' /\ ClientRefs'
<1>1. \A e \in Clients \ {c} : pc'[e] = pc[e] /\ cur'[e] = cur[e]
  BY OthersKept DEF CInv
<1>2. ASSUME NEW j \in Invs
      PROVE  irefs'[j] = Cardinality(Holders(j)') + Cardinality(Holding(j)')
  <2>1. IsFiniteSet(Holders(j)) /\ IsFiniteSet(Holding(j))
    BY ObjectsAssumption, FS_Subset DEF Holders, Holding
  <2>2. \A e : e # c => (e \in Holders(j) <=> e \in Holders(j)')
    BY <1>1 DEF Holders
  <2>3. \A e : e # d => (e \in Holding(j) <=> e \in Holding(j)')
    BY DEF Holding
  <2>4. /\ Cardinality(Holders(j)) \in Nat /\ Cardinality(Holders(j)') \in Nat
        /\ Cardinality(Holders(j)') = Cardinality(Holders(j)) + Bit(c \in Holders(j)')
                                      - Bit(c \in Holders(j))
    BY <2>1, <2>2, Recount
  <2>5. /\ Cardinality(Holding(j)) \in Nat /\ Cardinality(Holding(j)') \in Nat
        /\ Cardinality(Holding(j)') = Cardinality(Holding(j)) + Bit(d \in Holding(j)')
                                      - Bit(d \in Holding(j))
    BY <2>1, <2>3, Recount
  <2>6. irefs[j] = Cardinality(Holders(j)) + Cardinality(Holding(j))
    BY DEF InvRefs
  <2>7. QED
    BY <2>4, <2>5, <2>6 DEF Bit
<1>3. ASSUME NEW e \in Clients
      PROVE  crefs'[e] = Bit(Registered(e)') + Cardinality(Live(e)') + Cardinality(Makers(e)')
  <2>1. IsFiniteSet(Live(e)) /\ IsFiniteSet(Makers(e))
    BY ObjectsAssumption, FS_Subset DEF Live, Makers
  <2>2. \A j : j # i => (j \in Live(e) <=> j \in Live(e)')
    BY DEF Live
  <2>3. \A f : f # c => (f \in Makers(e) <=> f \in Makers(e)')
    <3>1. \A f \in Clients : pc[f] \in Making => target'[cur[f]] = target[cur[f]]
      BY StateKept, Working DEF CInv, EInv, Making, WithInv, Label
    <3>2. QED
      BY <1>1, <3>1 DEF Makers
  <2>4. /\ Cardinality(Live(e)) \in Nat /\ Cardinality(Live(e)') \in Nat
        /\ Cardinality(Live(e)') = Cardinality(Live(e)) + Bit(i \in Live(e)')
                                   - Bit(i \in Live(e))
    BY <2>1, <2>2, Recount
  <2>5. /\ Cardinality(Makers(e)) \in Nat /\ Cardinality(Makers(e)') \in Nat
        /\ Cardinality(Makers(e)') = Cardinality(Makers(e)) + Bit(c \in Makers(e)')
                                     - Bit(c \in Makers(e))
    BY <2>1, <2>3, Recount
  <2>6. crefs[e] = Bit(Registered(e)) + Cardinality(Live(e)) + Cardinality(Makers(e))
    BY DEF ClientRefs
  <2>7. QED
    BY <2>4, <2>5, <2>6 DEF Bit
<1>4. QED
  BY <1>2, <1>3 DEF InvRefs, ClientRefs

\* An invitation that a list or a thread holds has a reference, one that both
\* hold has two, and one that has not been made has none.
LEMMA Counted ==
    ASSUME CInv, Known, InvRefs, NEW i \in Invs
    PROVE  /\ irefs[i] \in Nat
           /\ Holders(i) # {} \/ Holding(i) # {} => irefs[i] >= 1
           /\ Holders(i) # {} /\ Holding(i) # {} => irefs[i] >= 2
           /\ istate[i] = "unused" => Holders(i) = {} /\ Holding(i) = {} /\ irefs[i] = 0
<1>1. IsFiniteSet(Holders(i)) /\ IsFiniteSet(Holding(i))
  BY ObjectsAssumption, FS_Subset DEF Holders, Holding
<1>2. /\ Cardinality(Holders(i)) \in Nat /\ Cardinality(Holding(i)) \in Nat
      /\ Cardinality(Holders(i)) = 0 <=> Holders(i) = {}
      /\ Cardinality(Holding(i)) = 0 <=> Holding(i) = {}
  BY <1>1, FS_CardinalityType, FS_EmptySet
<1>3. irefs[i] = Cardinality(Holders(i)) + Cardinality(Holding(i))
  BY DEF InvRefs
<1>4. istate[i] = "unused" => Holders(i) = {} /\ Holding(i) = {}
  BY NullAssumption DEF CInv, EInv, Known, Holders, Holding
<1>5. QED
  BY <1>2, <1>3, <1>4

\* A thread moves on, and nothing that is counted changes.
Uncounted(l) == l \in {"new", "free", "gone"}

LEMMA RefQuiet ==
    ASSUME CInv, InvRefs, ClientRefs, NEW c \in Clients, Recv(c) \/ Work(c),
           UNCHANGED <<irefs, list, crefs, source, target>>, NEW l \in Label, Goto(c, l),
           \A j \in Invs : cur'[c] = j /\ l \notin Unpinned <=> cur[c] = j /\ pc[c] \notin Unpinned,
           l \in Making <=> pc[c] \in Making, cur' = cur \/ l \notin Making,
           Uncounted(l) <=> Uncounted(pc[c])
    PROVE  InvRefs' /\ ClientRefs'
<1>1. pc'[c] = l /\ \A d \in Clients \ {c} : pc'[d] = pc[d]
  BY DEF Goto, CInv, TInv, TypeOK
<1>2. \A j \in Invs : /\ c \in Holders(j)' <=> c \in Holders(j)
                      /\ c \in Holding(j)' <=> c \in Holding(j)
                      /\ irefs[j] \in Int
  BY <1>1 DEF Holders, Holding, Listed, CInv, TInv, TypeOK
<1>3. \A e \in Clients : /\ Registered(e)' <=> Registered(e)
                         /\ c \in Makers(e)' <=> c \in Makers(e)
                         /\ crefs[e] \in Int
  BY <1>1 DEF Registered, Makers, Uncounted, CInv, TInv, TypeOK
<1>4. \A j, e : j \in Live(e)' <=> j \in Live(e)
  BY DEF Live, Ends
<1>5. \A j \in Invs :
          irefs'[j] = irefs[j] + Bit(c \in Holders(j)') - Bit(c \in Holders(j))
                               + Bit(c \in Holding(j)') - Bit(c \in Holding(j))
  BY <1>2 DEF Bit
<1>6. \A e \in Clients :
          crefs'[e] = crefs[e] + Bit(Registered(e)') - Bit(Registered(e))
                               + Bit(NoInv \in Live(e)') - Bit(NoInv \in Live(e))
                               + Bit(c \in Makers(e)') - Bit(c \in Makers(e))
  BY <1>3, <1>4 DEF Bit
<1>7. \A e \in Clients, j \in Invs : Listed(e, j)' <=> Listed(e, j)
  BY DEF Listed
<1>8. QED
  BY <1>4, <1>5, <1>6, <1>7, RefStep

\* The references to clients, where invitations stay alive or stay freed.
LEMMA RefLive ==
    ASSUME CInv, ClientRefs, NEW c \in Clients, crefs' = crefs,
           UNCHANGED <<source, target>>, \A j \in Invs : irefs'[j] > 0 <=> irefs[j] > 0,
           NEW l \in Label, Goto(c, l), l \in Making <=> pc[c] \in Making,
           cur' = cur \/ l \notin Making, ~Uncounted(l), ~Uncounted(pc[c])
    PROVE  /\ \A j \in Invs, e \in Clients : j \in Live(e)' <=> j \in Live(e)
           /\ \A e \in Clients :
                  crefs'[e] = crefs[e] + Bit(Registered(e)') - Bit(Registered(e))
                                       + Bit(NoInv \in Live(e)') - Bit(NoInv \in Live(e))
                                       + Bit(c \in Makers(e)') - Bit(c \in Makers(e))
<1>1. pc'[c] = l /\ \A d \in Clients \ {c} : pc'[d] = pc[d]
  BY DEF Goto, CInv, TInv, TypeOK
<1>2. \A j, e : j \in Live(e)' <=> j \in Live(e)
  BY DEF Live, Ends
<1>3. \A e \in Clients : /\ Registered(e)' <=> Registered(e)
                         /\ c \in Makers(e)' <=> c \in Makers(e)
                         /\ crefs[e] \in Int
  BY <1>1 DEF Registered, Makers, Uncounted, CInv, TInv, TypeOK
<1>4. QED
  BY <1>2, <1>3 DEF Bit

\* A thread takes a reference to an invitation of its own list.
LEMMA RefPin ==
    ASSUME CInv, Known, InvRefs, ClientRefs, NEW c \in Clients, Recv(c) \/ Work(c),
           UNCHANGED <<list, crefs, source, target>>, NEW i \in Invs,
           NEW l \in WithInv \ (Unpinned \cup Making), Pin(c, i, l), pc[c] \in {"idle", "logout"}
    PROVE  InvRefs' /\ ClientRefs'
<1>1. /\ Goto(c, l) /\ pc'[c] = l /\ cur'[c] = i /\ cur[c] = NoInv /\ Listed(c, i)
      /\ irefs'[i] = irefs[i] + 1 /\ \A j \in Invs \ {i} : irefs'[j] = irefs[j]
      /\ \A j \in Invs : irefs[j] \in Int
  BY DEF Pin, Goto, Known, WithInv, CInv, TInv, TypeOK
<1>2. \A j \in Invs : irefs'[j] > 0 <=> irefs[j] > 0
  <2>1. irefs[i] >= 1
    BY <1>1, Counted DEF Holding
  <2>2. QED
    BY <1>1, <2>1
<1>3. \A j \in Invs : /\ c \in Holders(j)' <=> j = i
                      /\ c \notin Holders(j)
                      /\ c \in Holding(j)' <=> c \in Holding(j)
  BY <1>1, NullAssumption DEF Holders, Holding, Listed
<1>4. \A j \in Invs :
          irefs'[j] = irefs[j] + Bit(c \in Holders(j)') - Bit(c \in Holders(j))
                               + Bit(c \in Holding(j)') - Bit(c \in Holding(j))
  BY <1>1, <1>3 DEF Bit
<1>5. \A e \in Clients, j \in Invs : Listed(e, j)' <=> Listed(e, j)
  BY DEF Listed
<1>6. /\ \A j \in Invs, e \in Clients : j \in Live(e)' <=> j \in Live(e)
      /\ \A e \in Clients :
             crefs'[e] = crefs[e] + Bit(Registered(e)') - Bit(Registered(e))
                                  + Bit(NoInv \in Live(e)') - Bit(NoInv \in Live(e))
                                  + Bit(c \in Makers(e)') - Bit(c \in Makers(e))
  <2>1. l \in Label /\ l \notin Making /\ pc[c] \notin Making /\ ~Uncounted(l) /\ ~Uncounted(pc[c])
    BY DEF Making, Uncounted, WithInv
  <2>2. QED
    BY <1>1, <1>2, <2>1, RefLive
<1>7. QED
  BY <1>4, <1>5, <1>6, RefStep

\* A thread that holds an invitation enters it into the list of client d, or
\* takes it out of that list.
LEMMA RefMove ==
    ASSUME CInv, Known, InvRefs, ClientRefs, Once, NEW c \in Clients, Recv(c) \/ Work(c),
           UNCHANGED <<crefs, source, target, cur>>, pc[c] \in WithInv \ Unpinned,
           NEW l \in WithInv \ Unpinned, Goto(c, l), l \in Making <=> pc[c] \in Making,
           NEW d \in Clients,
           \/ AddTo(d, cur[c]) /\ ~Listed(d, cur[c])
           \/ RemoveFrom(d, cur[c]) /\ Listed(d, cur[c])
    PROVE  InvRefs' /\ ClientRefs'
<1> DEFINE i == cur[c]
<1>1. i \in Invs /\ TypeOK
  BY Working DEF CInv, TInv
<1>2. pc'[c] = l /\ \A j \in Invs : irefs[j] \in Int
  BY DEF Goto, CInv, TInv, TypeOK
<1>3. \A j \in Invs : /\ c \in Holders(j) <=> j = i
                      /\ c \in Holders(j)' <=> j = i
  BY <1>2 DEF Holders
<1>4. /\ \A e \in Clients, j \in Invs : e # d \/ j # i => (Listed(e, j)' <=> Listed(e, j))
      /\ Listed(d, i)' <=> ~Listed(d, i)
  <2>1. CASE AddTo(d, i) /\ ~Listed(d, i)
    BY <1>1, <2>1, AddedListed
  <2>2. CASE RemoveFrom(d, i) /\ Listed(d, i)
    BY <1>1, <2>2, RemovedListed
  <2>3. QED
    BY <2>1, <2>2
<1>5. /\ irefs'[i] = IF Listed(d, i) THEN irefs[i] - 1 ELSE irefs[i] + 1
      /\ \A j \in Invs \ {i} : irefs'[j] = irefs[j]
  BY <1>1 DEF AddTo, RemoveFrom, CInv, TInv, TypeOK
<1>6. \A j \in Invs : irefs'[j] > 0 <=> irefs[j] > 0
  <2>1. irefs[i] >= 1
    BY <1>1, <1>3, Counted
  <2>2. Listed(d, i) => irefs[i] >= 2
    BY <1>1, <1>3, Counted DEF Holding
  <2>3. QED
    BY <1>2, <1>5, <1>1, <2>1, <2>2
<1>7. \A j \in Invs :
          irefs'[j] = irefs[j] + Bit(c \in Holders(j)') - Bit(c \in Holders(j))
                               + Bit(d \in Holding(j)') - Bit(d \in Holding(j))
  BY <1>1, <1>2, <1>3, <1>4, <1>5 DEF Bit, Holding
<1>8. /\ \A j \in Invs, e \in Clients : j \in Live(e)' <=> j \in Live(e)
      /\ \A e \in Clients :
             crefs'[e] = crefs[e] + Bit(Registered(e)') - Bit(Registered(e))
                                  + Bit(NoInv \in Live(e)') - Bit(NoInv \in Live(e))
                                  + Bit(c \in Makers(e)') - Bit(c \in Makers(e))
  <2>1. l \in Label /\ ~Uncounted(l) /\ ~Uncounted(pc[c])
    BY DEF Uncounted, WithInv
  <2>2. QED
    BY <1>6, <2>1, RefLive
<1>9. QED
  BY <1>4, <1>7, <1>8, RefStep

\* A thread drops its reference; the last one takes those to both ends along.
LEMMA RefDrop ==
    ASSUME CInv, Known, InvRefs, ClientRefs, NEW c \in Clients, Recv(c) \/ Work(c),
           UNCHANGED <<list, source, target>>, pc[c] \in WithInv \ Unpinned,
           NEW l \in Label, Goto(c, l), DropInv(c, cur[c]),
           \/ cur' = cur /\ l \in Unpinned
           \/ cur' = [cur EXCEPT ![c] = NoInv] /\ l \notin Making,
           l \in Making <=> pc[c] \in Making, ~Uncounted(l)
    PROVE  InvRefs' /\ ClientRefs'
<1> DEFINE i == cur[c]
<1>1. i \in Invs /\ istate[i] # "unused"
  BY Working DEF CInv, EInv
<1>2. /\ pc'[c] = l /\ \A d \in Clients \ {c} : pc'[d] = pc[d]
      /\ (\A j \in Invs : irefs[j] \in Int) /\ \A e \in Clients : crefs[e] \in Int
  BY DEF Goto, CInv, TInv, TypeOK
<1>3. \A j \in Invs : /\ c \in Holders(j) <=> j = i
                      /\ c \notin Holders(j)'
                      /\ c \in Holding(j)' <=> c \in Holding(j)
  BY <1>2, NullAssumption DEF Holders, Holding, Listed, CInv, TInv, TypeOK
<1>4. irefs'[i] = irefs[i] - 1 /\ \A j \in Invs \ {i} : irefs'[j] = irefs[j]
  BY <1>1 DEF DropInv, CInv, TInv, TypeOK
<1>5. irefs[i] >= 1
  BY <1>1, <1>3, Counted
<1>6. \A j \in Invs :
          irefs'[j] = irefs[j] + Bit(c \in Holders(j)') - Bit(c \in Holders(j))
                               + Bit(c \in Holding(j)') - Bit(c \in Holding(j))
  BY <1>1, <1>2, <1>3, <1>4 DEF Bit
<1>7. \A j \in Invs \ {i}, e \in Clients : j \in Live(e)' <=> j \in Live(e)
  BY <1>4 DEF Live, Ends
<1>8. \A e \in Clients : /\ Registered(e)' <=> Registered(e)
                         /\ c \in Makers(e)' <=> c \in Makers(e)
  <2>1. ~Uncounted(pc[c])
    BY DEF Uncounted, WithInv
  <2>2. \A e \in Clients : Registered(e)' <=> Registered(e)
    BY <1>2, <2>1 DEF Registered, Uncounted
  <2>3. \A e \in Clients : c \in Makers(e)' <=> c \in Makers(e)
    BY <1>2 DEF Makers
  <2>4. QED
    BY <2>2, <2>3
<1>9. \A e \in Clients :
          crefs'[e] = crefs[e] + Bit(Registered(e)') - Bit(Registered(e))
                               + Bit(i \in Live(e)') - Bit(i \in Live(e))
                               + Bit(c \in Makers(e)') - Bit(c \in Makers(e))
  <2> SUFFICES ASSUME NEW e \in Clients
               PROVE  crefs'[e] = crefs[e] + Bit(i \in Live(e)') - Bit(i \in Live(e))
    BY <1>8, <1>2 DEF Bit
  <2>1. CASE irefs[i] > 1
    <3>1. crefs' = crefs /\ (i \in Live(e)' <=> i \in Live(e))
      BY <1>1, <1>2, <1>4, <2>1 DEF DropInv, Live, Ends
    <3>2. QED
      BY <1>2, <3>1 DEF Bit
  <2>2. CASE ~(irefs[i] > 1)
    <3>1. irefs[i] = 1 /\ irefs'[i] = 0
      BY <1>1, <1>2, <1>4, <1>5, <2>2
    <3>2. i \notin Live(e)' /\ (i \in Live(e) <=> e \in Ends(i))
      BY <1>1, <3>1 DEF Live
    <3>3. crefs'[e] = IF e \in Ends(i) THEN crefs[e] - 1 ELSE crefs[e]
      BY <2>2 DEF DropInv, Ends
    <3>4. QED
      BY <1>2, <3>2, <3>3 DEF Bit
  <2>3. QED
    BY <2>1, <2>2
<1>10. \A e \in Clients, j \in Invs : Listed(e, j)' <=> Listed(e, j)
  BY DEF Listed
<1> HIDE DEF i
<1>11. QED
  BY <1>6, <1>7, <1>9, <1>10, RefStep

\* The registry's own reference comes and goes.
LEMMA RefRegister ==
    ASSUME CInv, Known, InvRefs, ClientRefs, NEW c \in Clients, Recv(c) \/ Work(c),
           Connect(c) \/ Unregister(c)
    PROVE  InvRefs' /\ ClientRefs'
<1>1. UNCHANGED <<irefs, list, source, target, cur>>
  BY DEF Connect, Unregister, madeVars
<1>2. /\ pc[c] \in {"new", "unreg"} /\ pc'[c] \in {"idle", "free", "gone"}
      /\ pc[c] = "new" <=> pc'[c] = "idle"
      /\ \A d \in Clients \ {c} : pc'[d] = pc[d]
      /\ (\A j \in Invs : irefs[j] \in Int) /\ \A e \in Clients : crefs[e] \in Int
  BY DEF Connect, Unregister, Goto, CInv, TInv, TypeOK
<1>3. cur[c] = NoInv
  BY <1>2 DEF Known, WithInv
<1>4. \A j \in Invs : /\ c \notin Holders(j) /\ c \notin Holders(j)'
                      /\ c \in Holding(j)' <=> c \in Holding(j)
  BY <1>1, <1>3, NullAssumption DEF Holders, Holding, Listed
<1>5. \A j \in Invs :
          irefs'[j] = irefs[j] + Bit(c \in Holders(j)') - Bit(c \in Holders(j))
                               + Bit(c \in Holding(j)') - Bit(c \in Holding(j))
  BY <1>1, <1>2, <1>4 DEF Bit
<1>6. \A j, e : j \in Live(e)' <=> j \in Live(e)
  BY <1>1 DEF Live, Ends
<1>7. \A e \in Clients : c \notin Makers(e)' /\ c \notin Makers(e)
  BY <1>2 DEF Makers, Making
<1>8. \A e \in Clients : crefs'[e] = crefs[e] + Bit(Registered(e)') - Bit(Registered(e))
  <2>1. \A e \in Clients \ {c} : crefs'[e] = crefs[e] /\ (Registered(e)' <=> Registered(e))
    BY <1>2 DEF Connect, Unregister, Registered, CInv, TInv, TypeOK
  <2>2. CASE Connect(c)
    <3>1. Live(c) = {}
      BY <1>2, <2>2, Counted DEF Live, Known, Connect, Ends
    <3>2. Makers(c) = {}
      <4>1. \A e \in Clients : pc[e] \in Making => pc[target[cur[e]]] # "new"
        BY Working DEF Known, CInv, EInv, Ends, Making, WithInv, Label
      <4>2. QED
        BY <1>2, <2>2, <4>1 DEF Makers, Connect
    <3>3. crefs[c] = 0
      BY <2>2, <3>1, <3>2, FS_EmptySet DEF ClientRefs, Connect, Registered, Bit
    <3>4. crefs'[c] = 1 /\ ~Registered(c) /\ Registered(c)'
      BY <1>2, <2>2 DEF Connect, Registered, CInv, TInv, TypeOK
    <3>5. QED
      BY <1>2, <2>1, <3>3, <3>4 DEF Bit
  <2>3. CASE Unregister(c)
    <3>1. crefs'[c] = crefs[c] - 1 /\ Registered(c) /\ ~Registered(c)'
      BY <1>2, <2>3 DEF Unregister, Registered, CInv, TInv, TypeOK
    <3>2. QED
      BY <1>2, <2>1, <3>1 DEF Bit
  <2>4. QED
    BY <2>2, <2>3
<1>9. \A e \in Clients :
          crefs'[e] = crefs[e] + Bit(Registered(e)') - Bit(Registered(e))
                               + Bit(NoInv \in Live(e)') - Bit(NoInv \in Live(e))
                               + Bit(c \in Makers(e)') - Bit(c \in Makers(e))
  BY <1>2, <1>6, <1>7, <1>8 DEF Bit
<1>10. \A e \in Clients, j \in Invs : Listed(e, j)' <=> Listed(e, j)
  BY <1>1 DEF Listed
<1>11. QED
  BY <1>5, <1>6, <1>9, <1>10, RefStep

\* A new invitation, with its maker's reference, refers to both its ends; the
\* maker keeps the reference to the target that creg_lookup gave it.
LEMMA RefInvite ==
    ASSUME CInv, Known, InvRefs, ClientRefs, NEW c \in Clients, Recv(c) \/ Work(c),
           \E p \in Players, r \in InviteRoles : RecvInvite(c, p, r)
    PROVE  InvRefs' /\ ClientRefs'
<1>1. PICK d \in Clients, i \in Invs :
        /\ d # c /\ istate[i] = "unused"
        /\ source' = [source EXCEPT ![i] = c] /\ target' = [target EXCEPT ![i] = d]
        /\ irefs' = [irefs EXCEPT ![i] = 1]
        /\ crefs' = [crefs EXCEPT ![c] = crefs[c] + 1, ![d] = crefs[d] + 2]
        /\ cur' = [cur EXCEPT ![c] = i]
        /\ list' = list /\ Goto(c, "add_source") /\ pc[c] = "idle"
  BY DEF RecvInvite, MakeInv, TakeClients, CInv, TInv, TypeOK
<1>2. /\ pc'[c] = "add_source" /\ \A e \in Clients \ {c} : pc'[e] = pc[e]
      /\ cur'[c] = i /\ cur[c] = NoInv /\ target'[i] = d /\ Ends(i)' = {c, d}
      /\ irefs'[i] = 1 /\ \A j \in Invs \ {i} :
             irefs'[j] = irefs[j] /\ source'[j] = source[j] /\ target'[j] = target[j]
      /\ (\A j \in Invs : irefs[j] \in Int) /\ \A e \in Clients : crefs[e] \in Int
  BY <1>1 DEF Goto, CInv, TInv, TypeOK, Known, WithInv, Ends
<1>3. irefs[i] = 0
  BY <1>1, Counted
<1>4. \A j \in Invs : /\ c \in Holders(j)' <=> j = i
                      /\ c \notin Holders(j)
                      /\ c \in Holding(j)' <=> c \in Holding(j)
  BY <1>1, <1>2, NullAssumption DEF Holders, Holding, Listed, Unpinned
<1>5. \A j \in Invs :
          irefs'[j] = irefs[j] + Bit(c \in Holders(j)') - Bit(c \in Holders(j))
                               + Bit(c \in Holding(j)') - Bit(c \in Holding(j))
  BY <1>2, <1>3, <1>4 DEF Bit
<1>6. \A j \in Invs \ {i}, e \in Clients : j \in Live(e)' <=> j \in Live(e)
  BY <1>2 DEF Live, Ends
<1>7. \A e \in Clients : /\ i \notin Live(e) /\ (i \in Live(e)' <=> e \in {c, d})
                         /\ c \notin Makers(e) /\ (c \in Makers(e)' <=> e = d)
                         /\ Registered(e)' <=> Registered(e)
  BY <1>1, <1>2, <1>3 DEF Live, Makers, Making, Registered
<1>8. \A e \in Clients : crefs'[e] = IF e = c THEN crefs[e] + 1
                                     ELSE IF e = d THEN crefs[e] + 2 ELSE crefs[e]
  BY <1>1, <1>2 DEF CInv, TInv, TypeOK
<1>9. \A e \in Clients :
          crefs'[e] = crefs[e] + Bit(Registered(e)') - Bit(Registered(e))
                               + Bit(i \in Live(e)') - Bit(i \in Live(e))
                               + Bit(c \in Makers(e)') - Bit(c \in Makers(e))
  <2> SUFFICES ASSUME NEW e \in Clients
               PROVE  crefs'[e] = crefs[e] + Bit(i \in Live(e)') - Bit(i \in Live(e))
                                           + Bit(c \in Makers(e)') - Bit(c \in Makers(e))
    BY <1>2, <1>7 DEF Bit
  <2>1. Bit(i \in Live(e)) = 0 /\ Bit(c \in Makers(e)) = 0
    BY <1>7 DEF Bit
  <2>2. Bit(i \in Live(e)') = IF e \in {c, d} THEN 1 ELSE 0
    BY <1>7 DEF Bit
  <2>3. Bit(c \in Makers(e)') = IF e = d THEN 1 ELSE 0
    BY <1>7 DEF Bit
  <2>4. /\ crefs[e] \in Int /\ c # d
        /\ crefs'[e] = IF e = c THEN crefs[e] + 1 ELSE IF e = d THEN crefs[e] + 2 ELSE crefs[e]
    BY <1>1, <1>2, <1>8
  <2>5. crefs'[e] = crefs[e] + (IF e \in {c, d} THEN 1 ELSE 0) - 0
                             + (IF e = d THEN 1 ELSE 0) - 0
    BY <2>4
  <2>6. QED
    BY <2>1, <2>2, <2>3, <2>5
<1>10. \A e \in Clients, j \in Invs : Listed(e, j)' <=> Listed(e, j)
  BY <1>1 DEF Listed
<1>11. QED
  BY <1>5, <1>6, <1>9, <1>10, RefStep

\* The reference of creg_lookup goes.
LEMMA RefEndInvite ==
    ASSUME CInv, InvRefs, ClientRefs, NEW c \in Clients, Recv(c) \/ Work(c), EndInvite(c)
    PROVE  InvRefs' /\ ClientRefs'
<1> DEFINE d == target[cur[c]]
<1>1. /\ pc[c] \in {"invite_end", "invite_fail"} /\ UNCHANGED <<irefs, list, source, target>>
      /\ crefs' = [crefs EXCEPT ![d] = crefs[d] - 1]
      /\ pc'[c] \in {"idle", "logout"} /\ cur'[c] = NoInv
      /\ \A e \in Clients \ {c} : pc'[e] = pc[e]
      /\ (\A j \in Invs : irefs[j] \in Int) /\ \A e \in Clients : crefs[e] \in Int
  BY DEF EndInvite, Resume, Goto, madeVars, CInv, TInv, TypeOK
<1>2. \A j \in Invs : /\ c \notin Holders(j)' /\ c \notin Holders(j)
                      /\ c \in Holding(j)' <=> c \in Holding(j)
  BY <1>1, NullAssumption DEF Holders, Holding, Listed, Unpinned
<1>3. \A j \in Invs :
          irefs'[j] = irefs[j] + Bit(c \in Holders(j)') - Bit(c \in Holders(j))
                               + Bit(c \in Holding(j)') - Bit(c \in Holding(j))
  BY <1>1, <1>2 DEF Bit
<1>4. \A j, e : j \in Live(e)' <=> j \in Live(e)
  BY <1>1 DEF Live, Ends
<1>5. \A e \in Clients : /\ c \notin Makers(e)' /\ (c \in Makers(e) <=> e = d)
                         /\ Registered(e)' <=> Registered(e)
                         /\ crefs'[e] = IF e = d THEN crefs[e] - 1 ELSE crefs[e]
  BY <1>1 DEF Makers, Making, Registered, CInv, TInv, TypeOK
<1>6. \A e \in Clients :
          crefs'[e] = crefs[e] + Bit(Registered(e)') - Bit(Registered(e))
                               + Bit(NoInv \in Live(e)') - Bit(NoInv \in Live(e))
                               + Bit(c \in Makers(e)') - Bit(c \in Makers(e))
  BY <1>1, <1>4, <1>5 DEF Bit
<1>7. \A e \in Clients, j \in Invs : Listed(e, j)' <=> Listed(e, j)
  BY <1>1 DEF Listed
<1>8. QED
  BY <1>3, <1>4, <1>6, <1>7, RefStep

\* What every step does to the references.
LEMMA RefNextStep ==
    ASSUME CInv, ListInv, Known, InvRefs, ClientRefs, NEW c \in Clients, Recv(c) \/ Work(c)
    PROVE  InvRefs' /\ ClientRefs'
<1> DEFINE Quiet(l) ==
               /\ UNCHANGED <<irefs, list, crefs, source, target>> /\ Goto(c, l)
               /\ \A j \in Invs :
                      cur'[c] = j /\ l \notin Unpinned <=> cur[c] = j /\ pc[c] \notin Unpinned
               /\ l \in Making <=> pc[c] \in Making
               /\ cur' = cur \/ l \notin Making
               /\ Uncounted(l) <=> Uncounted(pc[c])
           Move(d, l) ==
               /\ UNCHANGED <<crefs, source, target, cur>>
               /\ pc[c] \in WithInv \ Unpinned /\ Goto(c, l)
               /\ l \in Making <=> pc[c] \in Making
               /\ \/ AddTo(d, cur[c]) /\ ~Listed(d, cur[c])
                  \/ RemoveFrom(d, cur[c]) /\ Listed(d, cur[c])
           Drop(l) ==
               /\ UNCHANGED <<list, source, target>>
               /\ pc[c] \in WithInv \ Unpinned /\ Goto(c, l) /\ DropInv(c, cur[c])
               /\ \/ cur' = cur /\ l \in Unpinned
                  \/ cur' = [cur EXCEPT ![c] = NoInv] /\ l \notin Making
               /\ l \in Making <=> pc[c] \in Making
               /\ ~Uncounted(l)
<1>1. \A l \in Label : Quiet(l) => InvRefs' /\ ClientRefs'
  BY RefQuiet
<1>2. \A d \in Clients, l \in WithInv \ Unpinned : Move(d, l) => InvRefs' /\ ClientRefs'
  BY RefMove DEF ListInv
<1>3. \A l \in Label : Drop(l) => InvRefs' /\ ClientRefs'
  BY RefDrop
<1> USE DEF Label, WithInv, Making, Unpinned, Uncounted, madeVars, gameVars
<1>4. CASE Connect(c) \/ Unregister(c)
  BY <1>4, RefRegister
<1>5. CASE \E p \in Players, r \in InviteRoles : RecvInvite(c, p, r)
  BY <1>5, RefInvite
<1>6. CASE EndInvite(c)
  BY <1>6, RefEndInvite
<1>7. CASE (\E p \in Players : RecvLogin(c, p)) \/ BeginLogout(c) \/ SetPlayer(c)
  <2>1. \E l \in Label : Quiet(l)
    BY <1>7 DEF RecvLogin, BeginLogout, SetPlayer
  <2>2. QED
    BY <1>1, <2>1
<1>8. CASE ScanPlayers(c) \/ EndOfInput(c)
  <2>1. \E l \in Label : Quiet(l)
    BY <1>8 DEF ScanPlayers, EndOfInput
  <2>2. QED
    BY <1>1, <2>1
<1>9. CASE EndLogout(c) \/ Free(c) \/ CloseOpen(c) \/ TellAccepted(c) \/ TellMoved(c)
  <2>1. \E l \in Label : Quiet(l)
    BY <1>9 DEF EndLogout, Free, CloseOpen, TellAccepted, TellMoved, Tell
  <2>2. QED
    BY <1>1, <2>1
<1>10. CASE Accept(c) \/ ResignGame(c) \/ ApplyMove(c) \/ RefuseMove(c) \/ MoveOver(c)
  <2>1. \E l \in Label : Quiet(l)
    BY <1>10 DEF Accept, AcceptInv, ResignGame, ApplyMove, RefuseMove, MoveOver
  <2>2. QED
    BY <1>1, <2>1
<1>11. CASE PostResult(c)
  <2>1. Quiet("finish")
    BY <1>11 DEF PostResult
  <2>2. QED
    BY <1>1, <2>1
<1>12. CASE Notify(c)
  <2>1. \E l \in Label : Quiet(l)
    BY <1>12, NullAssumption DEF Notify, Resume, CInv, TInv, TypeOK
  <2>2. QED
    BY <1>1, <2>1
<1>13. CASE \E i \in Invs : \/ RecvRevoke(c, i) \/ RecvDecline(c, i) \/ RecvAccept(c, i)
                            \/ RecvResign(c, i) \/ RecvMove(c, i)
  <2>1. PICK i \in Invs, l \in {"close", "refuse", "accept", "resign", "move"} : Request(c, i, l)
    BY <1>13 DEF RecvRevoke, RecvDecline, RecvAccept, RecvResign, RecvMove
  <2>2. QED
    BY <2>1, RefPin DEF Request
<1>14. CASE LogoutNext(c)
  <2>1. PICK k \in Ahead(c) :
            Pin(c, list[c][k], IF started[list[c][k]] THEN "resign" ELSE "close")
    BY <1>14 DEF LogoutNext
  <2>2. list[c][k] \in Invs
    <3>1. list[c] \in Seq(Invs \cup {NoInv})
      BY DEF CInv, TInv, TypeOK
    <3>2. k \in 1..Len(list[c]) /\ list[c][k] # NoInv
      BY <3>1 DEF Ahead
    <3>3. QED
      BY <3>1, <3>2, ElementOfSeq
  <2>3. PICK l \in {"resign", "close"} : Pin(c, list[c][k], l)
    BY <2>1
  <2>4. pc[c] = "logout" /\ UNCHANGED <<list, crefs, source, target>>
    BY <1>14 DEF LogoutNext
  <2>5. QED
    BY <2>2, <2>3, <2>4, RefPin
<1>15. CASE AddSource(c)
  <2>1. Move(c, "add_target")
    BY <1>15 DEF AddSource, ListInv, Fresh, Adding
  <2>2. QED
    BY <1>2, <2>1
<1>16. CASE AddTarget(c)
  <2>1. CASE player[target[cur[c]]] # NoPlayer
    <3>1. Move(target[cur[c]], "made")
      BY <1>16, <2>1 DEF AddTarget, ListInv, Fresh, Adding
    <3>2. target[cur[c]] \in Clients
      BY <1>16, Working DEF AddTarget, CInv, EInv
    <3>3. QED
      BY <1>2, <3>1, <3>2
  <2>2. CASE player[target[cur[c]]] = NoPlayer
    <3>1. Quiet("unmade")
      BY <1>16, <2>2 DEF AddTarget
    <3>2. QED
      BY <1>1, <3>1
  <2>3. QED
    BY <2>1, <2>2
<1>17. ASSUME NEW d, NEW l \in {"rm_target", "unref", "rm_opp", "post"}, Remove(c, d, pc[c], l),
              pc[c] \in Removing, d \in Ends(cur[c])
       PROVE  InvRefs' /\ ClientRefs'
  <2>1. d \in Clients
    BY <1>17, Working DEF Removing, CInv, EInv, Ends
  <2>2. CASE Listed(d, cur[c])
    <3>1. Move(d, l)
      BY <1>17, <2>2 DEF Remove, Removing
    <3>2. QED
      BY <1>2, <2>1, <3>1
  <2>3. CASE ~Listed(d, cur[c])
    <3>1. Quiet(l)
      BY <1>17, <2>3 DEF Remove, RemoveFrom, Removing
    <3>2. QED
      BY <1>1, <3>1
  <2>4. QED
    BY <2>2, <2>3
<1>18. CASE RemoveSource(c) \/ RemoveTarget(c) \/ RemoveOwn(c) \/ RemoveOpp(c)
  <2>1. pc[c] \in Removing
    BY <1>18 DEF RemoveSource, RemoveTarget, RemoveOwn, RemoveOpp, Remove, Removing
  <2>2. c \in Ends(cur[c])
    BY <2>1 DEF CInv, EInv, Removing
  <2>3. PICK d \in Ends(cur[c]), l \in {"rm_target", "unref", "rm_opp", "post"} :
            Remove(c, d, pc[c], l)
    BY <1>18, <2>2 DEF RemoveSource, RemoveTarget, RemoveOwn, RemoveOpp, Remove, Ends, Peer
  <2>4. QED
    BY <1>17, <2>1, <2>3
<1>19. CASE DropMade(c) \/ Unref(c) \/ Finish(c)
  <2>1. \E l \in Label : Drop(l)
    BY <1>19 DEF DropMade, Unref, Finish, Resume
  <2>2. QED
    BY <1>3, <2>1
<1>20. QED
  BY <1>4, <1>5, <1>6, <1>7, <1>8, <1>9, <1>10, <1>11, <1>12, <1>13, <1>14, <1>15, <1>16,
     <1>18, <1>19 DEF Recv, Work

\* Nobody goes back to being new, and only INVITE makes an invitation.
LEMMA NewGone ==
    ASSUME CInv, NEW c \in Clients, Recv(c) \/ Work(c)
    PROVE  pc'[c] # "new"
<1> USE DEF Goto, Resume, CInv, TInv, TypeOK
<1>1. CASE Connect(c) \/ (\E p \in Players : RecvLogin(c, p)) \/ EndOfInput(c)
  BY <1>1 DEF Connect, RecvLogin, EndOfInput
<1>2. CASE \E p \in Players, r \in InviteRoles : RecvInvite(c, p, r)
  BY <1>2 DEF RecvInvite
<1>3. CASE \E j \in Invs : \/ RecvRevoke(c, j) \/ RecvDecline(c, j) \/ RecvAccept(c, j)
                         \/ RecvResign(c, j) \/ RecvMove(c, j)
  BY <1>3 DEF RecvRevoke, RecvDecline, RecvAccept, RecvResign, RecvMove, Request, Pin
<1>4. CASE ScanPlayers(c) \/ SetPlayer(c) \/ BeginLogout(c) \/ LogoutNext(c) \/ EndLogout(c)
  BY <1>4 DEF ScanPlayers, SetPlayer, BeginLogout, LogoutNext, EndLogout, Pin
<1>5. CASE Unregister(c) \/ Free(c) \/ AddSource(c) \/ AddTarget(c)
  BY <1>5 DEF Unregister, Free, AddSource, AddTarget
<1>6. CASE DropMade(c) \/ EndInvite(c) \/ Unref(c) \/ Notify(c) \/ Finish(c)
  BY <1>6 DEF DropMade, EndInvite, Unref, Notify, Finish
<1>7. CASE RemoveSource(c) \/ RemoveTarget(c) \/ RemoveOwn(c) \/ RemoveOpp(c)
  BY <1>7 DEF RemoveSource, RemoveTarget, RemoveOwn, RemoveOpp, Remove
<1>8. CASE CloseOpen(c) \/ Accept(c) \/ ResignGame(c) \/ MoveOver(c)
  BY <1>8 DEF CloseOpen, Accept, ResignGame, MoveOver
<1>9. CASE TellAccepted(c) \/ TellMoved(c) \/ PostResult(c) \/ ApplyMove(c) \/ RefuseMove(c)
  BY <1>9 DEF TellAccepted, TellMoved, Tell, PostResult, ApplyMove, RefuseMove
<1>10. QED
  BY <1>1, <1>2, <1>3, <1>4, <1>5, <1>6, <1>7, <1>8, <1>9 DEF Recv, Work

LEMMA UnusedKept ==
    ASSUME CInv, NEW c \in Clients, Recv(c) \/ Work(c), NEW i \in Invs,
           istate[i] = "unused", istate'[i] # "unused"
    PROVE  \E p \in Players, r \in InviteRoles : RecvInvite(c, p, r)
<1>1. pc[c] \in WithInv => cur[c] \in Invs /\ cur[c] # i
  BY Working DEF CInv, EInv
<1> USE <1>1 DEF CInv, TInv, TypeOK, madeVars, gameVars, WithInv, Label
<1>2. ~Connect(c) /\ ~(\E p \in Players : RecvLogin(c, p)) /\ ~EndOfInput(c)
  BY DEF Connect, RecvLogin, EndOfInput
<1>3. ~\E j \in Invs : \/ RecvRevoke(c, j) \/ RecvDecline(c, j) \/ RecvAccept(c, j)
                       \/ RecvResign(c, j) \/ RecvMove(c, j)
  BY DEF RecvRevoke, RecvDecline, RecvAccept, RecvResign, RecvMove, Request
<1>4. ~(ScanPlayers(c) \/ SetPlayer(c) \/ BeginLogout(c) \/ LogoutNext(c) \/ EndLogout(c))
  BY DEF ScanPlayers, SetPlayer, BeginLogout, LogoutNext, EndLogout
<1>5. ~(Unregister(c) \/ Free(c) \/ AddSource(c) \/ AddTarget(c))
  BY DEF Unregister, Free, AddSource, AddTarget
<1>6. ~(DropMade(c) \/ EndInvite(c) \/ Unref(c) \/ Notify(c) \/ Finish(c))
  BY DEF DropMade, EndInvite, Unref, Notify, Finish
<1>7. ~(RemoveSource(c) \/ RemoveTarget(c) \/ RemoveOwn(c) \/ RemoveOpp(c))
  BY DEF RemoveSource, RemoveTarget, RemoveOwn, RemoveOpp, Remove
<1>8. ~(CloseOpen(c) \/ Accept(c) \/ ResignGame(c) \/ MoveOver(c))
  BY DEF CloseOpen, Accept, AcceptInv, ResignGame, MoveOver, CloseInv, CloseInvTo
<1>9. ~(TellAccepted(c) \/ TellMoved(c) \/ PostResult(c) \/ ApplyMove(c) \/ RefuseMove(c))
  BY DEF TellAccepted, TellMoved, Tell, PostResult, ApplyMove, RefuseMove
<1>10. QED
  BY <1>2, <1>3, <1>4, <1>5, <1>6, <1>7, <1>8, <1>9 DEF Recv, Work

\* A client is an end of invitations from its login to its logout.
LEMMA KnownNextStep ==
    ASSUME CInv, LInv, Known, NEW c \in Clients, Recv(c) \/ Work(c)
    PROVE  Known'
<1>1. \A d \in Clients \ {c} : pc'[d] = pc[d] /\ cur'[d] = cur[d] /\ player'[d] = player[d]
  BY OthersKept DEF CInv
<1>2. cur'[c] # NoInv => pc'[c] \in WithInv
  <2> USE DEF Goto, Resume, CInv, TInv, TypeOK, WithInv, Label
  <2>1. CASE Connect(c) \/ (\E p \in Players : RecvLogin(c, p)) \/ EndOfInput(c)
    BY <2>1 DEF Connect, RecvLogin, EndOfInput, Known
  <2>2. CASE \E p \in Players, r \in InviteRoles : RecvInvite(c, p, r)
    BY <2>2 DEF RecvInvite
  <2>3. CASE \E j \in Invs : \/ RecvRevoke(c, j) \/ RecvDecline(c, j) \/ RecvAccept(c, j)
                             \/ RecvResign(c, j) \/ RecvMove(c, j)
    BY <2>3 DEF RecvRevoke, RecvDecline, RecvAccept, RecvResign, RecvMove, Request, Pin
  <2>4. CASE ScanPlayers(c) \/ SetPlayer(c) \/ BeginLogout(c) \/ EndLogout(c)
    BY <2>4 DEF ScanPlayers, SetPlayer, BeginLogout, EndLogout, Known
  <2>5. CASE LogoutNext(c)
    BY <2>5 DEF LogoutNext, Pin
  <2>6. CASE Unregister(c) \/ Free(c)
    BY <2>6 DEF Unregister, Free, Known
  <2>7. CASE AddSource(c) \/ AddTarget(c) \/ DropMade(c) \/ Unref(c)
    <3>1. CASE AddSource(c) \/ AddTarget(c)
      BY <3>1 DEF AddSource, AddTarget
    <3>2. CASE DropMade(c) \/ Unref(c)
      BY <3>2 DEF DropMade, Unref
    <3>3. QED
      BY <2>7, <3>1, <3>2, Zenon
  <2>8. CASE EndInvite(c) \/ Notify(c) \/ Finish(c)
    BY <2>8 DEF EndInvite, Notify, Finish
  <2>9. CASE RemoveSource(c) \/ RemoveTarget(c) \/ RemoveOwn(c) \/ RemoveOpp(c)
    BY <2>9 DEF RemoveSource, RemoveTarget, RemoveOwn, RemoveOpp, Remove
  <2>10. CASE CloseOpen(c) \/ Accept(c) \/ ResignGame(c) \/ MoveOver(c)
    BY <2>10 DEF CloseOpen, Accept, ResignGame, MoveOver
  <2>11. CASE TellAccepted(c) \/ TellMoved(c) \/ PostResult(c) \/ ApplyMove(c) \/ RefuseMove(c)
    BY <2>11 DEF TellAccepted, TellMoved, Tell, PostResult, ApplyMove, RefuseMove
  <2>12. QED
    BY <2>1, <2>2, <2>3, <2>4, <2>5, <2>6, <2>7, <2>8, <2>9, <2>10, <2>11 DEF Recv, Work
<1>3. ASSUME pc[c] # "new", player[c] # NoPlayer \/ pc[c] \in Left
      PROVE  pc'[c] # "new" /\ (player'[c] # NoPlayer \/ pc'[c] \in Left)
  <2>1. CASE pc[c] \in Left
    <3>1. Unregister(c) \/ Free(c)
      BY <2>1, LoginSteps
    <3>2. QED
      BY <3>1 DEF Unregister, Free, Goto, Left, CInv, TInv, TypeOK
  <2>2. CASE pc[c] \notin Left
    <3>1. pc'[c] # "new"
      BY NewGone
    <3>2. player' # player => SetPlayer(c) \/ EndLogout(c)
      BY LeaveSteps DEF CInv
    <3>3. ~SetPlayer(c) \/ player'[c] # NoPlayer
      BY NullAssumption DEF SetPlayer, LInv, Wanted, CInv, TInv, TypeOK
    <3>4. EndLogout(c) => pc'[c] \in Left
      BY DEF EndLogout, Goto, Left, CInv, TInv, TypeOK
    <3>5. QED
      BY <1>3, <2>2, <3>1, <3>2, <3>3, <3>4
  <2>3. QED
    BY <2>1, <2>2
<1>4. ASSUME NEW i \in Invs, istate'[i] # "unused", NEW d \in Ends(i)'
      PROVE  pc'[d] # "new" /\ (player'[d] # NoPlayer \/ pc'[d] \in Left)
  <2>1. CASE istate[i] # "unused"
    <3>1. d \in Ends(i) /\ d \in Clients
      BY <1>4, <2>1, StateKept DEF Ends, CInv, EInv
    <3>2. pc[d] # "new" /\ (player[d] # NoPlayer \/ pc[d] \in Left)
      BY <2>1, <3>1 DEF Known
    <3>3. QED
      BY <1>1, <1>3, <3>1, <3>2
  <2>2. CASE istate[i] = "unused"
    <3>1. \E p \in Players, r \in InviteRoles : RecvInvite(c, p, r)
      BY <1>4, <2>2, UnusedKept
    <3>2. PICK p \in Players, r \in InviteRoles, e \in Clients, j \in Invs :
            /\ player[c] # NoPlayer /\ player[e] = p /\ Registered(e) /\ e # c
            /\ istate' = [istate EXCEPT ![j] = "open"]
            /\ source' = [source EXCEPT ![j] = c] /\ target' = [target EXCEPT ![j] = e]
            /\ player' = player /\ Goto(c, "add_source")
      BY <3>1 DEF RecvInvite, MakeInv
    <3>3. j = i /\ Ends(i)' = {c, e}
      BY <1>4, <2>2, <3>2 DEF Ends, CInv, TInv, TypeOK
    <3>4. /\ player'[c] # NoPlayer /\ player'[e] # NoPlayer
          /\ pc'[c] = "add_source" /\ pc'[e] # "new"
      BY <3>2, NullAssumption DEF Goto, Registered, CInv, TInv, TypeOK
    <3>5. QED
      BY <1>4, <3>3, <3>4
  <2>3. QED
    BY <2>1, <2>2
<1>5. QED
  BY <1>1, <1>2, <1>4 DEF Known

\* Both faults are met in an invitation's other end: one that is not logged in,
\* or that nothing refers to any more, has been logged in and has left.
LEMMA FaultStep ==
    ASSUME CInv, LInv, NotIn, RefInv, NEW c \in Clients, Recv(c) \/ Work(c), fault = "none"
    PROVE  FaultNeedsDisconnect'
<1> DEFINE d == Peer(c, cur[c])
<1> SUFFICES ASSUME fault' # "none" PROVE \E e \in Clients : pc'[e] \in Left
  BY DEF FaultNeedsDisconnect, Left
<1>1. \/ PostResult(c) /\ player[d] = NoPlayer
      \/ Notify(c) /\ crefs[d] = 0
  BY DEF Recv, Work, Connect, RecvLogin, EndOfInput, RecvInvite, RecvRevoke, RecvDecline,
       RecvAccept, RecvResign, RecvMove, Request, ScanPlayers, SetPlayer, BeginLogout,
       LogoutNext, EndLogout, Unregister, Free, AddSource, AddTarget, DropMade, EndInvite,
       CloseOpen, RemoveSource, RemoveTarget, RemoveOwn, RemoveOpp, Remove, Unref, Notify,
       Accept, TellAccepted, Tell, ResignGame, PostResult, ApplyMove, RefuseMove, TellMoved,
       MoveOver, Finish
<1>2. pc[c] \in {"post", "notify"}
  BY <1>1 DEF PostResult, Notify
<1>3. cur[c] \in Invs /\ istate[cur[c]] # "unused" /\ d \in Ends(cur[c]) /\ d \in Clients /\ d # c
  <2>1. cur[c] \in Invs /\ istate[cur[c]] # "unused" /\ c \in Ends(cur[c])
    BY <1>2, Working DEF WithInv, Label, CInv, EInv
  <2>2. source[cur[c]] \in Clients /\ target[cur[c]] \in Clients /\ source[cur[c]] # target[cur[c]]
    BY <2>1 DEF CInv, EInv
  <2>3. QED
    BY <2>1, <2>2 DEF Ends, Peer
<1>4. pc[d] # "new" /\ (player[d] # NoPlayer \/ pc[d] \in Left)
  BY <1>3 DEF RefInv, Known
<1>5. CASE PostResult(c) /\ player[d] = NoPlayer
  BY <1>3, <1>4, <1>5, OthersKept DEF CInv
<1>6. CASE Notify(c) /\ crefs[d] = 0
  <2>1. IsFiniteSet(Live(d)) /\ IsFiniteSet(Makers(d))
    BY ObjectsAssumption, FS_Subset DEF Live, Makers
  <2>2. Cardinality(Live(d)) \in Nat /\ Cardinality(Makers(d)) \in Nat
    BY <2>1, FS_CardinalityType
  <2>3. ~Registered(d)
    BY <1>3, <1>6, <2>2 DEF RefInv, ClientRefs, Bit
  <2>4. QED
    BY <1>3, <1>4, <2>3, OthersKept DEF Registered, Left, CInv
<1>7. QED
  BY <1>1, <1>5, <1>6

LEMMA RefNext ==
    CInv /\ ListInv /\ LInv /\ LeaveInv /\ RefInv /\ FaultNeedsDisconnect /\ [Next]_vars
        => RefInv' /\ FaultNeedsDisconnect'
<1> SUFFICES ASSUME CInv, ListInv, LInv, LeaveInv, RefInv, FaultNeedsDisconnect, [Next]_vars
             PROVE  RefInv' /\ FaultNeedsDisconnect'
  OBVIOUS
<1>1. ASSUME NEW c \in Clients, Recv(c) \/ Work(c), fault = "none"
      PROVE  RefInv' /\ FaultNeedsDisconnect'
  <2>1. Known /\ InvRefs /\ ClientRefs /\ NotIn
    BY DEF RefInv, LeaveInv
  <2>2. InvRefs' /\ ClientRefs'
    BY <1>1, <2>1, RefNextStep
  <2>3. Known'
    BY <1>1, <2>1, KnownNextStep
  <2>4. FaultNeedsDisconnect'
    BY <1>1, <2>1, FaultStep
  <2>5. QED
    BY <2>2, <2>3, <2>4 DEF RefInv
<1>2. CASE UNCHANGED vars
  <2>1. UNCHANGED <<player, list, crefs, istate, source, target, irefs, pc, cur, fault>>
    BY <1>2 DEF vars, madeVars, threadVars
  <2>2. Known' /\ FaultNeedsDisconnect'
    BY <2>1 DEF RefInv, Known, Ends, FaultNeedsDisconnect
  <2>3. InvRefs'
    BY <2>1 DEF RefInv, InvRefs, Holders, Holding, Listed
  <2>4. ClientRefs'
    BY <2>1 DEF RefInv, ClientRefs, Registered, Live, Makers, Ends
  <2>5. QED
    BY <2>2, <2>3, <2>4 DEF RefInv
<1>3. QED
  BY <1>1, <1>2 DEF Next

LEMMA RefInit == Init => RefInv /\ FaultNeedsDisconnect
<1> SUFFICES ASSUME Init PROVE RefInv /\ FaultNeedsDisconnect
  OBVIOUS
<1> USE DEF Init
<1>1. Known /\ FaultNeedsDisconnect
  BY NullAssumption DEF Known, FaultNeedsDisconnect
<1>2. \A i \in Invs : Holders(i) = {} /\ Holding(i) = {}
  BY NullAssumption DEF Holders, Holding, Listed
<1>3. \A d \in Clients : Live(d) = {} /\ Makers(d) = {} /\ ~Registered(d)
  BY DEF Live, Makers, Making, Registered
<1>4. \A i \in Invs : Cardinality(Holders(i)) = 0 /\ Cardinality(Holding(i)) = 0
  BY <1>2, FS_EmptySet
<1>5. \A d \in Clients : Cardinality(Live(d)) = 0 /\ Cardinality(Makers(d)) = 0
  BY <1>3, FS_EmptySet
<1>6. InvRefs
  BY <1>4 DEF InvRefs
<1>7. ClientRefs
  BY <1>3, <1>5 DEF ClientRefs, Bit
<1>8. QED
  BY <1>1, <1>6, <1>7 DEF RefInv

LEMMA RefInvariant == Spec => [](RefInv /\ FaultNeedsDisconnect)
BY RefInit, RefNext, LeaveInvariant, PTL DEF Spec

\* The reference counts of invitations and clients are exact.
THEOREM ClientRefsExact == Spec => []RefsExact
<1>1. RefInv => RefsExact
  BY RefsParts DEF RefInv
<1>2. QED
  BY <1>1, RefInvariant, PTL

\* No thread meets a freed client or a client without a player before some
\* client has disconnected.
THEOREM ClientFaultNeedsDisconnect == Spec => []FaultNeedsDisconnect
BY RefInvariant, PTL
=============================================================================
