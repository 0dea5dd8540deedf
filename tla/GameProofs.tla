----------------------------- MODULE GameProofs -----------------------------
(***************************************************************************)
(* Proofs about module Game: the four invariants its run checks, and that  *)
(* it implements GameOutcome.                                              *)
(*                                                                         *)
(* The invariant is inductive as the conjunction of all four parts: a move *)
(* keeps LineDecides because the board had no line while the turn was not  *)
(* NULL_ROLE, and the refinement needs TurnMatchesBoard to exclude a draw  *)
(* by SECOND_PLAYER_ROLE (nine cells cannot be split evenly).              *)
(***************************************************************************)
EXTENDS Game, FiniteSetTheorems, TLAPS

Inv == TypeOK /\ TurnMatchesBoard /\ LineDecides /\ NoStalemate

USE DEF NULL_ROLE, FIRST_PLAYER_ROLE, SECOND_PLAYER_ROLE, PlayerRole, GameRole

LEMMA OtherRole == \A r \in PlayerRole : Other(r) \in PlayerRole /\ Other(r) # r
BY DEF Other

LEMMA PosFinite == IsFiniteSet(Pos) /\ Cardinality(Pos) = 9
<1>1. /\ IsFiniteSet(1..9)
      /\ Cardinality(1..9) = IF 1 > 9 THEN 0 ELSE 9 - 1 + 1
  BY FS_Interval, 1 \in Int, 9 \in Int
<1>2. QED
  BY <1>1 DEF Pos

\* Counting the cells of a role never leaves the naturals.
LEMMA CellsFinite ==
    ASSUME TypeOK, NEW r \in GameRole
    PROVE  IsFiniteSet(Cells(r)) /\ Cardinality(Cells(r)) \in Nat
<1>1. Cells(r) \subseteq Pos
  BY DEF Cells
<1>2. QED
  BY <1>1, PosFinite, FS_Subset, FS_CardinalityType

\* A legal move gives its role one more cell and the other role none.
LEMMA MoveCounts ==
    ASSUME TypeOK, NEW r \in PlayerRole, NEW p \in Pos, ApplyMove(r, p)
    PROVE  /\ Cardinality(Cells(r)') = Cardinality(Cells(r)) + 1
           /\ Cells(Other(r))' = Cells(Other(r))
<1>1. Cells(r)' = Cells(r) \cup {p}
  BY DEF Cells, ApplyMove, TypeOK
<1>2. p \notin Cells(r)
  BY DEF Cells, ApplyMove, Legal
<1>3. IsFiniteSet(Cells(r))
  BY CellsFinite
<1>4. Cells(Other(r))' = Cells(Other(r))
  BY OtherRole DEF Cells, ApplyMove, Legal, TypeOK
<1>5. QED
  BY <1>1, <1>2, <1>3, <1>4, FS_AddElement

\* On a full board the two roles share the nine cells.
LEMMA FullSplits ==
    ASSUME NEW b \in [Pos -> GameRole], Full(b)
    PROVE  Cardinality({p \in Pos : b[p] = 1}) + Cardinality({p \in Pos : b[p] = 2}) = 9
<1> DEFINE X == {p \in Pos : b[p] = 1}
           O == {p \in Pos : b[p] = 2}
<1>1. X \subseteq Pos /\ O \subseteq Pos /\ X \cup O = Pos /\ X \cap O = {}
  BY DEF Full
<1>2. /\ IsFiniteSet(X) /\ IsFiniteSet(O)
      /\ Cardinality(X) \in Nat /\ Cardinality(O) \in Nat
  BY <1>1, PosFinite, FS_Subset, FS_CardinalityType
<1> HIDE DEF X, O
<1>3. Cardinality(X \cup O) = Cardinality(X) + Cardinality(O) - Cardinality(X \cap O)
  BY <1>2, FS_Union
<1>4. Cardinality(X \cup O) = Cardinality(Pos) /\ Cardinality(X \cap O) = Cardinality({})
  BY <1>1, Zenon
<1>5. Cardinality(X) + Cardinality(O) = 9
  BY <1>2, <1>3, <1>4, PosFinite, FS_EmptySet
<1>6. QED
  BY <1>5 DEF X, O

-----------------------------------------------------------------------------
\* The initial board satisfies the invariant.
LEMMA InitInv == Init => Inv
<1> SUFFICES ASSUME Init PROVE Inv
  OBVIOUS
<1>1. TypeOK
  BY DEF Init, TypeOK
<1>2. Cells(1) = {} /\ Cells(2) = {}
  BY DEF Init, Cells
<1>3. TurnMatchesBoard
  BY <1>2, FS_EmptySet DEF Init, TurnMatchesBoard
<1>4. LineDecides
  BY DEF Init, LineDecides, HasLine, Lines, Pos
<1>5. NoStalemate
  BY DEF Init, NoStalemate, Full, Pos
<1>6. QED
  BY <1>1, <1>3, <1>4, <1>5 DEF Inv

\* Every step of the game preserves the invariant.
LEMMA StepInv == Inv /\ [Next]_vars => Inv'
<1> SUFFICES ASSUME Inv, [Next]_vars PROVE Inv'
  OBVIOUS
<1> USE DEF Inv
<1>1. ASSUME NEW r \in PlayerRole, NEW p \in Pos, ApplyMove(r, p) PROVE Inv'
  <2>0. /\ turn = r /\ Other(turn) = Other(r) /\ Other(r) \in PlayerRole
        /\ Other(r) # r /\ winner = 0
    BY <1>1, OtherRole DEF ApplyMove, Legal, NoStalemate
  <2>1. TypeOK'
    BY <1>1, <2>0 DEF ApplyMove, TypeOK
  <2>2. TurnMatchesBoard'
    <3>1. /\ Cardinality(Cells(r)') = Cardinality(Cells(r)) + 1
          /\ Cells(Other(r))' = Cells(Other(r))
      BY <1>1, MoveCounts
    <3>2. Cardinality(Cells(1)) \in Nat /\ Cardinality(Cells(2)) \in Nat
      BY CellsFinite
    <3>3. CASE r = 1
      <4>1. Other(r) = 2
        BY <3>3 DEF Other
      <4>2. turn' \in {0, 2}
        BY <1>1, <2>0, <4>1 DEF ApplyMove
      <4>3. QED
        BY <2>0, <3>1, <3>2, <3>3, <4>1, <4>2 DEF TurnMatchesBoard
    <3>4. CASE r = 2
      <4>1. Other(r) = 1
        BY <3>4 DEF Other
      <4>2. turn' \in {0, 1}
        BY <1>1, <2>0, <4>1 DEF ApplyMove
      <4>3. QED
        BY <2>0, <3>1, <3>2, <3>4, <4>1, <4>2 DEF TurnMatchesBoard
    <3>5. QED
      BY <3>3, <3>4
  <2>3. LineDecides'
    <3> SUFFICES ASSUME NEW s \in PlayerRole, HasLine(board', s)
                 PROVE  turn' = 0 /\ winner' = s
      BY DEF LineDecides
    <3>1. CASE s = r
      BY <1>1, <3>1 DEF ApplyMove
    <3>2. CASE s # r
      <4>1. PICK line \in Lines : \A q \in line : board'[q] = s
        BY DEF HasLine
      <4>2. line \subseteq Pos
        BY DEF Lines, Pos
      <4>3. \A q \in line : board[q] = s
        BY <1>1, <3>2, <4>1, <4>2 DEF ApplyMove, TypeOK
      <4>4. HasLine(board, s)
        BY <4>1, <4>3 DEF HasLine
      <4>5. QED
        BY <2>0, <4>4 DEF LineDecides
    <3>3. QED
      BY <3>1, <3>2
  <2>4. NoStalemate'
    <3>1. turn' # 0 => ~HasLine(board', r) /\ ~Full(board')
      BY <1>1 DEF ApplyMove
    <3>2. turn' = 0 => HasLine(board', r) \/ Full(board')
      BY <1>1, <2>0 DEF ApplyMove
    <3>3. HasLine(board', r) => winner' = r
      BY <1>1 DEF ApplyMove
    <3>4. ~HasLine(board', r) => winner' = 0
      BY <1>1, <2>0 DEF ApplyMove
    <3>5. QED
      BY <3>1, <3>2, <3>3, <3>4 DEF NoStalemate
  <2>5. QED
    BY <2>1, <2>2, <2>3, <2>4
<1>2. ASSUME NEW r \in PlayerRole, Resign(r) PROVE Inv'
  <2>0. /\ turn # 0 /\ turn' = 0 /\ board' = board
        /\ winner' = Other(r) /\ winner' \in PlayerRole
    BY <1>2, OtherRole DEF Resign
  <2>1. TypeOK'
    BY <2>0 DEF TypeOK
  <2>2. TurnMatchesBoard'
    <3>1. Cells(1)' = Cells(1) /\ Cells(2)' = Cells(2)
      BY <2>0 DEF Cells
    <3>2. QED
      BY <2>0, <3>1 DEF TurnMatchesBoard, TypeOK
  <2>3. LineDecides'
    BY <2>0 DEF LineDecides, HasLine
  <2>4. NoStalemate'
    BY <2>0 DEF NoStalemate
  <2>5. QED
    BY <2>1, <2>2, <2>3, <2>4
<1>3. CASE UNCHANGED vars
  <2>1. Cells(1)' = Cells(1) /\ Cells(2)' = Cells(2)
    BY <1>3 DEF vars, Cells
  <2>2. QED
    BY <1>3, <2>1
    DEF vars, TypeOK, TurnMatchesBoard, LineDecides, HasLine, NoStalemate, Full
<1>4. QED
  BY <1>1, <1>2, <1>3 DEF Next, RejectMove, RejectResign

\* Whatever moves and resignations arrive, in whatever order, the board, the
\* turn and the winner stay consistent.
THEOREM GameInvariant == Spec => []Inv
BY InitInv, StepInv, PTL DEF Spec

\* The state of a game is always well-typed.
THEOREM GameTypeOK == Spec => []TypeOK
<1>1. Inv => TypeOK
  BY DEF Inv
<1>2. QED
  BY <1>1, GameInvariant, PTL

\* Nobody ever moves twice in a row, in any game.
THEOREM GameTurns == Spec => []TurnMatchesBoard
<1>1. Inv => TurnMatchesBoard
  BY DEF Inv
<1>2. QED
  BY <1>1, GameInvariant, PTL

\* A line always ends the game for its owner; at most one role has one.
THEOREM GameLineDecides == Spec => []LineDecides
<1>1. Inv => LineDecides
  BY DEF Inv
<1>2. QED
  BY <1>1, GameInvariant, PTL

\* A game in progress always has a free cell; an undecided end is a full board.
THEOREM GameNoStalemate == Spec => []NoStalemate
<1>1. Inv => NoStalemate
  BY DEF Inv
<1>2. QED
  BY <1>1, GameInvariant, PTL

-----------------------------------------------------------------------------
\* A step of the game is a step of GameOutcome, or leaves it unchanged.
LEMMA StepOutcome == Inv /\ Inv' /\ [Next]_vars => [Outcome!OutcomeNext]_<<turn, winner>>
<1> SUFFICES ASSUME Inv, Inv', [Next]_vars
             PROVE  [Outcome!OutcomeNext]_<<turn, winner>>
  OBVIOUS
<1> USE DEF Outcome!NULL_ROLE, Outcome!FIRST_PLAYER_ROLE,
            Outcome!SECOND_PLAYER_ROLE, Outcome!PlayerRole
<1>1. ASSUME NEW r \in PlayerRole, NEW p \in Pos, ApplyMove(r, p)
      PROVE  Outcome!Play
  <2>0. /\ turn = r /\ Other(r) \in PlayerRole /\ winner = 0
    BY <1>1, OtherRole DEF ApplyMove, Legal, Inv, NoStalemate
  <2>1. CASE HasLine(board', r)
    <3>1. turn' = 0 /\ winner' = r
      BY <1>1, <2>1 DEF ApplyMove
    <3>2. QED
      BY <2>0, <3>1 DEF Outcome!Play, Outcome!Playing, Outcome!MoveOutcomes, Outcome!Other, Other
  <2>2. CASE ~HasLine(board', r) /\ ~Full(board')
    <3>1. turn' = Other(r) /\ winner' = 0
      BY <1>1, <2>0, <2>2 DEF ApplyMove
    <3>2. QED
      BY <2>0, <3>1 DEF Outcome!Play, Outcome!Playing, Outcome!MoveOutcomes, Outcome!Other, Other
  <2>3. CASE ~HasLine(board', r) /\ Full(board')
    <3>1. turn' = 0 /\ winner' = 0
      BY <1>1, <2>3 DEF ApplyMove
    <3>2. r = 1
      <4> SUFFICES ASSUME r = 2 PROVE FALSE
        OBVIOUS
      <4>1. Cardinality(Cells(1)) \in Nat /\ Cardinality(Cells(2)) \in Nat
        BY CellsFinite DEF Inv
      <4>2. Cardinality(Cells(1)) = Cardinality(Cells(2)) + 1
        BY <2>0, <4>1 DEF Inv, TurnMatchesBoard
      <4>3. /\ Cardinality(Cells(2)') = Cardinality(Cells(2)) + 1
            /\ Cells(1)' = Cells(1)
        BY <1>1, MoveCounts DEF Inv, Other
      <4>4. Cardinality(Cells(1)') + Cardinality(Cells(2)') = 9
        <5>1. board' \in [Pos -> GameRole] /\ Full(board')
          BY <2>3 DEF Inv, TypeOK
        <5>2. QED
          BY <5>1, FullSplits DEF Cells
      <4>5. QED
        BY <4>1, <4>2, <4>3, <4>4
    <3>3. QED
      BY <2>0, <3>1, <3>2 DEF Outcome!Play, Outcome!Playing, Outcome!MoveOutcomes,
         Outcome!Other, Other
  <2>4. QED
    BY <2>1, <2>2, <2>3
<1>2. ASSUME NEW r \in PlayerRole, Resign(r) PROVE Outcome!Concede
  BY <1>2, OtherRole DEF Resign, Outcome!Concede, Outcome!Playing
<1>3. CASE UNCHANGED vars
  BY <1>3 DEF vars
<1>4. QED
  BY <1>1, <1>2, <1>3 DEF Next, RejectMove, RejectResign, Outcome!OutcomeNext

\* The board game implements the outcome that the invitations rely on.
THEOREM GameImplementsOutcome == Spec => ImplementsOutcome
<1>1. Init => Outcome!OutcomeInit
  BY DEF Init, Outcome!OutcomeInit, Outcome!NULL_ROLE, Outcome!FIRST_PLAYER_ROLE
<1>2. QED
  BY <1>1, GameInvariant, StepOutcome, PTL
  DEF Spec, ImplementsOutcome, Outcome!OutcomeSpec, Outcome!gvars
=============================================================================
