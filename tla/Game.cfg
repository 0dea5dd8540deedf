SPECIFICATION Spec
INVARIANT TypeOK
INVARIANT TurnMatchesBoard
INVARIANT LineDecides
INVARIANT NoStalemate
PROPERTY ImplementsOutcome
