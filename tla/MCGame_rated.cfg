SPECIFICATION Spec
CONSTANTS
    Cell <- Squares
    Lines <- Winning
INVARIANTS
    RatedOnce
