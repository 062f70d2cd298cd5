SPECIFICATION Spec
CONSTANTS
    Cell <- Squares
    Lines <- Winning
INVARIANTS
    TypeOK
    ResultFits
PROPERTIES
    PlaysMatch
    OverIsRated
