SPECIFICATION Spec
CONSTANTS
    n1 = n1
    n2 = n2
    NoName = NoName
    Name = {n1, n2}
    Places = 2
    MaxPosts = 3
    MaxLost = 1
SYMMETRY Symmetry
INVARIANTS
    TypeOK
    PlayerRefExact
    UsersListed
    NoCircle
    NoResultLost
PROPERTIES
    LoginRefused
