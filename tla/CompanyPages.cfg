SPECIFICATION WalkSpec
CONSTANTS
    Ids = {1, 2, 3, 4, 5}
    Limit = 2
INVARIANTS
    ListedInOrder
    WalkIsComplete
