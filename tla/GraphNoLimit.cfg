SPECIFICATION RadiusSpec
CONSTANTS
    Nil = Nil
    StateFiles <- MCChain
    MaxDepths = {0, 3}
INVARIANT
    ZeroIsNoLimit
CHECK_DEADLOCK FALSE
