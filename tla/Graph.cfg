SPECIFICATION Spec
CONSTANTS
    vpc = vpc
    net = net
    app = app
    ami = ami
    lb = lb
    m = m
    k0 = k0
    k1 = k1
    Nil = Nil
    StateFiles <- MCStateFiles
    MaxDepths = {0, 2}
    Queries <- MCQueries
INVARIANTS
    TypeOK
    RadiusIsExact
    SortIsSafe
    FailsOnlyOnACycle
    QueryIsFaithful
PROPERTY
    CallsReturn
CHECK_DEADLOCK FALSE
