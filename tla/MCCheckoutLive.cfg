SPECIFICATION FairSpec
CONSTANTS
    Users = {u1}
    AddCalls = {a1}
    EmptyCalls = {e1, o1, o2}
    GetCalls = {o1, o2}
    Orders = {o1, o2}
    NoUser = NoUser
    NoCart = NoCart
    NoPromise = NoPromise
PROPERTIES
    OrderEnds
CHECK_DEADLOCK FALSE
