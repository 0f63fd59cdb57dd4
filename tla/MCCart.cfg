CONSTANTS
    Users = {u1, u2}
    Owners = {u1, u2}
    Adds = {b1, b2}
    Empties = {f1}
    Nobody = Nobody
    NoObject = NoObject
    Unpromised = Unpromised
    Products = {p1, p2}
    AddCalls = {a1, a2}
    EmptyCalls = {e1}
    GetCalls = {g1}
    NoUser = NoUser
    NoCart = NoCart
    NoPromise = NoPromise
SPECIFICATION MCSpec
INVARIANT AckedItemKept
PROPERTY ImplementsCart ImplementsLocalCart CallsAnswered
CHECK_DEADLOCK FALSE
