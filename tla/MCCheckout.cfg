SPECIFICATION Spec
CONSTANTS
    Users = {u1}
    AddCalls = {a1, a2}
    EmptyCalls = {e1, o1, o2}
    GetCalls = {o1, o2}
    Orders = {o1, o2}
    NoUser = NoUser
    NoCart = NoCart
    NoPromise = NoPromise
SYMMETRY Symmetry
INVARIANTS
    EffectsInOrder
    BilledAgainOnlyIfRevived
    PaidTwiceOnlyAfterFailure
    NothingLost
CHECK_DEADLOCK FALSE
