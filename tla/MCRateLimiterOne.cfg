SPECIFICATION Spec
CONSTANTS
    Callers = {c1}
    Admins = {a1}
    Tasks = {t1, t2}
    NoOne = NoOne
    Limit = 2
    Speed = 1
INVARIANT
    OneRefillTask
