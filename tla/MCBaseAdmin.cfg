CONSTANTS
    m1 = m1
    m2 = m2
    m3 = m3
    Menus = {m1, m2, m3}
    Users = {u1, u2}
    parent <- ParentOf
    Root = Root
    New = New
    FirstUsers = {u1}
    FirstMenus = {m1, m2}
    MaxLoads = 2
    MaxPosts = 2
    MaxClicks = 3
    MaxChanges = 2
    Authorities = {a1, a2}
    Patterns = {p1, p2}
    Savers = {s1, s2}
    Requests = {r1}
SPECIFICATION Spec
SYMMETRY Symmetry
CHECK_DEADLOCK FALSE
INVARIANT SavedIsStored UnchangedSave SettledCacheIsCurrent
PROPERTY DanglingOnlyFrom
