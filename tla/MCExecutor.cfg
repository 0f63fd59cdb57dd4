CONSTANTS
    Callers = {c1, c2}
    Admins = {a1, a2}
    Tasks = {t1, t2}
    NoOne = NoOne
    Limit = 2
    Speed = 1
    Loggers = {l1}
    Monitors = {n1}
    CORE_POOL_SIZE = 1
    MaxSent = 1
    MaxLines = 6
    MaxDays = 2
    Files = {f1, f2}
    NoFile = NoFile
    threads = 1
    MaxStops = 2
SPECIFICATION MCSpec
INVARIANT CountTypeOK BurstAtMostLimit InOrderWithOneGap
PROPERTY OnKeepsServing TasksStartAndEnd PageFollows ImplementsUpload WaitingFilesGoOn
CHECK_DEADLOCK FALSE
