SPECIFICATION FairSpec
CONSTANTS
    VMs = {m1, m2, m3}
    InitialValue = 10
    MaxCas = 8
PROPERTIES
    ImplementsCounter
    SomebodyCounts
CHECK_DEADLOCK FALSE
