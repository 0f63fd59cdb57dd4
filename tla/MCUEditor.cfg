CONSTANTS
    MaxRows = 3
    MaxCols = 3
    Words = {w1}
    Contents = {c1, c2, c3}
    Carets = {k1}
    Spans = {s1}
    maxUndoCount = 3
    maxInputCount = 2
    MaxIntervals = 1
SPECIFICATION Spec
INVARIANT ContentsKeepPlace MergeAndSplit CutOnlyAtLastEdge QuietLosesOneKey UndoThenRedo
PROPERTY TilesGrid WordsKept HalfDoneOnlyOnBareRows KeysSavedAtLast
