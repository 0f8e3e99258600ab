CONSTANTS
    f1 = f1
    f2 = f2
    t0 = t0
    t1 = t1
    e1 = e1
    g1 = g1
    g2 = g2
    Absent = Absent
    Files <- MCOneFile
    Texts <- MCTexts
    EditTexts <- MCEditTexts
    Empty = t0
    Tags <- MCTags
    MaxStamp = 1
    MaxRows = 2
INIT SSInit
NEXT SSNext
INVARIANTS SSTypeOK UndoFromCurrentLife
