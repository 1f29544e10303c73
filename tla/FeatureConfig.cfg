\* Two callers set one feature, and any other process may remove it.  An
\* argument gives the feature a value as well, which shows when the file goes.
SPECIFICATION Spec
CONSTANTS
    Names = {a}
    Documents = {v1, null}
    Null = null
    Blank = blank
    Junk = junk
    Missing = missing
    Arg <- ArgFeatures
    Writers = {w1, w2}
    ArgValue = v1
    QueueCap = 2
INVARIANTS
    TypeOK
    ScanDue
    SetWhenAlone
PROPERTIES
    FilesReachLocal
    OnlyAsked
