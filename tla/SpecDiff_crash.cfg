\* One invocation at a time that may die between its two writes, distinct
\* titles.
CONSTANTS
    t1 = t1
    t2 = t2
    b1 = b1
    b2 = b2
    p1 = p1
    Title <- MCTitle
    Body <- MCBody
    Proc <- MCProcSerial
    MaxSections = 2
    AllowDupTitles = FALSE
    AllowCrash = TRUE
    NoFile = NoFile
    Corrupt = Corrupt
SPECIFICATION Spec




PROPERTY DriftReported
