\* Two entries of up to two lines, the working directory one level below the root.
CONSTANTS
    CwdDepth = 1
    FileLines <- MCFileLines
    MaxEntries = 2
    MaxLines = 2
SPECIFICATION Spec
INVARIANT TypeOK CombinedIsSum
