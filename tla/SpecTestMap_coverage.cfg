\* Two files, at most two paths (so one file may be yielded by both globs),
\* three lines per file, annotations citing two titles and one non-title.
CONSTANTS
    f1 = f1
    f2 = f2
    s1 = s1
    s2 = s2
    s3 = s3
    n1 = n1
    FileId <- MCFileId
    Text <- MCText
    FnName <- MCFnName
    SpecTitles <- MCSpecTitles
    Numbered <- MCNumbered
    MaxFiles = 2
    MaxLines = 3
    NoFile = NoFile
SPECIFICATION Spec
INVARIANT CoverageAsSpecified
