--------------------------- MODULE MC_SpecTestMap ---------------------------
(* Small instances of SpecTestMap for TLC. *)
EXTENDS SpecTestMap

CONSTANTS f1, f2, s1, s2, s3, n1

MCFileId == {f1, f2}
MCFnName == {n1}
\* s1 and s2 are numbered sections ("1. ...", "2. ..."), s3 is not a title.
MCText == {s1, s2, s3}
MCSpecTitles == <<s1, s2>>
MCNumbered == {s1, s2}
=============================================================================
