---------------------------- MODULE SpecTestMap ----------------------------
(***************************************************************************)
(* The annotation scanner and section-mapping coverage of                 *)
(* scripts/spec_test_map.py.  The script scans the test files the globs   *)
(* select, line by line: a "/// @spec <title>" line adds <title> to the   *)
(* pending annotations, a line matching fn_name_re binds every pending    *)
(* annotation to "<path>::<fn>" and clears them, and the pending list is  *)
(* reset when a file starts.  It then counts the numbered sections of the *)
(* specification and writes spec/spec_test_mapping.json.  A line is       *)
(* modelled by what the two regexes make of it.                            *)
(***************************************************************************)
EXTENDS Naturals, Sequences, FiniteSets, Functions

CONSTANTS
    FileId,      \* test files
    Text,        \* strings: section titles and annotation payloads
    FnName,      \* function names captured by fn_name_re
    SpecTitles,  \* the "## " titles of the specification, in document order
    Numbered,    \* the titles that start with one of "1.", ..., "10."
    MaxFiles,    \* bound on the number of paths the globs yield
    MaxLines,    \* bound on the number of lines of a file
    NoFile       \* the value of a file not written yet

ASSUME MapConstantsAssumption ==
    /\ SpecTitles \in Seq(Text)
    /\ Numbered \subseteq Text
    /\ MaxFiles \in Nat /\ MaxLines \in Nat

\* A line as the regexes classify it: annot_re matches (with the stripped
\* payload), fn_name_re matches (with the captured name), or neither.
Line == [kind : {"annot"}, ref : Text] \cup [kind : {"fn"}, name : FnName]
            \cup [kind : {"other"}]

BoundedSeq(S, n) == UNION {[1..k -> S] : k \in 0..n}

\* A test identifier "<relative_path>::<fn_name>".
Ident == FileId \X FnName

VARIABLES
    paths,    \* the paths ROOT.glob yields for TEST_GLOBS, in order
    content,  \* content[f]: the lines of file f
    fi,       \* index in paths of the file being scanned
    li,       \* index of the next line of that file
    pending,  \* current_annots
    specMap,  \* spec_map: specMap[s] is the bucket of s, <<>> when s is no key
    out       \* spec/spec_test_mapping.json

vars == <<paths, content, fi, li, pending, specMap, out>>

-----------------------------------------------------------------------------

\* flush(): every pending title gets the identifier once.
Flush(m, pend, id) ==
    [s \in Text |-> IF s \in Range(pend) /\ id \notin Range(m[s])
                      THEN Append(m[s], id) ELSE m[s]]

\* The keys of spec_map.
Keys(m) == {s \in Text : m[s] # <<>>}

\* The numbered titles of the specification.
NumberedTitles == {SpecTitles[i] : i \in DOMAIN SpecTitles} \cap Numbered

\* The report of lines 70-74.
MakeMapReport(m) ==
    [sections |-> m,
     unmapped |-> SelectSeq(SpecTitles, LAMBDA s : s \in Numbered /\ s \notin Keys(m)),
     mapped   |-> Cardinality(Keys(m)),
     total    |-> Len(SelectSeq(SpecTitles, LAMBDA s : s \in Numbered))]

Init ==
    /\ paths \in BoundedSeq(FileId, MaxFiles)
    /\ content \in [FileId -> BoundedSeq(Line, MaxLines)]
    /\ fi = 1
    /\ li = 1
    /\ pending = <<>>
    /\ specMap = [s \in Text |-> <<>>]
    /\ out = NoFile

Scanning == fi \in DOMAIN paths /\ li \in DOMAIN content[paths[fi]]
CurLine == content[paths[fi]][li]

\* Mutant: the match object is appended instead of its stripped group.
ScanAnnotWholeMatch ==
    /\ Scanning
    /\ CurLine.kind = "annot"
    /\ pending' = Append(pending, CurLine)
    /\ li' = li + 1
    /\ UNCHANGED <<paths, content, fi, specMap, out>>

\* An annotation line: current_annots.append(a.group(1).strip()).
ScanAnnot ==
    /\ Scanning
    /\ CurLine.kind = "annot"
    /\ pending' = Append(pending, CurLine.ref)
    /\ li' = li + 1
    /\ UNCHANGED <<paths, content, fi, specMap, out>>

\* A function line: flush() with current_fn, then current_annots = [].
ScanFn ==
    /\ Scanning
    /\ CurLine.kind = "fn"
    /\ specMap' = Flush(specMap, pending, <<paths[fi], CurLine.name>>)
    /\ pending' = <<>>
    /\ li' = li + 1
    /\ UNCHANGED <<paths, content, fi, out>>

ScanOther ==
    /\ Scanning
    /\ CurLine.kind = "other"
    /\ li' = li + 1
    /\ UNCHANGED <<paths, content, fi, pending, specMap, out>>

\* Mutant: current_annots is not reset when a new file starts.
NextFileKeepsPending ==
    /\ fi \in DOMAIN paths
    /\ li = Len(content[paths[fi]]) + 1
    /\ fi' = fi + 1
    /\ li' = 1
    /\ UNCHANGED <<paths, content, pending, specMap, out>>

\* End of a file: annotations still pending are dropped, and the next file
\* starts with current_annots = [].
NextFile ==
    /\ fi \in DOMAIN paths
    /\ li = Len(content[paths[fi]]) + 1
    /\ fi' = fi + 1
    /\ li' = 1
    /\ pending' = <<>>
    /\ UNCHANGED <<paths, content, specMap, out>>

\* All files scanned: compute the coverage and write the JSON.
WriteMapping ==
    /\ fi = Len(paths) + 1
    /\ out = NoFile
    /\ out' = MakeMapReport(specMap)
    /\ UNCHANGED <<paths, content, fi, li, pending, specMap>>

Done ==
    /\ out # NoFile
    /\ UNCHANGED vars

Next == ScanAnnot \/ ScanFn \/ ScanOther \/ NextFile \/ WriteMapping \/ Done

Spec == Init /\ [][Next]_vars

-----------------------------------------------------------------------------
(* Properties *)

TypeOK ==
    /\ paths \in BoundedSeq(FileId, MaxFiles)
    /\ content \in [FileId -> BoundedSeq(Line, MaxLines)]
    /\ fi \in 1..(MaxFiles + 1)
    /\ li \in 1..(MaxLines + 1)
    /\ pending \in Seq(Text)
    /\ specMap \in [Text -> Seq(Ident)]
    /\ out = NoFile \/ out.sections \in [Text -> Seq(Ident)]

\* Reference: test t of file f is bound to title s iff, in f, an "@spec s"
\* line precedes the line of t with no function line in between.
BoundIn(f, s) ==
    { <<f, content[f][j].name>> :
        j \in {j \in DOMAIN content[f] :
                 /\ content[f][j].kind = "fn"
                 /\ \E a \in 1..(j - 1) :
                      /\ content[f][a] = [kind |-> "annot", ref |-> s]
                      /\ \A b \in (a + 1)..(j - 1) : content[f][b].kind # "fn"} }

\* The mapping the scanner writes binds to each title exactly the tests the
\* reference binds in any scanned file (a path the globs yield twice
\* included), each once: trailing annotations are dropped and annotations
\* never leak from one file, or one function, to the next.
MappingMatchesReference ==
    out # NoFile =>
        \A s \in Text :
            /\ Range(out.sections[s]) = UNION {BoundIn(paths[k], s) : k \in DOMAIN paths}
            /\ IsInjective(out.sections[s])

\* Spec section 4.4: mapped_section_count counts the numbered sections of
\* the specification that some test is bound to, and the unmapped list
\* holds the others, so the two add up to total_section_count.
CoverageAsSpecified ==
    out # NoFile =>
        /\ out.mapped = Cardinality(NumberedTitles \cap Keys(out.sections))
        /\ out.mapped + Len(out.unmapped) = out.total
=============================================================================
