---------------------------- MODULE PriorityTargets ----------------------------
(***************************************************************************)
(* scripts/find_priority_targets.py: the same search for the project root *)
(* as measure_quality.py, then find_worst_files: analyse every Rust file  *)
(* (an exception is printed and the file skipped), keep the files with a  *)
(* positive severity score, sort them by score, highest first, keep the   *)
(* first `limit` and print them with recommendations.  A file is named by *)
(* its index in rust_files, which is rglob's order.                        *)
(***************************************************************************)
EXTENDS QualityScan, FiniteSets

CONSTANTS
    CwdDepth,    \* depth of the working directory (0 is the filesystem root)
    FileLines,   \* the lines a Rust file may consist of
    MaxEntries,  \* bound on the entries rglob yields
    MaxLines,    \* bound on the lines of a file
    Limit        \* the limit argument of find_worst_files (20 in main)

ASSUME PriorityAssumption ==
    /\ CwdDepth \in Nat
    /\ FileLines \subseteq Line
    /\ MaxEntries \in Nat /\ MaxLines \in Nat /\ Limit \in Nat

Found ==
    [kind : {"file"}, inTarget : BOOLEAN, lines : BoundedSeq(FileLines, MaxLines)]
        \cup [kind : {"undecodable", "dir"}, inTarget : BOOLEAN]

\* The position of file_issues[k] once sorted by score with reverse=True:
\* Python's sort is stable, and reverse=True keeps equal keys in their
\* original order.
SortPos(s, k) ==
    1 + Cardinality({j \in DOMAIN s : s[j].score > s[k].score})
      + Cardinality({j \in DOMAIN s : j < k /\ s[j].score = s[k].score})

\* Mutant: sorted ascending and then reversed, which reverses ties.
SortByScoreTiesReversed(s) ==
    LET pos(k) == 1 + Cardinality({j \in DOMAIN s : s[j].score > s[k].score})
                    + Cardinality({j \in DOMAIN s : j > k /\ s[j].score = s[k].score})
    IN  [p \in DOMAIN s |-> s[CHOOSE k \in DOMAIN s : pos(k) = p]]

\* file_issues.sort(key=lambda x: x['score'], reverse=True)
SortByScore(s) == [p \in DOMAIN s |-> s[CHOOSE k \in DOMAIN s : SortPos(s, k) = p]]

VARIABLES
    manifest,  \* the depths of the directories that hold a Cargo.toml
    entries,   \* what rglob("*.rs") yields under the project root, in order
    dir,       \* project_root, as a depth
    files,     \* rust_files
    i,         \* index in files of the next file to analyse
    issues,    \* file_issues: [file, score] of the files with a positive score
    worst,     \* the list find_worst_files returns and main prints
    out,       \* "running", "no_root" or "report"
    pc

vars == <<manifest, entries, dir, files, i, issues, worst, out, pc>>

Init ==
    /\ manifest \in SUBSET (0..CwdDepth)
    /\ entries \in BoundedSeq(Found, MaxEntries)
    /\ dir = CwdDepth
    /\ files = <<>>
    /\ i = 1
    /\ issues = <<>>
    /\ worst = <<>>
    /\ out = "running"
    /\ pc = "root"

\* One iteration of the while/else loop of main.
FindRoot ==
    /\ pc = "root"
    /\ IF dir = 0
         THEN out' = "no_root" /\ pc' = "done" /\ UNCHANGED dir
         ELSE IF dir \in manifest
                THEN pc' = "files" /\ UNCHANGED <<dir, out>>
                ELSE dir' = dir - 1 /\ UNCHANGED <<out, pc>>
    /\ UNCHANGED <<manifest, entries, files, i, issues, worst>>

\* rust_files = find_rust_files(project_root); no check for an empty list.
FindFiles ==
    /\ pc = "files"
    /\ files' = FindRustFiles(entries)
    /\ pc' = "scan"
    /\ UNCHANGED <<manifest, entries, dir, i, issues, worst, out>>

\* Mutant: the file recorded by enumerate's 0-based index.
AnalyzeOneZeroBased ==
    /\ pc = "scan"
    /\ i \in DOMAIN files
    /\ LET sev == SeverityScore(AnalyzeFile(files[i]))
       IN  issues' = IF files[i].kind # "dir" /\ sev > 0
                       THEN Append(issues, [file |-> i - 1, score |-> sev])
                       ELSE issues
    /\ i' = i + 1
    /\ UNCHANGED <<manifest, entries, dir, files, worst, out, pc>>

\* One iteration of the loop of find_worst_files: a directory makes
\* analyze_file raise, which is printed and skipped; a file is kept when
\* its severity score is positive.
AnalyzeOne ==
    /\ pc = "scan"
    /\ i \in DOMAIN files
    /\ LET sev == SeverityScore(AnalyzeFile(files[i]))
       IN  issues' = IF files[i].kind # "dir" /\ sev > 0
                       THEN Append(issues, [file |-> i, score |-> sev])
                       ELSE issues
    /\ i' = i + 1
    /\ UNCHANGED <<manifest, entries, dir, files, worst, out, pc>>

\* Sort, return file_issues[:limit], and print the two reports.
Report ==
    /\ pc = "scan"
    /\ i = Len(files) + 1
    /\ worst' = SubSeq(SortByScore(issues), 1, Min({Limit, Len(issues)}))
    /\ out' = "report"
    /\ pc' = "done"
    /\ UNCHANGED <<manifest, entries, dir, files, i, issues>>

\* The script has exited.
Done ==
    /\ pc = "done"
    /\ UNCHANGED vars

Next == FindRoot \/ FindFiles \/ AnalyzeOne \/ Report \/ Done

Spec == Init /\ [][Next]_vars

-----------------------------------------------------------------------------
(* Properties *)

Issue == [file : 1..MaxEntries, score : Nat]

TypeOK ==
    /\ manifest \subseteq 0..CwdDepth
    /\ entries \in Seq(Found) /\ Len(entries) <= MaxEntries
    /\ dir \in 0..CwdDepth
    /\ files \in Seq(Found) /\ Len(files) <= Len(entries)
    /\ i \in 1..(MaxEntries + 1)
    /\ issues \in Seq(Issue) /\ worst \in Seq(Issue)
    /\ out \in {"running", "no_root", "report"}
    /\ pc \in {"root", "files", "scan", "done"}

\* The severity of the k-th Rust file, and the files that have issues.
Severity(k) == SeverityScore(AnalyzeFile(files[k]))
WithIssues == {k \in DOMAIN files : files[k].kind # "dir" /\ Severity(k) > 0}

\* The printed targets are the `limit` files with the highest severity,
\* highest first, each once and with its own score; among files of equal
\* score the one rglob found first is listed first, and a file is left out
\* only when every listed file scores higher or ties with it and was
\* found before it.
TopTargets ==
    out = "report" =>
        LET listed == {worst[r].file : r \in DOMAIN worst}
            before(a, b) == a.score > b.score \/ (a.score = b.score /\ a.file < b.file)
        IN  /\ Len(worst) = Min({Limit, Cardinality(WithIssues)})
            /\ \A r \in DOMAIN worst : worst[r].file \in WithIssues
                                        /\ worst[r].score = Severity(worst[r].file)
            /\ \A r1, r2 \in DOMAIN worst : r1 < r2 => before(worst[r1], worst[r2])
            /\ \A k \in WithIssues \ listed : \A r \in DOMAIN worst :
                   before(worst[r], [file |-> k, score |-> Severity(k)])

-----------------------------------------------------------------------------
(* Facts about the library operators the model is built from *)

\* SelectSeq (find_rust_files' filter) returns a sequence of entries no
\* longer than the one it filters.
FilesFact ==
    \A es \in BoundedSeq(Found, MaxEntries) :
        FindRustFiles(es) \in Seq(Found) /\ Len(FindRustFiles(es)) <= Len(es)

\* The severity score of a file analyze_file can open is a natural number:
\* the counters find_* return are folds of additions of naturals.
SeverityFact ==
    \A e \in Found : e.kind # "dir" => SeverityScore(AnalyzeFile(e)) \in Nat
=============================================================================
