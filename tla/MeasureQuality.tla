---------------------------- MODULE MeasureQuality ----------------------------
(***************************************************************************)
(* main() of scripts/measure_quality.py: find the project root by walking *)
(* up from the working directory to a directory holding Cargo.toml, list  *)
(* the Rust files under it, analyse them one at a time, merge the metrics *)
(* and print the report.  Directories are numbered by depth: 0 is the     *)
(* filesystem root and the working directory is at depth CwdDepth.        *)
(***************************************************************************)
EXTENDS QualityScan, FiniteSets

CONSTANTS
    CwdDepth,    \* depth of the working directory
    FileLines,   \* the lines a Rust file may consist of
    MaxEntries,  \* bound on the entries rglob yields
    MaxLines     \* bound on the lines of a file

ASSUME MeasureAssumption ==
    /\ CwdDepth \in Nat
    /\ FileLines \subseteq Line
    /\ MaxEntries \in Nat /\ MaxLines \in Nat

Found ==
    [kind : {"file"}, inTarget : BOOLEAN, lines : BoundedSeq(FileLines, MaxLines)]
        \cup [kind : {"undecodable", "dir"}, inTarget : BOOLEAN]

VARIABLES
    manifest,  \* the depths of the directories that hold a Cargo.toml
    entries,   \* what rglob("*.rs") yields under the project root, in order
    dir,       \* project_root, as a depth
    files,     \* rust_files
    i,         \* index in files of the next file to analyse
    acc,       \* all_metrics
    out,       \* how the run ends: "running", an error exit, or "report"
    printed,   \* the metrics print_metrics_report prints
    score,     \* the QUALITY SCORE it prints
    pc

vars == <<manifest, entries, dir, files, i, acc, out, printed, score, pc>>

Init ==
    /\ manifest \in SUBSET (0..CwdDepth)
    /\ entries \in BoundedSeq(Found, MaxEntries)
    /\ dir = CwdDepth
    /\ files = <<>>
    /\ i = 1
    /\ acc = <<>>
    /\ out = "running"
    /\ printed = NoMetrics
    /\ score = 0
    /\ pc = "root"

\* One iteration of the while/else loop: stop at a directory holding
\* Cargo.toml, go up otherwise; when project_root is its own parent the
\* loop ends without looking at it and the else branch exits 1.
FindRoot ==
    /\ pc = "root"
    /\ IF dir = 0
         THEN out' = "no_root" /\ pc' = "done" /\ UNCHANGED dir
         ELSE IF dir \in manifest
                THEN pc' = "files" /\ UNCHANGED <<dir, out>>
                ELSE dir' = dir - 1 /\ UNCHANGED <<out, pc>>
    /\ UNCHANGED <<manifest, entries, files, i, acc, printed, score>>

\* find_rust_files, then exit 1 if there is none.
FindFiles ==
    /\ pc = "files"
    /\ files' = FindRustFiles(entries)
    /\ IF files' = <<>>
         THEN out' = "no_files" /\ pc' = "done"
         ELSE pc' = "scan" /\ UNCHANGED out
    /\ UNCHANGED <<manifest, entries, dir, i, acc, printed, score>>

\* Mutant: an undecodable file counts as processed.
AnalyzeNextCountsUnreadable ==
    /\ pc = "scan"
    /\ i \in DOMAIN files
    /\ IF files[i].kind = "dir"
         THEN out' = "traceback" /\ pc' = "done" /\ UNCHANGED <<acc, i>>
         ELSE /\ acc' = Append(acc, IF files[i].kind = "undecodable"
                                      THEN [NoMetrics EXCEPT !.files = 1]
                                      ELSE AnalyzeFile(files[i]))
              /\ i' = i + 1
              /\ UNCHANGED <<out, pc>>
    /\ UNCHANGED <<manifest, entries, dir, files, printed, score>>

\* all_metrics.append(analyze_file(file_path)).  read_text on a directory
\* raises IsADirectoryError, which analyze_file does not catch: the script
\* dies with a traceback.
AnalyzeNext ==
    /\ pc = "scan"
    /\ i \in DOMAIN files
    /\ IF files[i].kind = "dir"
         THEN out' = "traceback" /\ pc' = "done" /\ UNCHANGED <<acc, i>>
         ELSE /\ acc' = Append(acc, AnalyzeFile(files[i]))
              /\ i' = i + 1
              /\ UNCHANGED <<out, pc>>
    /\ UNCHANGED <<manifest, entries, dir, files, printed, score>>

\* merge_metrics and print_metrics_report.
Report ==
    /\ pc = "scan"
    /\ i = Len(files) + 1
    /\ out' = "report"
    /\ printed' = MergeMetrics(acc)
    /\ score' = QualityScore(printed')
    /\ pc' = "done"
    /\ UNCHANGED <<manifest, entries, dir, files, i, acc>>

\* The script has exited.
Done ==
    /\ pc = "done"
    /\ UNCHANGED vars

Next == FindRoot \/ FindFiles \/ AnalyzeNext \/ Report \/ Done

Spec == Init /\ [][Next]_vars

-----------------------------------------------------------------------------
(* Properties *)

TypeOK ==
    /\ manifest \subseteq 0..CwdDepth
    /\ entries \in Seq(Found) /\ Len(entries) <= MaxEntries
    /\ dir \in 0..CwdDepth
    /\ files \in Seq(Found) /\ Len(files) <= Len(entries)
    /\ i \in 1..(MaxEntries + 1)
    /\ acc \in Seq(Metrics)
    /\ out \in {"running", "no_root", "no_files", "traceback", "report"}
    /\ printed \in Metrics
    /\ score \in Nat
    /\ pc \in {"root", "files", "scan", "done"}

\* The readable Rust files outside target directories, as indices.
Readable == {k \in DOMAIN entries : ~entries[k].inTarget /\ entries[k].kind = "file"}

\* The printed report adds up what every readable Rust file outside the
\* target directories contains, however the files are ordered and whatever
\* undecodable files lie between them: the pattern counts are the number
\* of (file, line, pattern) matches outside the skipped comment lines, the
\* files processed are the readable files, and the depth is the largest
\* depth of one of them.
CombinedIsSum ==
    out = "report" =>
        LET m == printed
            ls(k) == entries[k].lines
            matches(skip, P) ==
                {<<k, j, p>> \in Readable \X (1..MaxLines) \X P :
                    j \in DOMAIN ls(k) /\ ls(k)[j].lead \notin skip /\ p \in ls(k)[j].hits}
        IN  /\ m.error_prone = Cardinality(matches({"comment", "block"}, ErrorPronePatterns))
            /\ m.unsafe = Cardinality(matches({"comment"}, {UnsafePattern}))
            /\ m.dup = Cardinality(matches({"comment"}, DuplicateIndicators))
            /\ m.files = Cardinality(Readable)
            /\ \A k \in Readable : CountNestingDepth(ls(k)) <= m.depth
            /\ Readable # {} => \E k \in Readable : CountNestingDepth(ls(k)) = m.depth
=============================================================================
