----------------------------- MODULE QualityScan -----------------------------
(***************************************************************************)
(* The per-file metrics of scripts/measure_quality.py, shared with        *)
(* scripts/find_priority_targets.py: four line scanners, analyze_file,    *)
(* merge_metrics and the two scores.  A line of a Rust file is modelled by *)
(* what the scanners make of it:                                           *)
(*   lead   - how the stripped line starts: "blank", "comment" ("//",     *)
(*            which includes "///"), "block" ("/*") or "code";            *)
(*   braces - its "{" and "}" characters, in order;                       *)
(*   hits   - the regexes of the pattern lists that re.search finds in it.*)
(* Each pattern counts at most once per line, as re.search does.          *)
(***************************************************************************)
EXTENDS Integers, Sequences, SequencesExt

ErrorPronePatterns == {"expect", "unwrap", "panic", "unreachable", "unimplemented", "todo"}
UnsafePattern == "unsafe_block"
DuplicateIndicators ==
    {"is_authorized", "err_with_id", "ok_with_id", "tracing", "telemetry_cfg", "record_counter"}
Pattern == ErrorPronePatterns \cup {UnsafePattern} \cup DuplicateIndicators

Line == [lead : {"blank", "comment", "block", "code"},
         braces : Seq({"{", "}"}),
         hits : SUBSET Pattern]

\* An entry of root.rglob("*.rs"): a UTF-8 file, a file read_text cannot
\* decode, or a directory whose name ends in ".rs"; inTarget when a
\* component of its path is "target".
Entry == [kind : {"file"}, inTarget : BOOLEAN, lines : Seq(Line)]
            \cup [kind : {"undecodable", "dir"}, inTarget : BOOLEAN]

Count(s, c) == Len(SelectSeq(s, LAMBDA x : x = c))

\* find_rust_files: the entries with no "target" component, in rglob order.
FindRustFiles(entries) == SelectSeq(entries, LAMBDA e : ~e.inTarget)

\* count_nesting_depth: per non-blank, non-"//" line, add the line's "{",
\* take the maximum, then subtract its "}" and clamp at 0.
NestStep(st, l) ==
    IF l.lead \in {"blank", "comment"} THEN st
    ELSE LET up == st.cur + Count(l.braces, "{")
         IN  [cur |-> Max({0, up - Count(l.braces, "}")}), mx |-> Max({st.mx, up})]

CountNestingDepth(ls) == FoldLeft(NestStep, [cur |-> 0, mx |-> 0], ls).mx

\* find_error_prone_patterns: lines starting "//", "///" or "/*" skipped.
FindErrorPronePatterns(ls) ==
    FoldLeft(LAMBDA n, l : IF l.lead \in {"comment", "block"} THEN n
                           ELSE n + Cardinality(l.hits \cap ErrorPronePatterns), 0, ls)

\* find_unsafe_blocks: only "//" and "///" lines skipped.
FindUnsafeBlocks(ls) ==
    FoldLeft(LAMBDA n, l : IF l.lead = "comment" \/ UnsafePattern \notin l.hits THEN n
                           ELSE n + 1, 0, ls)

\* find_duplicate_patterns: only "//" lines skipped.
FindDuplicatePatterns(ls) ==
    FoldLeft(LAMBDA n, l : IF l.lead = "comment" THEN n
                           ELSE n + Cardinality(l.hits \cap DuplicateIndicators), 0, ls)

Metrics == [error_prone : Nat, unsafe : Nat, depth : Nat, dup : Nat, lines : Nat, files : Nat]

\* QualityMetrics(): every counter 0.
NoMetrics == [error_prone |-> 0, unsafe |-> 0, depth |-> 0, dup |-> 0, lines |-> 0, files |-> 0]

\* analyze_file for an entry read_text can read or fails to decode
\* (UnicodeDecodeError: a warning and empty metrics).  content.split('\n')
\* of an empty file is [''], one line.
AnalyzeFile(e) ==
    IF e.kind = "undecodable" THEN NoMetrics
    ELSE [error_prone |-> FindErrorPronePatterns(e.lines),
          unsafe      |-> FindUnsafeBlocks(e.lines),
          depth       |-> CountNestingDepth(e.lines),
          dup         |-> FindDuplicatePatterns(e.lines),
          lines       |-> Max({1, Len(e.lines)}),
          files       |-> 1]

\* merge_metrics: counters added, depth the maximum.
Combine(c, m) ==
    [error_prone |-> c.error_prone + m.error_prone,
     unsafe      |-> c.unsafe + m.unsafe,
     depth       |-> Max({c.depth, m.depth}),
     dup         |-> c.dup + m.dup,
     lines       |-> c.lines + m.lines,
     files       |-> c.files + m.files]

MergeMetrics(ms) == FoldLeft(Combine, NoMetrics, ms)

\* Mutant: the nesting penalty without max(0, ...).
QualityScoreNoClamp(m) == m.error_prone * 2 + m.unsafe + (m.depth - 5) * 3 + m.dup

\* The quality score of print_metrics_report (lower is better).
QualityScore(m) == m.error_prone * 2 + m.unsafe + Max({0, m.depth - 5}) * 3 + m.dup

\* The severity score of find_priority_targets.find_worst_files.
SeverityScore(m) == m.error_prone * 3 + m.unsafe * 2 + Max({0, m.depth - 6}) * 4 + m.dup

=============================================================================
