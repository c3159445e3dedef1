------------------------------ MODULE SpecDiff ------------------------------
(***************************************************************************)
(* Drift detection and report generation of scripts/spec_diff.py, over a  *)
(* sequence of invocations that share three files:                        *)
(*   - the specification document (SPEC_FILE), edited by its authors;     *)
(*   - the JSON report (JSON_REPORT), written by a run and read back by   *)
(*     the next run as its snapshot;                                       *)
(*   - the Markdown report (MD_REPORT), the human-readable rendering.     *)
(* A document is modelled after extraction: a sequence of sections, each  *)
(* a title and a trimmed body, which is what extract_sections returns;    *)
(* its splitting of the text into lines is not modelled.  An invocation   *)
(* of main() is a process that reads the document, reads the snapshot,  *)
(* writes the JSON report and then the Markdown report; several may run   *)
(* at once, and a run may die between its steps when AllowCrash holds.    *)
(***************************************************************************)
EXTENDS Naturals, Sequences, FiniteSets

CONSTANTS
    Title,          \* section titles (the text after "## ")
    Body,           \* section bodies, already trimmed
    Proc,           \* concurrent invocations of spec_diff.py
    MaxSections,    \* bound on the number of sections of the document
    AllowDupTitles, \* whether authors may give two sections the same title
    AllowCrash,     \* whether a run may die between two of its steps
    NoFile,         \* the value of a file that does not exist
    Corrupt         \* a JSON report that json.loads cannot parse

ASSUME ConstantsAssumption ==
    /\ MaxSections \in Nat
    /\ AllowDupTitles \in BOOLEAN
    /\ AllowCrash \in BOOLEAN
    /\ NoFile # Corrupt

VARIABLES
    specFile,   \* SPEC_FILE: NoFile or the sequence of its sections
    snapFile,   \* JSON_REPORT: NoFile, Corrupt or the report it holds
    mdFile,     \* MD_REPORT: NoFile or the report it renders
    pc,         \* pc[p]: the next step of invocation p
    spec,       \* spec[p]: the sections p read (spec_text, extracted)
    report,     \* report[p]: the report p computed
    exit,       \* exit[p]: how p's last invocation ended
    snapDoc,    \* history: the document the current JSON report was built from
    mdDoc,      \* history: the document the current Markdown report was built from
    base        \* history: base[p] is snapDoc when p read the snapshot

vars == <<specFile, snapFile, mdFile, pc, spec, report, exit, snapDoc, mdDoc, base>>

-----------------------------------------------------------------------------
(* Data *)

Section == [title : Title, body : Body]

\* sha256(body): distinct bodies have distinct digests.
Hash(b) == <<"sha256", b>>
Digest == {Hash(b) : b \in Body}

\* A SectionInfo: title, hash and changed flag.
Info == [title : Title, hash : Digest, changed : BOOLEAN]

\* A value of the JSON "sections" dict: title -> {hash, changed}.
Entry == [hash : Digest, changed : BOOLEAN]
SectionsDict == UNION {[T -> Entry] : T \in SUBSET Title}

BoundedSeq(S) == UNION {[1..n -> S] : n \in 0..MaxSections}

TitlesOf(s) == {s[i].title : i \in DOMAIN s}

DistinctTitles(s) == \A i, j \in DOMAIN s : s[i].title = s[j].title => i = j

\* The documents the authors can write.
Doc == {d \in BoundedSeq(Section) : AllowDupTitles \/ DistinctTitles(d)}

\* The index of the last section of s titled t.
LastIndex(s, t) ==
    CHOOSE i \in DOMAIN s : /\ s[i].title = t
                            /\ \A j \in DOMAIN s : s[j].title = t => j <= i

\* {s.title: asdict(s) for s in sections}: the last occurrence wins.
ToDict(infos) ==
    [t \in TitlesOf(infos) |-> [hash    |-> infos[LastIndex(infos, t)].hash,
                                changed |-> infos[LastIndex(infos, t)].changed]]

\* The JSON report: its sections dict and its new/removed title lists.
JsonReport == [sections : SectionsDict, new : SUBSET Title, removed : SUBSET Title]

\* The sentinels are no document and no report.
ASSUME SentinelsAssumption ==
    /\ NoFile \notin Doc \cup JsonReport
    /\ Corrupt \notin JsonReport

\* The Markdown report: one table row per section, duplicates included.
MdReport == [rows : Seq(Info), new : SUBSET Title, removed : SUBSET Title]

\* A report computed by main(): the JSON value plus the table rows.
Report == [sections : SectionsDict, rows : Seq(Info),
           new : SUBSET Title, removed : SUBSET Title]

\* load_previous_report().get("sections", {}): a missing or unparsable
\* snapshot is an empty baseline.
PrevSections(f) == IF f \in {NoFile, Corrupt} THEN <<>> ELSE f.sections

\* Mutant: a section absent from the snapshot is flagged changed too.
BuildSectionInfosNewIsChanged(secs, prev) ==
    [i \in DOMAIN secs |->
        [title   |-> secs[i].title,
         hash    |-> Hash(secs[i].body),
         changed |-> \/ secs[i].title \notin DOMAIN prev
                     \/ prev[secs[i].title].hash # Hash(secs[i].body)]]

\* build_section_infos: a section is changed iff the snapshot has a hash for
\* its title and that hash differs from the hash of its body.
BuildSectionInfos(secs, prev) ==
    [i \in DOMAIN secs |->
        [title   |-> secs[i].title,
         hash    |-> Hash(secs[i].body),
         changed |-> /\ secs[i].title \in DOMAIN prev
                     /\ prev[secs[i].title].hash # Hash(secs[i].body)]]

\* The report main() builds from the sections and the previous snapshot.
MakeReport(secs, prev) ==
    LET infos == BuildSectionInfos(secs, prev)
    IN  [sections |-> ToDict(infos),
         rows     |-> infos,
         new      |-> TitlesOf(secs) \ DOMAIN prev,
         removed  |-> DOMAIN prev \ TitlesOf(secs)]

\* What json.dumps(report) writes.
JsonOf(r) == [sections |-> r.sections, new |-> r.new, removed |-> r.removed]

\* Mutant: the "Structure Changes" block is emitted only when there are new
\* sections, so removed ones are not rendered on their own.
MdOfRemovedOnlyWithNew(r) ==
    [rows |-> r.rows, new |-> r.new,
     removed |-> IF r.new = {} THEN {} ELSE r.removed]

\* Mutant: generate_markdown is passed removed_sections and new_sections in
\* the wrong order.
MdOfSwapped(r) == [rows |-> r.rows, new |-> r.removed, removed |-> r.new]

\* What generate_markdown renders: the hash table rows and the new/removed
\* titles of the "Structure Changes" block.
MdOf(r) == [rows |-> r.rows, new |-> r.new, removed |-> r.removed]

-----------------------------------------------------------------------------
(* Invocations of main() *)

\* The locals of a run that has ended are gone.
NoReport == MakeReport(<<>>, <<>>)
Finish(p) ==
    /\ spec' = [spec EXCEPT ![p] = <<>>]
    /\ report' = [report EXCEPT ![p] = NoReport]
    /\ base' = [base EXCEPT ![p] = NoFile]

Init ==
    /\ specFile \in Doc \cup {NoFile}
    /\ snapFile = NoFile
    /\ mdFile = NoFile
    /\ pc = [p \in Proc |-> "Idle"]
    /\ spec = [p \in Proc |-> <<>>]
    /\ report = [p \in Proc |-> NoReport]
    /\ exit = [p \in Proc |-> "none"]
    /\ snapDoc = NoFile
    /\ mdDoc = <<>>
    /\ base = [p \in Proc |-> NoFile]

\* Mutant: the early return on a missing spec is dropped.
ReadSpecMissingNotFatal(p) ==
    /\ pc[p] = "Idle"
    /\ spec' = [spec EXCEPT ![p] = specFile]
    /\ pc' = [pc EXCEPT ![p] = "ReadPrev"]
    /\ UNCHANGED <<specFile, snapFile, mdFile, report, exit, snapDoc, mdDoc, base>>

\* spec_text = read_text(SPEC_FILE); a missing spec exits with code 1 and
\* writes nothing.
ReadSpec(p) ==
    /\ pc[p] = "Idle"
    /\ IF specFile = NoFile
         THEN /\ exit' = [exit EXCEPT ![p] = "fatal"]
              /\ UNCHANGED <<pc, spec>>
         ELSE /\ spec' = [spec EXCEPT ![p] = specFile]
              /\ pc' = [pc EXCEPT ![p] = "ReadPrev"]
              /\ UNCHANGED exit
    /\ UNCHANGED <<specFile, snapFile, mdFile, report, snapDoc, mdDoc, base>>

\* Load the previous report, build the section infos, the new and removed
\* title sets, and the report dict.
ReadPrev(p) ==
    /\ pc[p] = "ReadPrev"
    /\ report' = [report EXCEPT ![p] = MakeReport(spec[p], PrevSections(snapFile))]
    /\ base' = [base EXCEPT ![p] = IF snapFile \in {NoFile, Corrupt} THEN NoFile
                                                                   ELSE snapDoc]
    /\ pc' = [pc EXCEPT ![p] = "WriteJson"]
    /\ UNCHANGED <<specFile, snapFile, mdFile, spec, exit, snapDoc, mdDoc>>

\* JSON_REPORT.write_text(json.dumps(report)).
WriteJson(p) ==
    /\ pc[p] = "WriteJson"
    /\ snapFile' = JsonOf(report[p])
    /\ snapDoc' = spec[p]
    /\ pc' = [pc EXCEPT ![p] = "WriteMd"]
    /\ UNCHANGED <<specFile, mdFile, spec, report, exit, mdDoc, base>>

\* MD_REPORT.write_text(generate_markdown(...)); main returns 0.
WriteMd(p) ==
    /\ pc[p] = "WriteMd"
    /\ mdFile' = MdOf(report[p])
    /\ mdDoc' = spec[p]
    /\ pc' = [pc EXCEPT ![p] = "Idle"]
    /\ exit' = [exit EXCEPT ![p] = "ok"]
    /\ Finish(p)
    /\ UNCHANGED <<specFile, snapFile, snapDoc>>

\* The run dies (an exception from a write, a kill).  write_text truncates
\* the file before it writes: a JSON write cut short leaves a file that
\* json.loads cannot parse, which the next run reads as no snapshot.
Crash(p) ==
    /\ AllowCrash
    /\ pc[p] # "Idle"
    /\ \/ UNCHANGED <<snapFile, snapDoc>>
       \/ /\ pc[p] = "WriteJson"
          /\ snapFile' = Corrupt
          /\ snapDoc' = NoFile
    /\ pc' = [pc EXCEPT ![p] = "Idle"]
    /\ exit' = [exit EXCEPT ![p] = "crashed"]
    /\ Finish(p)
    /\ UNCHANGED <<specFile, mdFile, mdDoc>>

-----------------------------------------------------------------------------
(* The authors edit the specification document *)

EditDoc ==
    /\ \E d \in Doc \cup {NoFile} : specFile' = d
    /\ UNCHANGED <<snapFile, mdFile, pc, spec, report, exit, snapDoc, mdDoc, base>>

Next ==
    \/ \E p \in Proc : ReadSpec(p) \/ ReadPrev(p) \/ WriteJson(p) \/ WriteMd(p) \/ Crash(p)
    \/ EditDoc

Spec == Init /\ [][Next]_vars

-----------------------------------------------------------------------------
(* Properties *)

TypeOK ==
    /\ specFile \in Doc \cup {NoFile}
    /\ snapFile \in JsonReport \cup {NoFile, Corrupt}
    /\ mdFile \in MdReport \cup {NoFile}
    /\ pc \in [Proc -> {"Idle", "ReadPrev", "WriteJson", "WriteMd"}]
    /\ spec \in [Proc -> Doc]
    /\ report \in [Proc -> Report]
    /\ exit \in [Proc -> {"none", "ok", "fatal", "crashed"}]
    /\ snapDoc \in Doc \cup {NoFile}
    /\ mdDoc \in Doc
    /\ base \in [Proc -> Doc \cup {NoFile}]

\* The body of the last section of document d titled t.
LastBody(d, t) == d[LastIndex(d, t)].body

\* r records exactly the drift from document old to document cur: the
\* titles added and removed, and as changed exactly the sections whose body
\* differs from the last body old has under the same title.
ExactDrift(old, cur, r) ==
    /\ r.new = TitlesOf(cur) \ TitlesOf(old)
    /\ r.removed = TitlesOf(old) \ TitlesOf(cur)
    /\ \A i \in DOMAIN cur :
         r.rows[i].changed <=>
           /\ cur[i].title \in TitlesOf(old)
           /\ LastBody(old, cur[i].title) # cur[i].body

\* The report a run has computed is exactly the drift between the document
\* its snapshot was built from (none when the snapshot is missing or
\* unparsable) and the document it read, however runs crash in between:
\* the hashes, the last-wins dict of the snapshot and the set differences
\* of main() together record every change and nothing else.
SnapshotDrift ==
    \A p \in Proc :
        pc[p] \in {"WriteJson", "WriteMd"} =>
            ExactDrift(IF base[p] = NoFile THEN <<>> ELSE base[p], spec[p], report[p])

\* Every Markdown report shows exactly the drift since the previous
\* Markdown report (locality of change and set-difference correctness of
\* spec section 8, seen by the reader of MD_REPORT).
DriftReported ==
    [][\A p \in Proc : WriteMd(p) => ExactDrift(mdDoc, spec[p], mdFile')]_vars

\* When no run is in progress, the JSON and the Markdown report on disk
\* agree on every section hash, changed flag and new/removed title.
ReportsAgree ==
    (\A p \in Proc : pc[p] = "Idle") /\ mdFile # NoFile =>
        /\ snapFile \notin {NoFile, Corrupt}
        /\ snapFile.new = mdFile.new
        /\ snapFile.removed = mdFile.removed
        /\ snapFile.sections = ToDict(mdFile.rows)
=============================================================================
