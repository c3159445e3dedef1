---------------------------- MODULE ReturnTypeFix ----------------------------
(***************************************************************************)
(* scripts/fix_return_types.py on nyx-transport/src/stun_server.rs: the   *)
(* signature regexes give some functions a StunResult return type, then a *)
(* line loop inserts "Ok(())" before the closing brace of the functions   *)
(* named in target_functions, the .ok()? rewrite runs, and the file is    *)
(* written back when it changed.  The script may be run again on its own  *)
(* output.  A line is modelled by the shape the regexes and substring     *)
(* tests see; its fn field names the function it belongs to and is read   *)
(* only by the properties.                                                 *)
(***************************************************************************)
EXTENDS Integers, Sequences, SequencesExt

CONSTANTS
    FnName,     \* the functions the file may define
    Styles,     \* "multi" (body on its own lines), "oneline" (body on the signature line)
    MaxFns,     \* bound on the functions of the file
    MaxRuns     \* bound on the invocations

ASSUME ReturnTypeAssumption ==
    /\ Styles \subseteq {"multi", "oneline"}
    /\ MaxFns \in Nat /\ MaxRuns \in Nat

\* The functions of the fixes list whose void signature gets "-> StunResult<()>"
\* and that are marked 'add_ok': True.
AddOkFns == {"cleanup_sessions", "stop", "cleanup_clients", "cleanup_relay_sessions", "wait_terminated"}
\* target_functions of the Ok(()) loop.
TargetFunctions == {"cleanup_sessions", "stop", "cleanup_clients", "cleanup_relay_sessions"}
\* Declared "pub async fn", so "pub fn <name>(" is not a substring of it.
AsyncFns == {"wait_terminated"}

\* kind: "sig" (a signature line ending in "{", with the body below it),
\* "oneline" (signature and body "{ ... }" on one line), "open" ("if c {"),
\* "close" ("}" alone), "stmt", "ok" ("Ok(())"), "blank".
\* conv: the signature carries "-> StunResult<()>".
LineOf(kind, f, conv) == [kind |-> kind, fn |-> f, conv |-> conv]

Opens(l)  == IF l.kind \in {"sig", "oneline", "open"} THEN 1 ELSE 0
Closes(l) == IF l.kind \in {"oneline", "close"} THEN 1 ELSE 0
HasOk(l)  == l.kind = "ok"

\* The source as its author wrote it: one function per block, with an
\* optional inner block, a last statement, and an optional blank line
\* before the closing brace.
Block == [fn : FnName, style : Styles, last : {"stmt", "ok"}, inner : BOOLEAN, gap : BOOLEAN]
Render(b) ==
    IF b.style = "oneline" THEN <<LineOf("oneline", b.fn, FALSE)>>
    ELSE <<LineOf("sig", b.fn, FALSE)>>
         \o (IF b.inner THEN <<LineOf("open", b.fn, FALSE), LineOf("stmt", b.fn, FALSE),
                               LineOf("close", b.fn, FALSE)>> ELSE <<>>)
         \o <<LineOf(b.last, b.fn, FALSE)>>
         \o (IF b.gap THEN <<LineOf("blank", b.fn, FALSE)>> ELSE <<>>)
         \o <<LineOf("close", b.fn, FALSE)>>
Source(bs) == FlattenSeq([k \in DOMAIN bs |-> Render(bs[k])])
Sources == {Source(bs) : bs \in {bs \in BoundedSeq(Block, MaxFns) :
                                   \A j, k \in DOMAIN bs : j # k => bs[j].fn # bs[k].fn}}

\* The fixes loop: re.sub of each signature pattern over the content; the
\* five void signatures get "-> StunResult<()>".  The other four fixes
\* rewrite the signatures of generate_session_id, get_relay_statistics and
\* the two Option getters, none of which is marked add_ok or read by the
\* Ok(()) loop; FnName holds none of them, so they are left out.
FixSignature(l) ==
    IF l.kind \in {"sig", "oneline"} /\ l.fn \in AddOkFns THEN [l EXCEPT !.conv = TRUE] ELSE l

\* The index of the last non-blank line before line i, 0 if there is none.
PrevNonBlank(ls, i) ==
    LET js == {j \in 1..(i - 1) : ls[j].kind # "blank"}
    IN  IF js = {} THEN 0 ELSE Max(js)

\* Mutant: '}' counted up and '{' down.
BraceDeltaSwapped(l) == Closes(l) - Opens(l)

\* line.count('{') - line.count('}')
BraceDelta(l) == Opens(l) - Closes(l)

\* Mutant: the previous line is looked at without skipping blank lines.
NeedsOkPrevLine(ls, i) == i > 1 /\ ~HasOk(ls[i - 1])

\* The search back over blank lines, and 'Ok(())' not in lines[j].
NeedsOk(ls, i) == LET j == PrevNonBlank(ls, i) IN j >= 1 /\ ~HasOk(ls[j])

VARIABLES
    src,      \* history: the file as its author wrote it
    file,     \* the lines of stun_server.rs on disk
    lines,    \* the working copy, lines = content.split('\n')
    orig,     \* original_content
    pc,       \* "idle", "scan" or "write"
    i,        \* the index of enumerate(lines)
    inFn,     \* in_target_function
    fnName,   \* function_name
    depth,    \* brace_depth
    runs      \* invocations so far

vars == <<src, file, lines, orig, pc, i, inFn, fnName, depth, runs>>

Init ==
    /\ src \in Sources
    /\ file = src
    /\ lines = <<>>
    /\ orig = <<>>
    /\ pc = "idle"
    /\ i = 1
    /\ inFn = FALSE
    /\ fnName = "none"
    /\ depth = 0
    /\ runs = 0

\* main() reads the file and fix_function_return_types applies the fixes.
Start ==
    /\ pc = "idle"
    /\ runs < MaxRuns
    /\ orig' = file
    /\ lines' = [k \in DOMAIN file |-> FixSignature(file[k])]
    /\ pc' = "scan"
    /\ i' = 1
    /\ inFn' = FALSE
    /\ fnName' = "none"
    /\ depth' = 0
    /\ runs' = runs + 1
    /\ UNCHANGED <<src, file>>

\* One iteration of "for i, line in enumerate(lines)": entering a target
\* function resets brace_depth; inside one, a "}" line that brings the
\* depth to 0 ends it, and Ok(()) is inserted at i unless the last
\* non-blank line before it has one.  The insertion shifts the "}" to
\* i + 1, which the iteration visits next.
ScanLine ==
    /\ pc = "scan"
    /\ i \in DOMAIN lines
    /\ LET l     == lines[i]
           enter == l.kind \in {"sig", "oneline"} /\ l.conv
                      /\ l.fn \in TargetFunctions \ AsyncFns
           in1   == inFn \/ enter
           d     == (IF enter THEN 0 ELSE depth) + BraceDelta(l)
       IN  IF in1 /\ d = 0 /\ l.kind = "close"
             THEN /\ lines' = IF NeedsOk(lines, i)
                                THEN InsertAt(lines, i, LineOf("ok", l.fn, FALSE))
                                ELSE lines
                  /\ inFn' = FALSE /\ fnName' = "none" /\ depth' = d
             ELSE /\ inFn' = in1
                  /\ fnName' = IF enter THEN l.fn ELSE fnName
                  /\ depth' = IF in1 THEN d ELSE depth
                  /\ UNCHANGED lines
    /\ i' = i + 1
    /\ UNCHANGED <<src, file, orig, pc, runs>>

\* '\n'.join, the .ok()? rewrite (no such line here), and write_text when
\* the content changed; fix_async_blocks then only prints.
WriteBack ==
    /\ pc = "scan"
    /\ i = Len(lines) + 1
    /\ file' = IF lines # orig THEN lines ELSE file
    /\ pc' = "idle"
    /\ UNCHANGED <<src, lines, orig, i, inFn, fnName, depth, runs>>

\* No further invocation.
Done ==
    /\ pc = "idle"
    /\ runs = MaxRuns
    /\ UNCHANGED vars

Next == Start \/ ScanLine \/ WriteBack \/ Done

Spec == Init /\ [][Next]_vars

-----------------------------------------------------------------------------
(* Properties *)

Kind == {"sig", "oneline", "open", "close", "stmt", "ok", "blank"}
SourceLine == [kind : Kind, fn : FnName, conv : BOOLEAN]

TypeOK ==
    /\ src \in Seq(SourceLine) /\ file \in Seq(SourceLine) /\ lines \in Seq(SourceLine) /\ orig \in Seq(SourceLine)
    /\ pc \in {"idle", "scan"}
    /\ i \in Nat /\ inFn \in BOOLEAN /\ fnName \in FnName \cup {"none"}
    /\ depth \in Nat
    /\ runs \in 0..MaxRuns

\* The functions of the file and the index of the last line of each.
Defined(ls) == {ls[k].fn : k \in DOMAIN ls}
LastLine(ls, f) == Max({k \in DOMAIN ls : ls[k].fn = f})

\* The signatures a fix turned into StunResult<()> ones, and the Ok(())
\* lines of a function.
Converted(ls) == {ls[k].fn : k \in {k \in DOMAIN ls : ls[k].kind \in {"sig", "oneline"} /\ ls[k].conv}}
OkCount(ls, f) == Cardinality({k \in DOMAIN ls : HasOk(ls[k]) /\ ls[k].fn = f})

\* The comment of the loop: once the script has run, every function that a
\* fix marked add_ok turned into a StunResult<()> function ends with one
\* Ok(()), as the last line before its closing brace, and no other
\* function gained or lost an Ok(()).  It is checked after every
\* invocation, so a second run on the script's own output must find each
\* Ok(()) in place rather than add another.
OkInsertedWhereNeeded ==
    runs >= 1 /\ pc = "idle" =>
        \A f \in Defined(src) :
            IF f \in Converted(file) \cap AddOkFns
              THEN /\ OkCount(file, f) = 1
                   /\ file[LastLine(file, f)].kind = "close"
                   /\ LET j == PrevNonBlank(file, LastLine(file, f))
                      IN  j >= 1 /\ HasOk(file[j]) /\ file[j].fn = f
              ELSE OkCount(file, f) = OkCount(src, f)

=============================================================================
