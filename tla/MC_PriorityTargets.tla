------------------------- MODULE MC_PriorityTargets -------------------------
EXTENDS PriorityTargets

\* One-line files of severity 3 ("x.unwrap()"), 2 ("unsafe {"), 1
\* ("tracing::info!(") and 0 ("fn f() {").
LUnwrap == [lead |-> "code", braces |-> <<>>, hits |-> {"unwrap"}]
LUnsafe == [lead |-> "code", braces |-> <<"{">>, hits |-> {"unsafe_block"}]
LLog    == [lead |-> "code", braces |-> <<>>, hits |-> {"tracing"}]
LPlain  == [lead |-> "code", braces |-> <<"{">>, hits |-> {}]

MCFileLines == {LUnwrap, LUnsafe, LLog, LPlain}

\* The two facts about SelectSeq and FoldLeft that the proofs of
\* PriorityTargetsProofs take as hypotheses, evaluated on this instance.
ASSUME MCFilesFact == FilesFact
ASSUME MCSeverityFact == SeverityFact
=============================================================================
