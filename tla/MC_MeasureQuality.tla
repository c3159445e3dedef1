-------------------------- MODULE MC_MeasureQuality --------------------------
EXTENDS MeasureQuality

\* "fn f() {", "}", "} else {", "unsafe { p.unwrap()", a "//" line with an
\* unwrap and a brace, and a "/*" line naming an unwrap and tracing.
LOpen    == [lead |-> "code", braces |-> <<"{">>, hits |-> {}]
LClose   == [lead |-> "code", braces |-> <<"}">>, hits |-> {}]
LElse    == [lead |-> "code", braces |-> <<"}", "{">>, hits |-> {}]
LUnsafe  == [lead |-> "code", braces |-> <<"{">>, hits |-> {"unsafe_block", "unwrap"}]
LComment == [lead |-> "comment", braces |-> <<"{">>, hits |-> {"unwrap", "unsafe_block"}]
LBlock   == [lead |-> "block", braces |-> <<>>, hits |-> {"unwrap", "tracing"}]

MCFileLines == {LOpen, LClose, LElse, LUnsafe, LComment, LBlock}
=============================================================================
