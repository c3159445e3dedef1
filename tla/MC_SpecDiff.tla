---------------------------- MODULE MC_SpecDiff ----------------------------
(* Small instances of SpecDiff for TLC. *)
EXTENDS SpecDiff

CONSTANTS t1, t2, b1, b2, p1

MCTitle == {t1, t2}
MCBody == {b1, b2}
MCProcSerial == {p1}
=============================================================================
