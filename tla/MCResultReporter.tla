-------------------------- MODULE MCResultReporter --------------------------
(* Small instances of ResultReporter: three reports, two attempts each.       *)
EXTENDS ResultReporter

CONSTANTS a, b, c

MCReports == {a, b, c}
=============================================================================
