---------------------------- MODULE MCReportQueue ----------------------------
(* The report queue on a small instance: a capacity equal to the channel's  *)
(* token bound, as injectee.cpp chooses it, two coroutines that pop and     *)
(* enough pushes to overflow, drain and refill.                             *)
EXTENDS ReportQueue

CONSTANTS w1, w2

MCPoppers == {w1, w2}
=============================================================================
