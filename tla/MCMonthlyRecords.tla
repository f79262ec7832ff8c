-------------------------- MODULE MCMonthlyRecords --------------------------
(* Two saves of the months on both sides of a new year, and one reader.     *)
EXTENDS MonthlyRecords

MCMonths == {<<2025, 12>>, <<2026, 1>>}
=============================================================================
