------------------------------- MODULE Absent -------------------------------
(* The value of an entry a map does not have (None of an Option).          *)
CONSTANT Nothing
=============================================================================
