----------------------------- MODULE MCLangPool -----------------------------
(* LangPool for TLC: the jobs are interchangeable model values.             *)
EXTENDS LangPool

JobSymmetry == Permutations(Jobs)
=============================================================================
