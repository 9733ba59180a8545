------------------------------ MODULE MCLsoMerge ------------------------------
(***************************************************************************)
(* Model-checking instance of LsoMerge.  Names 1 < 2 < 3 stand for         *)
(* "a/" (a directory), "b" and "c"; with two pages of up to two entries,   *)
(* the union can exceed maxSize = 2 and a directory can arrive after a     *)
(* file.                                                                   *)
(***************************************************************************)
EXTENDS LsoMerge

MCNames == 1..3
MCDirs == {1}
MCFileNames == {2, 3}
=============================================================================
