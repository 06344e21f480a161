---------------------------- MODULE MCFileQueries ----------------------------
(***************************************************************************)
(* Two clients; one file with words of one and two letters, one with a     *)
(* word that nothing ends, a directory of two files, a name of nothing;    *)
(* sizes on both sides of the offset that lseek returns.                   *)
(***************************************************************************)
EXTENDS FileQueries, TLC

CONSTANTS a, blank, newline, two, open, dir, missing, c1, c2

MCTexts == two :> <<a, blank, a, a, newline>> @@ open :> <<a, a, a>>
MCDirs == dir :> 2

Symmetry == Permutations({c1, c2})
===============================================================================
