----------------------------- MODULE MCServerImpl -----------------------------
(***************************************************************************)
(* Instances of ServerImpl for TLC.                                        *)
(***************************************************************************)
EXTENDS ServerImpl, TLC

CONSTANTS t1, t2, t3, a, b, c, r1, r2

\* One word in the first row, three in the second.
MCWords == (r1 :> 1) @@ (r2 :> 3)

\* One file of two rows, for the threads to meet on.
OneFile == a :> <<r1, r2>>

\* Two files, and a name with no file: a table of one entry has no room for
\* both.
TwoFiles == (a :> <<r1, r2>>) @@ (b :> <<r2>>) @@ (c :> Absent)

SomeThreads == Permutations(Threads)
===============================================================================
