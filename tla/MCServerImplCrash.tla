-------------------------- MODULE MCServerImplCrash --------------------------
(***************************************************************************)
(* An instance of ServerImplCrash for TLC.                                 *)
(***************************************************************************)
EXTENDS ServerImplCrash, TLC

CONSTANTS t1, t2, t3, a, b, c, r1, r2

\* One word in the first row, three in the second.
MCWords == (r1 :> 1) @@ (r2 :> 3)

\* One file of two rows, whose threads and machine stop half way.
OneFile == a :> <<r1, r2>>

SomeThreads == Permutations(Threads)
===============================================================================
