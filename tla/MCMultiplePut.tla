---------------------------- MODULE MCMultiplePut ----------------------------
(***************************************************************************)
(* Instances of MultiplePut for TLC.                                       *)
(***************************************************************************)
EXTENDS MultiplePut, TLC

CONSTANTS c1, c2, x, y, padded

\* A name with blanks around it, which the server trims to x.
MCTrim == (x :> x) @@ (y :> y) @@ (padded :> x)

Regular(n, l) == [name |-> n, len |-> l, isDir |-> FALSE]
Folder(n) == [name |-> n, len |-> 1, isDir |-> TRUE]

\* A directory with a file, a folder and a file that is too short; one with two
\* files whose names the server cannot tell apart; and one with nothing to send.
SeveralDirs ==
  {<<Regular(x, 2), Folder(y), Regular(y, 0)>>,
   <<Regular(padded, 1), Regular(x, 1)>>,
   <<Folder(y)>>}

===============================================================================
