------------------------------- MODULE MCSeqPut -------------------------------
(***************************************************************************)
(* Instances of SeqPut for TLC.                                            *)
(***************************************************************************)
EXTENDS SeqPut, TLC

CONSTANTS c1, c2, x, y, padded

\* A name with blanks around it, which the server trims to x.
MCTrim == (x :> x) @@ (y :> y) @@ (padded :> x)

Regular(n, l) == [name |-> n, len |-> l, isDir |-> FALSE]
Folder(n) == [name |-> n, len |-> 1, isDir |-> TRUE]

\* A directory with a file, a folder and an empty file, one whose names the
\* server cannot tell apart, and one with nothing to send.
SeveralDirs ==
  {<<Regular(x, 2), Folder(y), Regular(padded, 0)>>,
   <<Regular(padded, 1), Regular(x, 1)>>,
   <<Folder(y)>>}

\* Two short directories, a file of one stored under the name of the other's.
ShortDirs == {<<Regular(x, 2), Folder(y)>>, <<Regular(padded, 0)>>}

SomeClients == Permutations(Clients)
===============================================================================
