------------------------------- MODULE MCVotes -------------------------------
(***************************************************************************)
(* Instances of Votes for TLC.                                             *)
(***************************************************************************)
EXTENDS Votes

CONSTANTS c1, c2

\* The table of inizializza.
MCJudges == <<"giudice1", "giudice2", "giudice2">>
===============================================================================
