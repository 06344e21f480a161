---------------------------- MODULE MCSelectServer ----------------------------
(***************************************************************************)
(* Instances of SelectServer for TLC.                                      *)
(***************************************************************************)
EXTENDS SelectServer, TLC

CONSTANTS c1, c2, u1, d, f, tmp, p, q, sp

\* A directory with an empty subdirectory and one of one file.
OneDir == d :> <<0, 1>>

\* The words "p" and "qp", and a text in which they stand at its ends, with
\* separators around them that stay, and inside of another word.
TwoWords == {<<p>>, <<q, p>>}
OneText == (f :> <<p, sp, sp, p, p, sp, q, p>>) @@ (tmp :> Absent)
===============================================================================
