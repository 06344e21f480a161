----------------------------- MODULE MCLineFilter -----------------------------
(***************************************************************************)
(* Instances of LineFilter for TLC.                                        *)
(***************************************************************************)
EXTENDS LineFilter

CONSTANTS a, b, nl

\* Two lines, the second without an end, and three lines of which one is empty.
TwoTexts == {<<a, nl, b>>, <<a, nl, nl, b, nl>>}
===============================================================================
