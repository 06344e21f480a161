----------------------------- MODULE MCTagRegistry -----------------------------
(***************************************************************************)
(* Two servers, which want four slots where there are two, one client, and *)
(* more cells than slots as in the code (256 and 100).                     *)
(***************************************************************************)
EXTENDS TagRegistry
===============================================================================
