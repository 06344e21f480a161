----------------------------- MODULE OneShotGate -----------------------------
(***************************************************************************)
(* What the busy table of esercitazione5/ServerImpl promises to the        *)
(* threads that remove lines: a gate per file that admits one thread the   *)
(* first time the file is named, and stands open for everybody as soon as  *)
(* that thread has released it.  It is not a lock: nothing ever closes it  *)
(* again.  Module ServerImpl implements it, module ServerImplProofs        *)
(* proves that.                                                            *)
(***************************************************************************)
CONSTANT Paths            \* the file names that the clients send

VARIABLE gate             \* gate[p]: how far the gate of p has got

\* A gate nobody has reached, one with its first thread inside, one left open.
Positions == {"untouched", "first", "open"}

GateTypeOK == gate \in [Paths -> Positions]

GateInit == gate = [p \in Paths |-> "untouched"]

\* The first thread to name p goes in and keeps the others out.
Admit(p) ==
  /\ gate[p] = "untouched"
  /\ gate' = [gate EXCEPT ![p] = "first"]

\* It leaves, and the gate stands open from then on.
Unlock(p) ==
  /\ gate[p] = "first"
  /\ gate' = [gate EXCEPT ![p] = "open"]

GateNext == \E p \in Paths : Admit(p) \/ Unlock(p)

GateSpec == GateInit /\ [][GateNext]_gate
==============================================================================
