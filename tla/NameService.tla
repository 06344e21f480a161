------------------------------ MODULE NameService ------------------------------
(***************************************************************************)
(* What the registry of esercitazione6 promises as a name service: a       *)
(* limited number of bindings of names to objects.  A binding keeps the    *)
(* place it was given, and which free place that is stays open; so does    *)
(* which of several bindings of a name is looked up or removed.            *)
(***************************************************************************)
EXTENDS Naturals

CONSTANTS Places, Names, Servers, Clients, Null

VARIABLES
  entries,    \* the bindings
  said,       \* what each server has been answered, until it goes on
  got         \* what each client was given last, or Null

vars == <<entries, said, got>>

Binding == [at : Places, name : Names, ref : Servers]

Of(n) == {e \in entries : e.name = n}

Init ==
  /\ entries = {}
  /\ said = [s \in Servers |-> "none"]
  /\ got = [c \in Clients |-> Null]

\* A name is refused only if every place is taken.
Register(s, n) ==
  /\ \/ \E p \in Places :
          /\ \A e \in entries : e.at # p
          /\ entries' = entries \cup {[at |-> p, name |-> n, ref |-> s]}
          /\ said' = [said EXCEPT ![s] = "added"]
     \/ /\ \A p \in Places : \E e \in entries : e.at = p
        /\ said' = [said EXCEPT ![s] = "refused"]
        /\ UNCHANGED entries
  /\ UNCHANGED got

\* A server goes on, or stops; what it registered stays.
GoOn(s) == said' = [said EXCEPT ![s] = "none"] /\ UNCHANGED <<entries, got>>

RemoveOne(n) ==
  /\ \/ \E e \in Of(n) : entries' = entries \ {e}
     \/ Of(n) = {} /\ UNCHANGED entries
  /\ UNCHANGED <<said, got>>

RemoveAll(n) == entries' = entries \ Of(n) /\ UNCHANGED <<said, got>>

\* The object of some binding of the name; Null only if there is none.
Lookup(c, n) ==
  /\ \/ \E e \in Of(n) : got' = [got EXCEPT ![c] = e.ref]
     \/ Of(n) = {} /\ got' = [got EXCEPT ![c] = Null]
  /\ UNCHANGED <<entries, said>>

Forget(c) == got' = [got EXCEPT ![c] = Null] /\ UNCHANGED <<entries, said>>

\* The registry stops and is started again, empty.
Reset ==
  /\ entries' = {} /\ got' = [c \in Clients |-> Null]
  /\ said' = [s \in Servers |-> "none"]

Next ==
  \/ Reset
  \/ \E s \in Servers : GoOn(s) \/ \E n \in Names : Register(s, n)
  \/ \E n \in Names : RemoveOne(n) \/ RemoveAll(n)
  \/ \E c \in Clients : Forget(c) \/ \E n \in Names : Lookup(c, n)

Spec == Init /\ [][Next]_vars
===============================================================================
