--------------------------- MODULE TagRegistryProofs ---------------------------
(***************************************************************************)
(* Proofs about TagRegistry, for any size of its tables and any number of  *)
(* servers and clients: its two tables agree, and it is the name service   *)
(* that NameService describes.                                             *)
(***************************************************************************)
EXTENDS TagRegistry, WellFoundedInduction, SequenceTheorems, FiniteSetTheorems, TLAPS

\* The slots that the methods look for exist whenever a slot is as they want it.
LEMMA Smallest ==
  ASSUME NEW S \in SUBSET Nat, S # {}
  PROVE  \E x \in S : \A y \in S : x =< y
<1>. DEFINE R == {ss \in Nat \X Nat : ss[1] < ss[2]}
<1>1. IsWellFoundedOn(R, Nat)
  BY NatLessThanWellFounded DEF OpToRel
<1>2. \E x \in S : \A y \in S : ~ (<<y, x>> \in R)
  <2>. HIDE DEF R
  <2>. QED
    BY <1>1, WFMin
<1>3. PICK x \in S : \A y \in S : ~ (<<y, x>> \in R)
  BY <1>2
<1>4. ASSUME NEW y \in S PROVE x =< y
  <2>1. <<y, x>> \in Nat \X Nat /\ ~ (<<y, x>> \in R)
    BY <1>3
  <2>2. ~ (y < x)
    BY <2>1
  <2>. QED
    BY <2>2
<1>. QED
  BY <1>4

LEMMA MinIn ==
  ASSUME NEW S \in SUBSET Nat, S # {}
  PROVE  Min(S) \in S
BY Smallest DEF Min

LEMMA MaxIn ==
  ASSUME NEW N \in Nat, NEW S \in SUBSET (1..N), S # {}
  PROVE  Max(S) \in S
<1>. DEFINE T == {N - x : x \in S}
<1>1. T \in SUBSET Nat /\ T # {}
  <2>1. ASSUME NEW t \in T PROVE t \in Nat
    <3>1. PICK x \in S : t = N - x
      OBVIOUS
    <3>2. x \in 1..N
      OBVIOUS
    <3>. QED
      BY <3>1, <3>2
  <2>2. PICK x \in S : TRUE
    OBVIOUS
  <2>3. N - x \in T
    OBVIOUS
  <2>. QED
    BY <2>1, <2>3
<1>3. \E x \in T : \A y \in T : x =< y
  <2>. HIDE DEF T
  <2>. QED
    BY <1>1, Smallest
<1>4. \E x \in S : \A y \in S : x >= y
  <2>1. PICK m \in S : \A y \in T : N - m =< y
    BY <1>3
  <2>2. ASSUME NEW y \in S PROVE m >= y
    <3>1. N - y \in T
      OBVIOUS
    <3>2. N - m =< N - y
      BY <2>1, <3>1
    <3>3. m \in 1..N /\ y \in 1..N
      OBVIOUS
    <3>. QED
      <4>. HIDE DEF T
      <4>. QED
        BY <3>2, <3>3
  <2>. QED
    BY <2>2
<1>. QED
  BY <1>4 DEF Max

LEMMA BoundSlots ==
  ASSUME NEW n
  PROVE  /\ Bound(n) \in SUBSET (1..TableSize)
         /\ Bound(n) # {} => Min(Bound(n)) \in Bound(n) /\ Max(Bound(n)) \in Bound(n)
<1>1. Bound(n) \in SUBSET (1..TableSize) /\ Bound(n) \in SUBSET Nat
  BY DEF Bound, Slots
<1>. QED
  BY <1>1, MinIn, MaxIn, SizesAssumption

-------------------------------------------------------------------------------
(***************************************************************************)
(* The tables agree.                                                       *)
(***************************************************************************)
\* What the proofs need to know of the table: a slot is empty or has a name and an
\* object, and it has the name that tagsNames has.
TableOK ==
  /\ table \in [Slots -> Entry]
  /\ names \in [Slots -> Names \cup {Null}]
  /\ NamesKept

LEMMA EntryTypes ==
  /\ Empty \in Entry
  /\ \A n \in Names, s \in Servers : [name |-> n, ref |-> s] \in Entry
  /\ \A e \in Entry : e # Empty => e.name \in Names /\ e.ref \in Servers
  /\ \A e \in Entry : e.name = Null <=> e = Empty
BY NullAssumption DEF Entry, Empty

LEMMA InitTable == Init => TableOK
BY DEF Init, NoTable, NoNames, TableOK, NamesKept, Entry

LEMMA AggiungiTableOK ==
  ASSUME TableOK, NEW s \in Servers, NEW n \in Names, Aggiungi(s, n)
  PROVE  TableOK'
<1>1. CASE Bound(Null) = {}
  BY <1>1 DEF Aggiungi, TableOK, NamesKept
<1>2. CASE Bound(Null) # {}
  <2>. DEFINE p == Min(Bound(Null))
              e == [name |-> n, ref |-> s]
  <2>1. p \in Slots
    BY <1>2, BoundSlots DEF Bound
  <2>2. e \in Entry
    BY EntryTypes
  <2>3. table' = [table EXCEPT ![p] = e] /\ names' = [names EXCEPT ![p] = n]
    BY <1>2 DEF Aggiungi
  <2>. HIDE DEF p
  <2>4. table' \in [Slots -> Entry] /\ names' \in [Slots -> Names \cup {Null}]
    BY <2>1, <2>2, <2>3 DEF TableOK
  <2>5. ASSUME NEW i \in Slots, table'[i] # Empty PROVE names'[i] = table'[i].name
    BY <2>1, <2>3, <2>5 DEF TableOK, NamesKept
  <2>. QED
    BY <2>4, <2>5 DEF TableOK, NamesKept
<1>. QED
  BY <1>1, <1>2

\* Slots are emptied, and nothing else changes.
LEMMA EmptiedTableOK ==
  ASSUME TableOK, table' \in [Slots -> Entry], names' = names,
         \A i \in Slots : table'[i] \in {table[i], Empty}
  PROVE  TableOK'
<1>1. ASSUME NEW i \in Slots, table'[i] # Empty PROVE names'[i] = table'[i].name
  BY <1>1 DEF TableOK, NamesKept
<1>. QED
  BY <1>1 DEF TableOK, NamesKept

LEMMA NextTable == TableOK /\ [Next]_vars => TableOK'
<1>. SUFFICES ASSUME TableOK, [Next]_vars PROVE TableOK'
  OBVIOUS
<1>1. CASE Restart
  BY <1>1 DEF Restart, NoTable, NoNames, TableOK, NamesKept, Entry
<1>2. ASSUME NEW n \in Names, EliminaPrimo(n) PROVE TableOK'
  <2>1. CASE Bound(n) = {}
    BY <1>2, <2>1 DEF EliminaPrimo, TableOK, NamesKept
  <2>2. CASE Bound(n) # {}
    <3>. DEFINE p == Min(Bound(n))
    <3>1. p \in Slots
      BY <2>2, BoundSlots DEF Bound
    <3>2. table' = [table EXCEPT ![p] = Empty] /\ names' = names
      BY <1>2, <2>2 DEF EliminaPrimo
    <3>. HIDE DEF p
    <3>3. table' \in [Slots -> Entry]
      BY <3>1, <3>2, EntryTypes DEF TableOK
    <3>4. \A i \in Slots : table'[i] \in {table[i], Empty}
      BY <3>1, <3>2 DEF TableOK
    <3>. QED
      BY <3>2, <3>3, <3>4, EmptiedTableOK
  <2>. QED
    BY <2>1, <2>2
<1>3. ASSUME NEW n \in Names, EliminaTutti(n) PROVE TableOK'
  <2>1. table' = [i \in Slots |-> IF i \in Bound(n) THEN Empty ELSE table[i]] /\ names' = names
    BY <1>3 DEF EliminaTutti
  <2>2. table' \in [Slots -> Entry] /\ \A i \in Slots : table'[i] \in {table[i], Empty}
    BY <2>1, EntryTypes DEF TableOK
  <2>. QED
    BY <2>1, <2>2, EmptiedTableOK
<1>4. ASSUME NEW s \in Servers, Add(s) PROVE TableOK'
  BY <1>4, AggiungiTableOK DEF Add, Names
<1>5. CASE UNCHANGED <<table, names>>
  BY <1>5 DEF TableOK, NamesKept
<1>. QED
  BY <1>1, <1>2, <1>3, <1>4, <1>5
     DEF Next, vars, Launch, AddTag, Kill, Start, Ask, Scan, Overflows, Ends, Use, UseNone, Quit

\* The two tables agree wherever a name is bound (RegistryRemotoTagImpl.java:87-132).
THEOREM TablesAgree == Spec => []NamesKept
<1>1. TableOK => NamesKept
  BY DEF TableOK
<1>. QED
  BY InitTable, NextTable, <1>1, PTL DEF Spec

-------------------------------------------------------------------------------
(***************************************************************************)
(* The registry is a name service.                                         *)
(***************************************************************************)
\* The binding that a slot holds, and the bindings of NameService.
Held(i) == [at |-> i, name |-> table[i].name, ref |-> table[i].ref]
Entries == {Held(i) : i \in {j \in Slots : table[j] # Empty}}

\* The bindings of a name are what the slots that have it hold.
LEMMA HeldOf ==
  ASSUME TableOK, NEW n \in Names
  PROVE  {e \in Entries : e.name = n} = {Held(i) : i \in Bound(n)}
<1>1. \A i \in Bound(n) : i \in Slots /\ table[i] # Empty
  BY NullAssumption DEF Bound, Empty
<1>. QED
  BY <1>1 DEF Entries, Held, Bound

LEMMA RefineInit == Init => NS!Init
BY DEF Init, NS!Init, NoTable

LEMMA RefineAggiungi ==
  ASSUME TableOK, NEW s \in Servers, NEW n \in Names, Aggiungi(s, n), UNCHANGED got
  PROVE  NS!Register(s, n)
<1>1. CASE Bound(Null) = {}
  <2>1. \A p \in Slots : table[p] # Empty
    BY <1>1 DEF Bound, Empty
  <2>2. ASSUME NEW p \in Slots PROVE \E e \in Entries : e.at = p
    <3>1. Held(p) \in Entries /\ Held(p).at = p
      BY <2>1 DEF Entries, Held
    <3>. QED
      BY <3>1
  <2>3. said' = [said EXCEPT ![s] = "refused"] /\ Entries' = Entries
    BY <1>1 DEF Aggiungi, Entries, Held
  <2>. QED
    BY <2>2, <2>3 DEF NS!Register, Entries, Held
<1>2. CASE Bound(Null) # {}
  <2>. DEFINE p == Min(Bound(Null))
              e == [name |-> n, ref |-> s]
  <2>1. p \in Slots /\ table[p].name = Null
    BY <1>2, BoundSlots DEF Bound
  <2>2. table' = [table EXCEPT ![p] = e] /\ said' = [said EXCEPT ![s] = "added"]
    BY <1>2 DEF Aggiungi
  <2>. HIDE DEF p
  <2>3. table[p] = Empty
    BY <2>1, EntryTypes DEF TableOK
  <2>4. \A x \in Entries : x.at # p
    BY <2>3 DEF Entries, Held
  <2>5. table'[p] = e /\ e # Empty /\ \A i \in Slots \ {p} : table'[i] = table[i]
    BY <2>1, <2>2, NullAssumption DEF TableOK, Empty
  <2>6. Entries' = Entries \cup {[at |-> p, name |-> n, ref |-> s]}
    BY <2>1, <2>3, <2>5 DEF Entries, Held
  <2>. QED
    BY <2>1, <2>2, <2>4, <2>6 DEF NS!Register, Entries, Held
<1>. QED
  BY <1>1, <1>2

LEMMA RefineEliminaPrimo ==
  ASSUME TableOK, NEW n \in Names, EliminaPrimo(n)
  PROVE  NS!RemoveOne(n)
<1>1. CASE Bound(n) = {}
  <2>1. {e \in Entries : e.name = n} = {}
    BY <1>1, HeldOf
  <2>2. Entries' = Entries /\ UNCHANGED <<said, got>>
    BY <1>1 DEF EliminaPrimo, Entries, Held, serverVars, clientVars
  <2>. QED
    BY <2>1, <2>2 DEF NS!RemoveOne, NS!Of, Entries, Held
<1>2. CASE Bound(n) # {}
  <2>. DEFINE p == Min(Bound(n))
  <2>1. p \in Slots /\ p \in Bound(n)
    BY <1>2, BoundSlots DEF Bound
  <2>2. table' = [table EXCEPT ![p] = Empty] /\ UNCHANGED <<said, got>>
    BY <1>2 DEF EliminaPrimo, serverVars, clientVars
  <2>. HIDE DEF p
  <2>3. Held(p) \in {e \in Entries : e.name = n}
    BY <2>1, HeldOf
  <2>4. table'[p] = Empty /\ \A i \in Slots \ {p} : table'[i] = table[i]
    BY <2>1, <2>2 DEF TableOK
  <2>5. Entries' = Entries \ {Held(p)}
    BY <2>1, <2>4 DEF Entries, Held
  <2>. QED
    BY <2>2, <2>3, <2>5 DEF NS!RemoveOne, NS!Of, Entries, Held
<1>. QED
  BY <1>1, <1>2

LEMMA RefineEliminaTutti ==
  ASSUME TableOK, NEW n \in Names, EliminaTutti(n)
  PROVE  NS!RemoveAll(n)
<1>1. table' = [i \in Slots |-> IF i \in Bound(n) THEN Empty ELSE table[i]] /\ UNCHANGED <<said, got>>
  BY DEF EliminaTutti, serverVars, clientVars
<1>2. \A i \in Slots : table'[i] = IF table[i].name = n THEN Empty ELSE table[i]
  BY <1>1 DEF Bound
<1>3. Entries' = {e \in Entries : e.name # n}
  BY <1>2 DEF Entries, Held
<1>4. Entries' = Entries \ {e \in Entries : e.name = n}
  BY <1>3
<1>. QED
  BY <1>1, <1>4 DEF NS!RemoveAll, NS!Of, Entries, Held

LEMMA RefineUse ==
  ASSUME TableOK, NEW c \in Clients, NEW n \in Names, Use(c, n)
  PROVE  NS!Lookup(c, n)
<1>1. got' = [got EXCEPT ![c] = Cerca(n)] /\ Entries' = Entries /\ UNCHANGED said
  BY DEF Use, Entries, Held, serverVars
<1>2. CASE Bound(n) = {}
  <2>1. {e \in Entries : e.name = n} = {}
    BY <1>2, HeldOf
  <2>. QED
    BY <1>1, <1>2, <2>1 DEF NS!Lookup, NS!Of, Cerca, Entries, Held
<1>3. CASE Bound(n) # {}
  <2>1. Max(Bound(n)) \in Bound(n) /\ Cerca(n) = table[Max(Bound(n))].ref
    BY <1>3, BoundSlots DEF Cerca
  <2>2. Held(Max(Bound(n))) \in {e \in Entries : e.name = n}
    BY <2>1, HeldOf
  <2>3. \E e \in {x \in Entries : x.name = n} : Cerca(n) = e.ref
    BY <2>1, <2>2 DEF Held
  <2>. QED
    BY <1>1, <2>3 DEF NS!Lookup, NS!Of, Entries, Held
<1>. QED
  BY <1>2, <1>3

LEMMA RefineNext == TableOK /\ [Next]_vars => [NS!Next]_(NS!vars)
<1>. SUFFICES ASSUME TableOK, [Next]_vars PROVE [NS!Next]_(NS!vars)
  OBVIOUS
<1>. USE DEF NS!Next
<1>1. CASE Restart
  <2>1. Entries' = {}
    BY <1>1 DEF Restart, NoTable, Entries
  <2>2. NS!Reset
    BY <1>1, <2>1 DEF Restart, NS!Reset, Entries, Held
  <2>. QED
    BY <2>2
<1>2. ASSUME NEW n \in Names, EliminaPrimo(n) \/ EliminaTutti(n) PROVE NS!Next
  BY <1>2, RefineEliminaPrimo, RefineEliminaTutti
<1>3. ASSUME NEW s \in Servers, Add(s) PROVE NS!Next
  <2>1. \E n \in Names : Aggiungi(s, n) /\ UNCHANGED got
    BY <1>3 DEF Add, Names, clientVars
  <2>. QED
    BY <2>1, RefineAggiungi
<1>4. ASSUME NEW s \in Servers, AddTag(s) \/ Kill(s) PROVE NS!Next
  <2>1. NS!GoOn(s)
    BY <1>4 DEF AddTag, Kill, NS!GoOn, clientVars
  <2>. QED
    BY <2>1
<1>5. ASSUME NEW c \in Clients, Ask(c) PROVE NS!Next
  <2>1. NS!Forget(c)
    BY <1>5 DEF Ask, NS!Forget, serverVars
  <2>. QED
    BY <2>1
<1>6. ASSUME NEW c \in Clients, NEW n \in Names, Use(c, n) PROVE NS!Next
  BY <1>6, RefineUse
<1>7. CASE UNCHANGED <<table, said, got>>
  BY <1>7 DEF NS!vars
<1>. QED
  BY <1>1, <1>2, <1>3, <1>4, <1>5, <1>6, <1>7
     DEF Next, vars, serverVars, clientVars, Launch, Start, Scan, Overflows, Ends, UseNone, Quit

\* aggiungi, eliminaPrimo, eliminaTutti and cerca are those of a name service, whatever
\* is done with tags and whoever stops (RegistryRemotoTagImpl.java:34-132).
THEOREM RegistryIsNameService == Spec => Implements
<1>1. Implements <=> NS!Init /\ [][NS!Next]_(NS!vars)
  BY DEF Implements, NS!Spec
<1>. QED
  BY <1>1, InitTable, NextTable, RefineInit, RefineNext, PTL DEF Spec

-------------------------------------------------------------------------------
(***************************************************************************)
(* Types, and searches.                                                    *)
(***************************************************************************)
LEMMA HitsType == \A i, t : Hits(i, t) \in Nat
<1>1. ASSUME NEW i, NEW t PROVE Hits(i, t) \in Nat
  <2>. DEFINE hit == {j \in 1..TagSize : cells[i][j] = t}
  <2>1. IsFiniteSet(1..TagSize) /\ hit \in SUBSET (1..TagSize)
    BY FS_Interval, SizesAssumption
  <2>2. IsFiniteSet(hit)
    BY <2>1, FS_Subset
  <2>. QED
    BY <2>2, FS_CardinalityType DEF Hits
<1>. QED
  BY <1>1

LEMMA InitType == Init => TypeOK
<1>1. 1 \in Slots
  BY SizesAssumption DEF Slots
<1>2. Empty \in Entry
  BY EntryTypes
<1>3. Init => Len(<<>>) <= TableSize /\ <<>> \in Seq(Names \cup {Null})
  BY SizesAssumption
<1>. QED
  BY <1>1, <1>2, <1>3 DEF Init, TypeOK, NoTable, NoNames, NoTags, Strings

LEMMA ScanType ==
  ASSUME TypeOK, NEW c \in Clients, Scan(c)
  PROVE  TypeOK'
<1>. DEFINE hits == Hits(slot[c], tag[c])
            new == [k \in 1..hits |-> names[slot[c]]]
<1>1. hits \in Nat
  BY HitsType
<1>2. names[slot[c]] \in Names \cup {Null}
  BY DEF TypeOK
<1>3. new \in Seq(Names \cup {Null}) /\ Len(new) = hits
  <2>. HIDE DEF hits
  <2>. QED
    BY <1>1, <1>2
<1>4. found[c] \in Seq(Names \cup {Null})
  BY DEF TypeOK
<1>5. found[c] \o new \in Seq(Names \cup {Null}) /\ Len(found[c] \o new) = Len(found[c]) + hits
  <2>. HIDE DEF new, hits
  <2>. QED
    BY <1>3, <1>4, ConcatProperties
<1>6. found' = [found EXCEPT ![c] = found[c] \o new] /\ Len(found[c]) + hits <= TableSize
  BY DEF Scan, Fits
<1>7. /\ found' \in [Clients -> Seq(Names \cup {Null})]
      /\ \A d \in Clients : Len(found'[d]) <= TableSize
  <2>. HIDE DEF new, hits
  <2>. QED
    BY <1>5, <1>6 DEF TypeOK
<1>8. slot' \in [Clients -> Slots]
  <2>1. slot' = [slot EXCEPT ![c] = IF slot[c] = TableSize THEN 1 ELSE slot[c] + 1]
    BY DEF Scan
  <2>2. slot[c] \in 1..TableSize /\ TableSize \in Nat \ {0}
    BY SizesAssumption DEF TypeOK, Slots
  <2>3. (IF slot[c] = TableSize THEN 1 ELSE slot[c] + 1) \in Slots
    BY <2>2 DEF Slots
  <2>. QED
    BY <2>1, <2>3 DEF TypeOK
<1>9. cpc' \in [Clients -> {"off", "line", "scan", "service"}]
  BY DEF Scan, Goto, TypeOK
<1>10. UNCHANGED <<table, names, cells, spc, said, tagged, tag, got>>
  BY DEF Scan, serverVars
<1>. QED
  BY <1>7, <1>8, <1>9, <1>10 DEF TypeOK

\* The cells keep the empty strings of the constructor: associaTag looks for null.
NoTagStored == cells = NoTags

LEMMA AssociaTagStoresNothing ==
  ASSUME NoTagStored, NEW s, NEW n, NEW t, AssociaTag(s, n, t)
  PROVE  NoTagStored'
<1>. DEFINE named == {i \in Slots : names[i] = n}
<1>1. ASSUME NEW j \in Slots, named # {} PROVE ~Free(cells[Min(named)][j])
  <2>1. named \in SUBSET Nat
    BY DEF Slots
  <2>2. Min(named) \in Slots
    BY <1>1, <2>1, MinIn
  <2>3. j \in 1..TagSize
    BY SizesAssumption DEF Slots
  <2>. QED
    BY <2>2, <2>3, NullAssumption DEF NoTagStored, NoTags, Free, Strings
<1>2. UNCHANGED cells
  BY <1>1 DEF AssociaTag
<1>. QED
  BY <1>2 DEF NoTagStored, NoTags

RegistryInv == TypeOK /\ NoTagStored /\ NothingFound

LEMMA NoHits ==
  ASSUME RegistryInv, NEW c \in Clients, tag[c] # Blank
  PROVE  Hits(slot[c], tag[c]) = 0
<1>1. slot[c] \in Slots
  BY DEF RegistryInv, TypeOK
<1>2. {j \in 1..TagSize : cells[slot[c]][j] = tag[c]} = {}
  BY <1>1 DEF RegistryInv, NoTagStored, NoTags
<1>. QED
  BY <1>2, FS_EmptySet DEF Hits

LEMMA RegistryInit == Init => RegistryInv
BY InitType DEF Init, RegistryInv, NoTagStored, NothingFound

LEMMA CercaType ==
  ASSUME TypeOK, NEW n \in Names
  PROVE  Cerca(n) \in Servers \cup {Null}
<1>1. CASE Bound(n) = {}
  BY <1>1 DEF Cerca
<1>2. CASE Bound(n) # {}
  <2>1. Max(Bound(n)) \in Slots /\ table[Max(Bound(n))].name = n
    BY <1>2, BoundSlots DEF Bound
  <2>2. table[Max(Bound(n))] \in Entry /\ table[Max(Bound(n))] # Empty
    BY <2>1, NullAssumption DEF TypeOK, Empty
  <2>. QED
    BY <1>2, <2>2, EntryTypes DEF Cerca
<1>. QED
  BY <1>1, <1>2

LEMMA RegistryNext == TableOK /\ TableOK' /\ RegistryInv /\ [Next]_vars => RegistryInv'
<1>. SUFFICES ASSUME TableOK, TableOK', RegistryInv, [Next]_vars PROVE RegistryInv'
  OBVIOUS
<1>. USE DEF RegistryInv
<1>a. table' \in [Slots -> Entry] /\ names' \in [Slots -> Names \cup {Null}]
  BY DEF TableOK
<1>b. <<>> \in Seq(Names \cup {Null}) /\ Len(<<>>) <= TableSize /\ 1 \in Slots /\ Blank \in Strings
  BY SizesAssumption DEF Slots, Strings
<1>1. CASE Restart
  BY <1>a, <1>b, <1>1 DEF Restart, TypeOK, NoTagStored, NothingFound, NoTags
<1>2. ASSUME NEW n \in Names, EliminaPrimo(n) \/ EliminaTutti(n) PROVE RegistryInv'
  BY <1>a, <1>2 DEF EliminaPrimo, EliminaTutti, serverVars, clientVars, TypeOK, NoTagStored, NoTags, NothingFound
<1>3. ASSUME NEW s \in Servers, Launch(s) \/ Kill(s) PROVE RegistryInv'
  BY <1>a, <1>3 DEF Launch, Kill, Goes, clientVars, TypeOK, NoTagStored, NoTags, NothingFound
<1>4. ASSUME NEW s \in Servers, Add(s) PROVE RegistryInv'
  <2>1. \E n \in Names : Aggiungi(s, n)
    BY <1>4 DEF Add, Names
  <2>2. said' \in [Servers -> {"none", "added", "refused"}]
    BY <2>1 DEF Aggiungi, TypeOK
  <2>3. spc' \in [Servers -> {"off", "add1", "tag1", "add2", "tag2"}]
    BY <1>4 DEF Add, Goes, TypeOK
  <2>. QED
    BY <1>a, <1>4, <2>2, <2>3 DEF Add, clientVars, TypeOK, NoTagStored, NoTags, NothingFound
<1>5. ASSUME NEW s \in Servers, AddTag(s) PROVE RegistryInv'
  <2>1. \E n, t : AssociaTag(s, n, t)
    BY <1>5 DEF AddTag
  <2>2. NoTagStored'
    BY <2>1, AssociaTagStoresNothing
  <2>3. cells' = cells
    BY <2>2 DEF NoTagStored, NoTags
  <2>4. tagged' \in [Servers -> BOOLEAN]
    BY <2>1 DEF AssociaTag, TypeOK
  <2>5. spc' \in [Servers -> {"off", "add1", "tag1", "add2", "tag2"}]
    BY <1>5 DEF AddTag, Goes, TypeOK
  <2>. QED
    BY <1>a, <1>5, <2>2, <2>3, <2>4, <2>5 DEF AddTag, clientVars, TypeOK, NothingFound
<1>6. ASSUME NEW c \in Clients, Start(c) PROVE RegistryInv'
  BY <1>a, <1>6 DEF Start, Goto, serverVars, TypeOK, NoTagStored, NoTags, NothingFound
<1>7. ASSUME NEW c \in Clients, Ask(c) PROVE RegistryInv'
  <2>1. PICK t \in Strings : tag' = [tag EXCEPT ![c] = t]
    BY <1>7 DEF Ask
  <2>. QED
    BY <1>a, <1>b, <1>7, <2>1 DEF Ask, Goto, serverVars, TypeOK, NoTagStored, NoTags, NothingFound
<1>8. ASSUME NEW c \in Clients, Scan(c) PROVE RegistryInv'
  <2>1. TypeOK'
    BY <1>8, ScanType
  <2>2. UNCHANGED <<cells, tag>> /\ cpc[c] = "scan"
    BY <1>8 DEF Scan, Goto
  <2>3. ASSUME NEW d \in Clients, cpc'[d] \in {"scan", "service"}, tag'[d] # Blank PROVE found'[d] = <<>>
    <3>1. CASE d = c
      <4>1. Hits(slot[c], tag[c]) = 0 /\ found[c] = <<>>
        BY <2>2, <2>3, <3>1, NoHits DEF NothingFound
      <4>2. found' = [found EXCEPT ![c] = found[c] \o [k \in 1..Hits(slot[c], tag[c]) |-> names[slot[c]]]]
        BY <1>8 DEF Scan
      <4>3. 1..0 = {}
        OBVIOUS
      <4>4. [k \in 1..0 |-> names[slot[c]]] = <<>>
        BY <4>3
      <4>5. <<>> \o <<>> = <<>>
        OBVIOUS
      <4>. QED
        BY <3>1, <4>1, <4>2, <4>4, <4>5 DEF TypeOK
    <3>2. CASE d # c
      BY <1>8, <2>2, <2>3, <3>2 DEF Scan, Goto, TypeOK, NothingFound
    <3>. QED
      BY <3>1, <3>2
  <2>. QED
    BY <2>1, <2>2, <2>3 DEF NoTagStored, NoTags, NothingFound
<1>9. ASSUME NEW c \in Clients, Overflows(c) \/ Quit(c) PROVE RegistryInv'
  <2>1. Ends(c)
    BY <1>9 DEF Overflows, Quit
  <2>2. /\ cpc' \in [Clients -> {"off", "line", "scan", "service"}]
        /\ slot' \in [Clients -> Slots]
    BY <1>b, <2>1 DEF Ends, TypeOK
  <2>3. /\ found' \in [Clients -> Seq(Names \cup {Null})]
        /\ \A d \in Clients : Len(found'[d]) <= TableSize
    BY <1>b, <2>1 DEF Ends, TypeOK
  <2>4. NothingFound'
    BY <2>1 DEF Ends, TypeOK, NothingFound
  <2>. QED
    BY <1>a, <2>1, <2>2, <2>3, <2>4 DEF Ends, serverVars, TypeOK, NoTagStored, NoTags
<1>10. ASSUME NEW c \in Clients, NEW n \in Names, Use(c, n) PROVE RegistryInv'
  <2>1. Cerca(n) \in Servers \cup {Null}
    BY CercaType
  <2>2. got' \in [Clients -> Servers \cup {Null}]
    BY <1>10, <2>1 DEF Use, TypeOK
  <2>. QED
    BY <1>a, <1>b, <1>10, <2>2 DEF Use, serverVars, TypeOK, NoTagStored, NoTags, NothingFound
<1>11. ASSUME NEW c \in Clients, UseNone(c) PROVE RegistryInv'
  BY <1>a, <1>b, <1>11 DEF UseNone, Goto, serverVars, TypeOK, NoTagStored, NoTags, NothingFound
<1>12. CASE UNCHANGED vars
  BY <1>12 DEF vars, serverVars, clientVars, TypeOK, NoTagStored, NoTags, NothingFound
<1>. QED
  BY <1>1, <1>2, <1>3, <1>4, <1>5, <1>6, <1>7, <1>8, <1>9, <1>10, <1>11, <1>12 DEF Next

\* Every variable has its type, and no search holds more names than its array.
THEOREM TypesKept == Spec => []TypeOK
<1>1. RegistryInv => TypeOK
  BY DEF RegistryInv
<1>. QED
  BY InitTable, NextTable, RegistryInit, RegistryNext, <1>1, PTL DEF Spec

\* No search for a tag that can be associated overruns its array (line 148): no tag
\* is ever stored, which is also why none is ever found.
THEOREM SearchesFit == Spec => []SearchFits
<1>1. RegistryInv => SearchFits
  <2>. SUFFICES ASSUME RegistryInv, NEW c \in Clients, cpc[c] = "scan", tag[c] # Blank
               PROVE  Fits(c)
    BY DEF SearchFits
  <2>1. Hits(slot[c], tag[c]) = 0
    BY NoHits
  <2>2. found[c] = <<>>
    BY DEF RegistryInv, NothingFound
  <2>3. Len(<<>>) + 0 <= TableSize
    BY SizesAssumption
  <2>. QED
    BY <2>1, <2>2, <2>3 DEF Fits
<1>. QED
  BY InitTable, NextTable, RegistryInit, RegistryNext, <1>1, PTL DEF Spec

\* No search for such a tag finds a name: associaTag stores nothing (line 179).
THEOREM NothingIsFound == Spec => []NothingFound
<1>1. RegistryInv => NothingFound
  BY DEF RegistryInv
<1>. QED
  BY InitTable, NextTable, RegistryInit, RegistryNext, <1>1, PTL DEF Spec
===============================================================================
