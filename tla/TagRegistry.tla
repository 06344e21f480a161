------------------------------ MODULE TagRegistry ------------------------------
(***************************************************************************)
(* The remote registry of esercitazione6 (RegistryRemotoTagImpl.java), the *)
(* servers that register with it (Server.java) and its clients             *)
(* (Client.java).  What is registered is a Server, which is serialisable   *)
(* and not exported: the table holds copies, which outlive their server.   *)
(*                                                                         *)
(* The synchronized methods are one step each.  cercaTag holds no monitor: *)
(* it reads the table slot by slot while the others change it.  Nobody in  *)
(* the repository removes names; any program that knows the interface may. *)
(***************************************************************************)
EXTENDS Integers, Sequences, FiniteSets, FiniteSetsExt

CONSTANTS
  Servers,      \* a process of Server.java; its objects go by its name
  Clients,
  Echo, Test1,  \* the two names a server registers
  EchoTag, Test1Tag, Blank,   \* their tags; the empty string
  TableSize, TagSize,         \* tableSize and TAG_SIZE: 100 and 256
  Null

Slots == 1..TableSize
Names == {Echo, Test1}
Strings == {EchoTag, Test1Tag, Blank}

ASSUME SizesAssumption == TableSize \in Nat \ {0} /\ TagSize \in Nat /\ TableSize <= TagSize
ASSUME NullAssumption == Null \notin Servers \cup Names \cup Strings
ASSUME StringsAssumption == Echo # Test1 /\ Cardinality(Strings) = 3

VARIABLES
  table,      \* the name and the object of each slot
  names,      \* tagsNames[i][0]
  cells,      \* tagsNames[i][1]: the tags of each slot
  spc,        \* what each server does next
  said,       \* what aggiungi has answered it, until it goes on
  tagged,     \* what associaTag returned last
  cpc,        \* where each client is
  tag,        \* the tag it searches
  slot,       \* the slot cercaTag has come to
  found,      \* the names it has found
  got         \* what cerca gave the client last, or Null

serverVars == <<spc, said, tagged>>
clientVars == <<cpc, tag, slot, found, got>>
vars == <<table, names, cells, serverVars, clientVars>>

Empty == [name |-> Null, ref |-> Null]

\* The constructor fills the cells with the empty string.
NoTable == [i \in Slots |-> Empty]
NoNames == [i \in Slots |-> Null]
NoTags == [i \in Slots |-> [j \in 1..TagSize |-> Blank]]

Init ==
  /\ table = NoTable /\ names = NoNames /\ cells = NoTags
  /\ spc = [s \in Servers |-> "off"]
  /\ said = [s \in Servers |-> "none"]
  /\ tagged = [s \in Servers |-> FALSE]
  /\ cpc = [c \in Clients |-> "off"]
  /\ tag = [c \in Clients |-> Blank]
  /\ slot = [c \in Clients |-> 1]
  /\ found = [c \in Clients |-> <<>>]
  /\ got = [c \in Clients |-> Null]

-------------------------------------------------------------------------------
(***************************************************************************)
(* The methods of the registry.                                            *)
(***************************************************************************)
Bound(n) == {i \in Slots : table[i].name = n}

\* Fault: tagsNames is left as it was.
AggiungiTable(s, n) ==
  LET free == Bound(Null) IN
  /\ said' = [said EXCEPT ![s] = IF free # {} THEN "added" ELSE "refused"]
  /\ IF free # {} THEN table' = [table EXCEPT ![Min(free)] = [name |-> n, ref |-> s]]
     ELSE UNCHANGED table
  /\ UNCHANGED names

\* Fault: the free slots are those of tagsNames, where no name is removed.
AggiungiNames(s, n) ==
  LET free == {i \in Slots : names[i] = Null} IN
  /\ said' = [said EXCEPT ![s] = IF free # {} THEN "added" ELSE "refused"]
  /\ IF free # {} THEN /\ table' = [table EXCEPT ![Min(free)] = [name |-> n, ref |-> s]]
                       /\ names' = [names EXCEPT ![Min(free)] = n]
     ELSE UNCHANGED <<table, names>>

\* The first free slot, in both tables; FALSE if there is none.
Aggiungi(s, n) ==
  LET free == Bound(Null) IN
  /\ said' = [said EXCEPT ![s] = IF free # {} THEN "added" ELSE "refused"]
  /\ IF free # {} THEN /\ table' = [table EXCEPT ![Min(free)] = [name |-> n, ref |-> s]]
                       /\ names' = [names EXCEPT ![Min(free)] = n]
     ELSE UNCHANGED <<table, names>>

\* Fault: the empty strings of the constructor are what is looked for.
FreeBlank(cell) == cell = Blank

\* associaTag looks for a cell that is null.
Free(cell) == cell = Null

\* The first slot that has the name in tagsNames; its first free cell, of as many as
\* the table has slots.  TRUE if the name was found, whether or not a cell was.
AssociaTag(s, n, t) ==
  LET named == {i \in Slots : names[i] = n} IN
  /\ tagged' = [tagged EXCEPT ![s] = named # {}]
  /\ IF \E j \in Slots : named # {} /\ Free(cells[Min(named)][j])
     THEN LET j == Min({k \in Slots : Free(cells[Min(named)][k])}) IN
          cells' = [cells EXCEPT ![Min(named)][j] = t]
     ELSE UNCHANGED cells

\* The name stays in tagsNames, and so do the tags.
EliminaPrimo(n) ==
  /\ IF Bound(n) # {} THEN table' = [table EXCEPT ![Min(Bound(n))] = Empty] ELSE UNCHANGED table
  /\ UNCHANGED <<names, cells, serverVars, clientVars>>

EliminaTutti(n) ==
  /\ table' = [i \in Slots |-> IF i \in Bound(n) THEN Empty ELSE table[i]]
  /\ UNCHANGED <<names, cells, serverVars, clientVars>>

\* The object of the last slot that has the name.
Cerca(n) == IF Bound(n) = {} THEN Null ELSE table[Max(Bound(n))].ref

Hits(i, t) == Cardinality({j \in 1..TagSize : cells[i][j] = t})

\* Fault: the array grows as it must.
FitsAny(c) == TRUE

\* The array of names has room for what the slot holds.
Fits(c) == Len(found[c]) + Hits(slot[c], tag[c]) <= TableSize

-------------------------------------------------------------------------------
(***************************************************************************)
(* A server: two names and their tags, whatever it is told.                *)
(***************************************************************************)
Goes(s, from, to) == spc[s] = from /\ spc' = [spc EXCEPT ![s] = to]

Launch(s) ==
  /\ Goes(s, "off", "add1")
  /\ UNCHANGED <<table, names, cells, said, tagged, clientVars>>

Add(s) ==
  /\ \/ Goes(s, "add1", "tag1") /\ Aggiungi(s, Echo)
     \/ Goes(s, "add2", "tag2") /\ Aggiungi(s, Test1)
  /\ UNCHANGED <<cells, tagged, clientVars>>

AddTag(s) ==
  /\ \/ Goes(s, "tag1", "add2") /\ AssociaTag(s, Echo, EchoTag)
     \/ Goes(s, "tag2", "off") /\ AssociaTag(s, Test1, Test1Tag)
  /\ said' = [said EXCEPT ![s] = "none"]
  /\ UNCHANGED <<table, names, clientVars>>

\* The process is killed.
Kill(s) ==
  /\ spc[s] # "off" /\ spc' = [spc EXCEPT ![s] = "off"]
  /\ said' = [said EXCEPT ![s] = "none"]
  /\ UNCHANGED <<table, names, cells, tagged, clientVars>>

-------------------------------------------------------------------------------
(***************************************************************************)
(* A client: it searches a tag, prints the names, and asks for one of the  *)
(* two services by name.                                                   *)
(***************************************************************************)
Goto(c, from, to) == cpc[c] = from /\ cpc' = [cpc EXCEPT ![c] = to]

Start(c) ==
  /\ Goto(c, "off", "line")
  /\ UNCHANGED <<table, names, cells, serverVars, tag, slot, found, got>>

\* A line is read, the empty one too, and cercaTag begins.
Ask(c) ==
  /\ Goto(c, "line", "scan")
  /\ \E t \in Strings : tag' = [tag EXCEPT ![c] = t]
  /\ slot' = [slot EXCEPT ![c] = 1] /\ found' = [found EXCEPT ![c] = <<>>]
  /\ got' = [got EXCEPT ![c] = Null]
  /\ UNCHANGED <<table, names, cells, serverVars>>

\* cercaTag reads one slot: the name once for every cell that has the tag.
Scan(c) ==
  LET hits == Hits(slot[c], tag[c]) IN
  /\ Fits(c)
  /\ Goto(c, "scan", IF slot[c] = TableSize THEN "service" ELSE "scan")
  /\ found' = [found EXCEPT ![c] = @ \o [k \in 1..hits |-> names[slot[c]]]]
  /\ slot' = [slot EXCEPT ![c] = IF @ = TableSize THEN 1 ELSE @ + 1]
  /\ UNCHANGED <<table, names, cells, serverVars, tag, got>>

Ends(c) ==
  /\ cpc' = [cpc EXCEPT ![c] = "off"]
  /\ slot' = [slot EXCEPT ![c] = 1] /\ found' = [found EXCEPT ![c] = <<>>]
  /\ UNCHANGED <<table, names, cells, serverVars, tag, got>>

\* The array for the names is too short: the exception ends the client.
Overflows(c) ==
  /\ cpc[c] = "scan" /\ ~Fits(c)
  /\ Ends(c)

\* One of the two names: cerca, and a call on what it gives; null ends the client.
Use(c, n) ==
  /\ cpc[c] = "service"
  /\ cpc' = [cpc EXCEPT ![c] = IF Cerca(n) = Null THEN "off" ELSE "line"]
  /\ got' = [got EXCEPT ![c] = Cerca(n)]
  /\ found' = [found EXCEPT ![c] = <<>>]
  /\ UNCHANGED <<table, names, cells, serverVars, tag, slot>>

\* Any other name: "Non trovato".
UseNone(c) ==
  /\ Goto(c, "service", "line")
  /\ found' = [found EXCEPT ![c] = <<>>]
  /\ UNCHANGED <<table, names, cells, serverVars, tag, slot, got>>

\* End of input, or a signal.
Quit(c) == cpc[c] # "off" /\ Ends(c)

\* The registry stops and is started again, empty.  Its old stubs are of no more use:
\* the next call of who has one fails, and ends it.
Restart ==
  /\ table' = NoTable /\ names' = NoNames /\ cells' = NoTags
  /\ spc' = [s \in Servers |-> "off"]
  /\ said' = [s \in Servers |-> "none"] /\ tagged' = [s \in Servers |-> FALSE]
  /\ cpc' = [c \in Clients |-> "off"] /\ got' = [c \in Clients |-> Null]
  /\ slot' = [c \in Clients |-> 1] /\ found' = [c \in Clients |-> <<>>]
  /\ UNCHANGED tag

Next ==
  \/ Restart
  \/ \E n \in Names : EliminaPrimo(n) \/ EliminaTutti(n)
  \/ \E s \in Servers : Launch(s) \/ Add(s) \/ AddTag(s) \/ Kill(s)
  \/ \E c \in Clients : \/ Start(c) \/ Ask(c) \/ Scan(c) \/ Overflows(c)
                        \/ (\E n \in Names : Use(c, n)) \/ UseNone(c) \/ Quit(c)

Spec == Init /\ [][Next]_vars

-------------------------------------------------------------------------------
(***************************************************************************)
(* What is checked.                                                        *)
(***************************************************************************)
Entry == [name : Names, ref : Servers] \cup {Empty}

\* Every variable has its type; a search never holds more names than its array.
TypeOK ==
  /\ table \in [Slots -> Entry]
  /\ names \in [Slots -> Names \cup {Null}]
  /\ cells \in [Slots -> [1..TagSize -> Strings \cup {Null}]]
  /\ spc \in [Servers -> {"off", "add1", "tag1", "add2", "tag2"}]
  /\ said \in [Servers -> {"none", "added", "refused"}]
  /\ tagged \in [Servers -> BOOLEAN]
  /\ cpc \in [Clients -> {"off", "line", "scan", "service"}]
  /\ tag \in [Clients -> Strings]
  /\ slot \in [Clients -> Slots]
  /\ found \in [Clients -> Seq(Names \cup {Null})] /\ \A c \in Clients : Len(found[c]) <= TableSize
  /\ got \in [Clients -> Servers \cup {Null}]

\* The two tables agree wherever a name is bound, though names are removed from one
\* of them only (lines 104-132): a search by tag and cerca speak of the same names.
NamesKept == \A i \in Slots : table[i] # Empty => names[i] = table[i].name

\* A search for a tag that can be associated never comes to the end of its array
\* (line 148), whatever has been added, removed and added again in its slots.
SearchFits == \A c \in Clients : cpc[c] = "scan" /\ tag[c] # Blank => Fits(c)

\* No search for a tag that can be associated finds a name, though associaTag has told
\* the server that the tag is there: it looks for a cell that is null (line 179), and
\* the constructor has made all of them empty strings.
NothingFound ==
  \A c \in Clients : cpc[c] \in {"scan", "service"} /\ tag[c] # Blank => found[c] = <<>>

\* The registry is a name service with as many places as its table has slots: no
\* name is refused while a slot is free, none is lost, cerca gives an object that is
\* bound to the name, and nothing a client or a stopped server does removes one.
NS == INSTANCE NameService WITH
        Places <- Slots,
        entries <- {[at |-> i, name |-> table[i].name, ref |-> table[i].ref] :
                      i \in {j \in Slots : table[j] # Empty}}
Implements == NS!Spec
===============================================================================
