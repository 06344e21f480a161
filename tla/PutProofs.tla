------------------------------- MODULE PutProofs -------------------------------
(***************************************************************************)
(* Proofs about the multiple put, for any number of clients, files and     *)
(* directories: what PutClient says of the clients, then MultiplePut and   *)
(* SeqPut, the two servers that the clients of PutClient talk to.          *)
(***************************************************************************)
EXTENDS MultiplePut, SeqPut, FunctionTheorems, DataLemmas

\* While a file is being offered or sent there is an entry it belongs to.
TodoInv == \A c \in Clients : cpc[c] \in {"await", "stream"} => todo[c] # <<>>

ClientInv == ClientTypeOK /\ TodoInv

LEMMA EntryType ==
  ASSUME NEW e \in Entries
  PROVE  e.name \in Names /\ e.len \in Nat /\ e.len <= MaxLen /\ e.isDir \in BOOLEAN
BY SizeAssumption DEF Entries

\* The items that the client writes.
LEMMA ItemTypes ==
  /\ \A n \in Nat : Int32(n) \in Items /\ Int64(n) \in Items
  /\ \A n \in Names : Utf(n) \in Items
  /\ \A b \in Blocks : Block(b) \in Items
BY DEF Items, Int32, Int64, Utf, Block

\* And what the reads of the server take of them.
LEMMA TakenTypes ==
  ASSUME NEW item \in Items
  PROVE  /\ item.kind \in {"int", "long"} => item.val \in Nat
         /\ item.kind = "utf" => item.val \in Names
         /\ item.kind = "block" => item.val \in Blocks
BY DEF Items

LEMMA NumFilesType ==
  ASSUME NEW d \in Seq(Entries)
  PROVE  NumFilesToSend(d) \in Nat
<1>. DEFINE chosen == {i \in DOMAIN d : Sendable(d[i])}
<1>1. IsFiniteSet(1..Len(d))
  BY FS_Interval
<1>2. chosen \in SUBSET (1..Len(d))
  OBVIOUS
<1>3. IsFiniteSet(chosen)
  BY <1>1, <1>2, FS_Subset
<1>. QED
  BY <1>3, FS_CardinalityType DEF NumFilesToSend

LEMMA ClientInitInv == ClientInit => ClientInv
BY SizeAssumption DEF ClientInit, ClientInv, ClientTypeOK, TodoInv, ClientLabels

\* Writing to the stream and going on to the next entry keep the types.
LEMMA SendType ==
  ASSUME ClientTypeOK, NEW c \in Clients, NEW item \in Items, Send(c, item)
  PROVE  c2s' \in [Clients -> Seq(Items)]
<1>1. Append(c2s[c], item) \in Seq(Items)
  BY DEF ClientTypeOK
<1>. QED
  BY <1>1 DEF Send, ClientTypeOK

LEMMA NextEntryType ==
  ASSUME ClientTypeOK, NEW c \in Clients, todo[c] # <<>>, NextEntry(c)
  PROVE  todo' \in [Clients -> Seq(Entries)]
<1>1. Tail(todo[c]) \in Seq(Entries)
  BY DEF ClientTypeOK
<1>. QED
  BY <1>1 DEF NextEntry, ClientTypeOK

LEMMA CurrentType ==
  ASSUME ClientTypeOK, NEW c \in Clients, todo[c] # <<>>
  PROVE  Current(c) \in Entries
BY DEF ClientTypeOK, Current

LEMMA ClientStepInv ==
  ASSUME ClientInv, NEW c \in Clients, ClientStep(c)
  PROVE  ClientInv'
<1>0. ClientTypeOK /\ TodoInv
  BY DEF ClientInv
<1>. USE <1>0
<1>1. CASE SkipEntry(c)
  <2>1. todo' \in [Clients -> Seq(Entries)]
    BY <1>1, NextEntryType DEF SkipEntry
  <2>. QED
    BY <1>1, <2>1 DEF SkipEntry, NextEntry, ClientInv, ClientTypeOK, TodoInv
<1>2. CASE SendName(c)
  <2>1. Utf(Current(c).name) \in Items
    BY <1>2, CurrentType, EntryType, ItemTypes DEF SendName
  <2>2. c2s' \in [Clients -> Seq(Items)]
    BY <1>2, <2>1, SendType DEF SendName
  <2>. QED
    BY <1>2, <2>2 DEF SendName, ClientGoto, ClientInv, ClientTypeOK, TodoInv, ClientLabels
<1>3. CASE TakeReply(c)
  <2>1. cpc[c] = "await" /\ todo[c] # <<>>
    BY <1>3 DEF TakeReply, ClientGoto, TodoInv
  <2>2. Tail(s2c[c]) \in Seq(Replies)
    BY <1>3 DEF TakeReply, ClientTypeOK
  <2>3. s2c' \in [Clients -> Seq(Replies)]
    BY <1>3, <2>2 DEF TakeReply, ClientTypeOK
  <2>4. CASE Head(s2c[c]) = "attiva"
    <3>1. Int64(Current(c).len) \in Items
      BY <2>1, CurrentType, EntryType, ItemTypes
    <3>2. c2s' \in [Clients -> Seq(Items)]
      BY <1>3, <2>4, <3>1, SendType DEF TakeReply
    <3>. QED
      BY <1>3, <2>1, <2>3, <2>4, <3>2
      DEF TakeReply, ClientGoto, ClientInv, ClientTypeOK, TodoInv, ClientLabels
  <2>5. CASE Head(s2c[c]) # "attiva"
    <3>1. todo' \in [Clients -> Seq(Entries)]
      BY <1>3, <2>1, <2>5, NextEntryType DEF TakeReply
    <3>. QED
      BY <1>3, <2>1, <2>3, <2>5, <3>1
      DEF TakeReply, ClientGoto, NextEntry, ClientInv, ClientTypeOK, TodoInv, ClientLabels
  <2>. QED
    BY <2>4, <2>5
<1>4. CASE SendBlock(c)
  <2>1. todo[c] # <<>> /\ Current(c) \in Entries
    BY <1>4, CurrentType DEF SendBlock, TodoInv
  <2>2. sent[c] \in Nat /\ sent[c] < Current(c).len /\ Current(c).len <= MaxLen
    BY <1>4, <2>1, EntryType, SizeAssumption DEF SendBlock, ClientTypeOK
  <2>3. Content(c, Current(c))[sent[c] + 1] \in Blocks
    BY <2>1, <2>2, EntryType, SizeAssumption DEF Content, Blocks
  <2>4. c2s' \in [Clients -> Seq(Items)]
    BY <1>4, <2>3, ItemTypes, SendType DEF SendBlock
  <2>5. sent' \in [Clients -> 0..MaxLen]
    BY <1>4, <2>1, <2>2, EntryType, SizeAssumption DEF SendBlock, ClientTypeOK
  <2>. QED
    BY <1>4, <2>4, <2>5 DEF SendBlock, ClientInv, ClientTypeOK, TodoInv
<1>5. CASE EndFile(c)
  <2>1. todo[c] # <<>>
    BY <1>5 DEF EndFile, ClientGoto, TodoInv
  <2>2. todo' \in [Clients -> Seq(Entries)]
    BY <1>5, <2>1, NextEntryType DEF EndFile
  <2>. QED
    BY <1>5, <2>2, SizeAssumption
    DEF EndFile, ClientGoto, NextEntry, ClientInv, ClientTypeOK, TodoInv, ClientLabels
<1>6. CASE EndDir(c)
  BY <1>6 DEF EndDir, ClientGoto, ClientInv, ClientTypeOK, TodoInv, ClientLabels
<1>. QED
  BY <1>1, <1>2, <1>3, <1>4, <1>5, <1>6 DEF ClientStep

LEMMA ClientEndsInv ==
  ASSUME ClientInv, NEW c \in Clients, NEW l \in {"start", "done", "dead"}, ClientEnds(c, l)
  PROVE  /\ cpc' \in [Clients -> ClientLabels]
         /\ todo' \in [Clients -> Seq(Entries)]
         /\ sent' \in [Clients -> 0..MaxLen]
         /\ s2c' \in [Clients -> Seq(Replies)]
         /\ TodoInv'
<1>1. <<>> \in Seq(Entries) /\ <<>> \in Seq(Replies)
  OBVIOUS
<1>. QED
  BY <1>1, SizeAssumption DEF ClientEnds, ClientInv, ClientTypeOK, TodoInv, ClientLabels

LEMMA UserStepInv ==
  ASSUME ClientInv, NEW c \in Clients,
         UserStep(c) \/ ClientDies(c) \/ ClientFails(c) \/ Relaunch(c)
  PROVE  ClientInv'
<1>0. ClientTypeOK /\ TodoInv
  BY DEF ClientInv
<1>. USE <1>0
<1>1. CASE Connect(c)
  BY <1>1 DEF Connect, ClientGoto, ClientInv, ClientTypeOK, TodoInv, ClientLabels
<1>2. CASE ChooseDir(c)
  <2>1. PICK d \in Seq(Entries) : todo' = [todo EXCEPT ![c] = d] /\ Send(c, Int32(NumFilesToSend(d)))
    BY <1>2, DirsAssumption DEF ChooseDir
  <2>2. c2s' \in [Clients -> Seq(Items)]
    BY <2>1, NumFilesType, ItemTypes, SendType
  <2>. QED
    BY <1>2, <2>1, <2>2
    DEF ChooseDir, ClientGoto, ClientInv, ClientTypeOK, TodoInv, ClientLabels
<1>3. CASE Quit(c)
  BY <1>3, ClientEndsInv DEF Quit, ClientInv, ClientTypeOK
<1>4. CASE ClientDies(c)
  <2>1. PICK k \in 0..Len(c2s[c]) : c2s' = [c2s EXCEPT ![c] = SubSeq(@, 1, k)]
    BY <1>4 DEF ClientDies
  <2>2. SubSeq(c2s[c], 1, k) \in Seq(Items)
    BY DEF ClientTypeOK
  <2>3. c2s' \in [Clients -> Seq(Items)]
    BY <2>1, <2>2 DEF ClientTypeOK
  <2>. QED
    BY <1>4, <2>3, ClientEndsInv DEF ClientDies, ClientInv, ClientTypeOK
<1>5. CASE ClientFails(c)
  BY <1>5, ClientEndsInv DEF ClientFails, ClientInv, ClientTypeOK
<1>6. CASE Relaunch(c)
  <2>1. c2s' \in [Clients -> Seq(Items)]
    BY <1>6 DEF Relaunch, ClientTypeOK
  <2>. QED
    BY <1>6, <2>1, ClientEndsInv DEF Relaunch, ClientInv, ClientTypeOK
<1>. QED
  BY <1>1, <1>2, <1>3, <1>4, <1>5, <1>6 DEF UserStep

\* What the server does to the streams keeps them well formed.
LEMMA TakeInv ==
  ASSUME ClientInv, NEW c \in Clients, NEW kind, Take(c, kind), UNCHANGED <<cpc, todo, sent>>,
         s2c' \in [Clients -> Seq(Replies)]
  PROVE  ClientInv'
<1>1. Tail(c2s[c]) \in Seq(Items)
  BY DEF Take, ClientInv, ClientTypeOK
<1>2. c2s' \in [Clients -> Seq(Items)]
  BY <1>1 DEF Take, ClientInv, ClientTypeOK
<1>. QED
  BY <1>2 DEF ClientInv, ClientTypeOK, TodoInv

LEMMA TakenItem ==
  ASSUME ClientInv, NEW c \in Clients, NEW kind, Take(c, kind)
  PROVE  /\ kind \in {"int", "long"} => Taken(c) \in Nat
         /\ kind = "utf" => Taken(c) \in Names
         /\ kind = "block" => Taken(c) \in Blocks
<1>1. Head(c2s[c]) \in Items /\ Head(c2s[c]).kind = kind
  BY DEF Take, ClientInv, ClientTypeOK
<1>. QED
  BY <1>1, TakenTypes DEF Taken

LEMMA AnswerType ==
  ASSUME ClientInv, NEW c \in Clients, NEW r \in Replies, Answer(c, r)
  PROVE  s2c' \in [Clients -> Seq(Replies)]
<1>1. Append(s2c[c], r) \in Seq(Replies)
  BY DEF ClientInv, ClientTypeOK
<1>. QED
  BY <1>1 DEF Answer, ClientInv, ClientTypeOK

-------------------------------------------------------------------------------
(***************************************************************************)
(* Directories: how many files of one are still to be sent.                *)
(***************************************************************************)
\* The entries of the directories, and those of them that are offered.
Listed == UNION {ToSet(d) : d \in Dirs}

Offered == {e \in Listed : Sendable(e)}

LEMMA OfferedType ==
  ASSUME NEW e \in Offered
  PROVE  /\ e \in Entries /\ Sendable(e) /\ e.len \in Nat /\ e.name \in Names
         /\ e.len <= MaxLen /\ Trim[e.name] \in Files
<1>1. PICK d \in Dirs : e \in ToSet(d)
  BY DEF Offered, Listed
<1>2. d \in Seq(Entries)
  BY DirsAssumption
<1>3. PICK i \in 1..Len(d) : e = d[i]
  BY <1>1, <1>2 DEF ToSet
<1>4. e \in Entries
  BY <1>2, <1>3
<1>. QED
  BY <1>4, EntryType, TrimAssumption DEF Offered

LEMMA CountEmpty == NumFilesToSend(<<>>) = 0
<1>1. {i \in DOMAIN <<>> : Sendable(<<>>[i])} = {}
  OBVIOUS
<1>. QED
  BY <1>1, FS_EmptySet DEF NumFilesToSend

\* The second pass counts down, entry by entry, what the first has announced.
LEMMA CountTail ==
  ASSUME NEW d \in Seq(Entries), d # <<>>
  PROVE  NumFilesToSend(d) = NumFilesToSend(Tail(d)) + (IF Sendable(Head(d)) THEN 1 ELSE 0)
<1>. DEFINE n == Len(d)
            D == {i \in DOMAIN d : Sendable(d[i])}
            T == {i \in DOMAIN Tail(d) : Sendable(Tail(d)[i])}
            f == [i \in T |-> i + 1]
<1>1. /\ n \in Nat \ {0} /\ DOMAIN d = 1..n /\ DOMAIN Tail(d) = 1..(n - 1)
      /\ \A i \in 1..(n - 1) : Tail(d)[i] = d[i + 1]
      /\ Head(d) = d[1]
  <2>1. Tail(d) \in Seq(Entries) /\ Len(Tail(d)) = n - 1
    BY HeadTailProperties
  <2>. QED
    BY <2>1, HeadTailProperties, EmptySeq, LenProperties
<1>. HIDE DEF n
<1>2. \A i : i \in T <=> i \in 1..(n - 1) /\ Sendable(d[i + 1])
  BY <1>1
<1>3. \A i : i \in D <=> i \in 1..n /\ Sendable(d[i])
  BY <1>1
<1>. HIDE DEF T, D
<1>4. IsFiniteSet(D) /\ IsFiniteSet(T)
  <2>1. IsFiniteSet(1..n) /\ IsFiniteSet(1..(n - 1))
    BY <1>1, FS_Interval
  <2>2. D \in SUBSET (1..n) /\ T \in SUBSET (1..(n - 1))
    BY <1>2, <1>3
  <2>. QED
    BY <2>1, <2>2, FS_Subset
<1>5. f \in Bijection(T, D \ {1})
  <2>1. \A i \in T : i \in Int /\ i + 1 \in D \ {1}
    BY <1>1, <1>2, <1>3
  <2>2. f \in [T -> D \ {1}]
    BY <2>1
  <2>3. \A i, j \in T : f[i] = f[j] => i = j
    BY <2>1
  <2>4. \A j \in D \ {1} : \E i \in T : f[i] = j
    <3>. SUFFICES ASSUME NEW j \in D \ {1} PROVE \E i \in T : f[i] = j
      OBVIOUS
    <3>1. j - 1 \in T /\ (j - 1) + 1 = j
      BY <1>1, <1>2, <1>3
    <3>. QED
      BY <3>1
  <2>. HIDE DEF f
  <2>. QED
    BY <2>2, <2>3, <2>4, Fun_IsBij
<1>6. Cardinality(D \ {1}) = Cardinality(T)
  <2>1. ExistsBijection(T, D \ {1})
    BY <1>5 DEF ExistsBijection
  <2>. QED
    BY <1>4, <2>1, FS_Bijection
<1>7. Cardinality(D \ {1}) = IF 1 \in D THEN Cardinality(D) - 1 ELSE Cardinality(D)
  BY <1>4, FS_RemoveElement
<1>8. 1 \in D <=> Sendable(Head(d))
  BY <1>1, <1>3
<1>9. Cardinality(D) \in Nat /\ Cardinality(T) \in Nat
  BY <1>4, FS_CardinalityType
<1>10. NumFilesToSend(d) = Cardinality(D) /\ NumFilesToSend(Tail(d)) = Cardinality(T)
  BY DEF NumFilesToSend, D, T
<1>. QED
  BY <1>6, <1>7, <1>8, <1>9, <1>10

-------------------------------------------------------------------------------
(***************************************************************************)
(* The stream of a connection, as the loops of a server will read it: the  *)
(* states that they go through, item by item.                              *)
(***************************************************************************)
\* Between two files: n of them are still announced.
Round(n) == [at |-> IF n > 0 THEN "utf" ELSE "int", left |-> n]

\* At the file of entry e, with k of its blocks behind.
Midway(l, n, e, k) == [at |-> l, left |-> n, entry |-> e, got |-> k]

Filling(n, e, k) == IF k < e.len THEN Midway("data", n, e, k) ELSE Round(n - 1)

\* What a server does behind a name, "reply", is not on the stream.
Reads(c, r, item, q) ==
  \/ r.at = "int" /\ \E n \in Nat : item = Int32(n) /\ q = Round(n)
  \/ r.at = "utf" /\ \E e \in Offered : item = Utf(e.name) /\ q = Midway("reply", r.left, e, 0)
  \/ r.at = "long" /\ item = Int64(r.entry.len) /\ q = Filling(r.left, r.entry, 0)
  \/ /\ r.at = "data"
     /\ item = Block(Content(c, r.entry)[r.got + 1])
     /\ q = Filling(r.left, r.entry, r.got + 1)

AllRead(c, R) == \A t \in R : Reads(c, t[1], t[2], t[3])

\* Reading s leads from r to q.
Run(c, r, s, q) == \E R : AllRead(c, R) /\ Leads(R, r, s, q)

LEMMA RunEmpty ==
  ASSUME NEW c, NEW r, NEW q
  PROVE  Run(c, r, <<>>, q) <=> r = q
<1>1. AllRead(c, {})
  BY DEF AllRead
<1>. QED
  BY <1>1, LeadsEmpty DEF Run

LEMMA RunAppend ==
  ASSUME NEW c, NEW r, NEW s \in Seq(Items), NEW q, Run(c, r, s, q),
         NEW item \in Items, NEW p, Reads(c, q, item, p)
  PROVE  Run(c, r, Append(s, item), p)
<1>1. PICK R : AllRead(c, R) /\ Leads(R, r, s, q)
  BY DEF Run
<1>. DEFINE Q == R \cup {<<q, item, p>>}
<1>2. AllRead(c, Q)
  BY <1>1 DEF AllRead
<1>3. R \subseteq Q /\ <<q, item, p>> \in Q
  OBVIOUS
<1>. HIDE DEF Q
<1>4. Leads(Q, r, Append(s, item), p)
  BY <1>1, <1>3, LeadsMore, LeadsAppend
<1>. QED
  BY <1>2, <1>4 DEF Run

LEMMA RunTail ==
  ASSUME NEW c, NEW r, NEW s \in Seq(Items), s # <<>>, NEW q, Run(c, r, s, q)
  PROVE  \E p : Reads(c, r, Head(s), p) /\ Run(c, p, Tail(s), q)
<1>1. PICK R : AllRead(c, R) /\ Leads(R, r, s, q)
  BY DEF Run
<1>2. PICK p : <<r, Head(s), p>> \in R /\ Leads(R, p, Tail(s), q)
  BY <1>1, LeadsTail
<1>3. PICK t \in R : t = <<r, Head(s), p>>
  BY <1>2
<1>4. Reads(c, r, Head(s), p)
  BY <1>1, <1>3 DEF AllRead
<1>. QED
  BY <1>1, <1>2, <1>4 DEF Run

LEMMA RunPrefix ==
  ASSUME NEW c, NEW r, NEW s \in Seq(Items), NEW q, Run(c, r, s, q), NEW k \in 0..Len(s)
  PROVE  \E p : Run(c, r, SubSeq(s, 1, k), p)
<1>1. PICK R : AllRead(c, R) /\ Leads(R, r, s, q)
  BY DEF Run
<1>2. PICK p : Leads(R, r, SubSeq(s, 1, k), p)
  BY <1>1, LeadsPrefix
<1>. QED
  BY <1>1, <1>2 DEF Run

-------------------------------------------------------------------------------
(***************************************************************************)
(* A connection: where the stream ends is where the client is.             *)
(***************************************************************************)
Announced(c) == NumFilesToSend(todo[c])

\* The answer to a name is on its way, or the server has not come to the name.
Fits(c, q) ==
  /\ cpc[c] \in {"prompt", "send", "stream"} => s2c[c] = <<>>
  /\ cpc[c] = "prompt" => q = Round(0)
  /\ cpc[c] = "send" => q = Round(Announced(c))
  /\ cpc[c] = "await" =>
       \/ s2c[c] = <<>> /\ q = Midway("reply", Announced(c), Current(c), 0)
       \/ s2c[c] = <<"attiva">> /\ q = Midway("long", Announced(c), Current(c), 0)
       \/ Tail(s2c[c]) = <<>> /\ Head(s2c[c]) # "attiva" /\ s2c[c] # <<>> /\ q = Round(Announced(c) - 1)
  /\ cpc[c] = "stream" => q = Filling(Announced(c), Current(c), sent[c])

\* A server whose loops are at r is in step with client c.
Conn(c, r) == \E q : Run(c, r, c2s[c], q) /\ Fits(c, q)

StreamInv ==
  \A c \in Clients :
    /\ \A i \in DOMAIN todo[c] : todo[c][i] \in Listed
    /\ cpc[c] \in {"await", "stream"} => Sendable(Current(c))
    /\ IF cpc[c] = "stream" THEN sent[c] <= Current(c).len ELSE sent[c] = 0
    /\ cpc[c] = "start" => c2s[c] = <<>>

LEMMA InitStream == ClientInit => StreamInv
BY DEF ClientInit, StreamInv

LEMMA ListedCurrent ==
  ASSUME ClientInv, StreamInv, NEW c \in Clients, todo[c] # <<>>
  PROVE  /\ Current(c) \in Listed /\ Current(c) \in Entries
         /\ Sendable(Current(c)) => Current(c) \in Offered
         /\ Tail(todo[c]) \in Seq(Entries)
         /\ \A i \in DOMAIN Tail(todo[c]) : Tail(todo[c])[i] \in Listed
<1>1. todo[c] \in Seq(Entries)
  BY DEF ClientInv, ClientTypeOK
<1>2. Len(todo[c]) \in Nat \ {0} /\ DOMAIN todo[c] = 1..Len(todo[c])
  BY <1>1, EmptySeq, LenProperties
<1>3. \A i \in 1..Len(todo[c]) : todo[c][i] \in Listed
  BY <1>2 DEF StreamInv
<1>4. /\ Tail(todo[c]) \in Seq(Entries)
      /\ DOMAIN Tail(todo[c]) = 1..(Len(todo[c]) - 1)
      /\ \A i \in 1..(Len(todo[c]) - 1) : Tail(todo[c])[i] = todo[c][i + 1]
  <2>1. Tail(todo[c]) \in Seq(Entries) /\ Len(Tail(todo[c])) = Len(todo[c]) - 1
    BY <1>1, HeadTailProperties
  <2>. QED
    BY <1>1, <2>1, HeadTailProperties, LenProperties
<1>5. Head(todo[c]) = todo[c][1] /\ Head(todo[c]) \in Entries
  BY <1>1, <1>2
<1>6. \A i \in 1..(Len(todo[c]) - 1) : i + 1 \in 1..Len(todo[c])
  BY <1>2
<1>7. Head(todo[c]) \in Listed
  BY <1>2, <1>3, <1>5
<1>. QED
  BY <1>3, <1>4, <1>5, <1>6, <1>7 DEF Current, Offered

\* A client leaves the connections of the others alone.
Apart(c) ==
  \A d \in Clients \ {c} :
    /\ cpc'[d] = cpc[d] /\ todo'[d] = todo[d] /\ sent'[d] = sent[d]
    /\ c2s'[d] = c2s[d] /\ s2c'[d] = s2c[d]

LEMMA ClientApart ==
  ASSUME ClientTypeOK, NEW c \in Clients,
         \/ ClientStep(c) \/ UserStep(c) \/ ClientDies(c) \/ ClientFails(c) \/ Relaunch(c)
         \/ \E l : ClientEnds(c, l) /\ UNCHANGED c2s
  PROVE  Apart(c)
<1>. USE DEF ClientTypeOK, Apart
<1>1. ASSUME ClientStep(c) PROVE Apart(c)
  BY <1>1 DEF ClientStep, SkipEntry, SendName, TakeReply, SendBlock, EndFile, EndDir, Send,
              ClientGoto, NextEntry
<1>2. ASSUME UserStep(c) PROVE Apart(c)
  BY <1>2 DEF UserStep, Connect, ChooseDir, Quit, ClientEnds, ClientGoto, Send
<1>3. ASSUME ClientDies(c) \/ ClientFails(c) \/ Relaunch(c) PROVE Apart(c)
  BY <1>3 DEF ClientDies, ClientFails, Relaunch, ClientEnds
<1>4. ASSUME \E l : ClientEnds(c, l) /\ UNCHANGED c2s PROVE Apart(c)
  BY <1>4 DEF ClientEnds
<1>. QED
  BY <1>1, <1>2, <1>3, <1>4

LEMMA ConnFrame ==
  ASSUME NEW c, NEW r, Conn(c, r),
         cpc'[c] = cpc[c], todo'[c] = todo[c], sent'[c] = sent[c], c2s'[c] = c2s[c], s2c'[c] = s2c[c]
  PROVE  Conn(c, r)'
BY DEF Conn, Fits, Announced, Current

LEMMA StreamFrame ==
  ASSUME StreamInv, NEW c \in Clients, Apart(c),
         \A i \in DOMAIN todo'[c] : todo'[c][i] \in Listed,
         cpc'[c] \in {"await", "stream"} => Sendable(Current(c)'),
         IF cpc'[c] = "stream" THEN sent'[c] <= Current(c)'.len ELSE sent'[c] = 0,
         cpc'[c] = "start" => c2s'[c] = <<>>
  PROVE  StreamInv'
BY DEF StreamInv, Apart, Current

\* What a client sends is what the server's loops are about to read.
LEMMA ClientStepConn ==
  ASSUME ClientInv, StreamInv, NEW c \in Clients, ClientStep(c)
  PROVE  /\ StreamInv'
         /\ \A r : Conn(c, r) => Conn(c, r)'
<1>1. ClientTypeOK /\ TodoInv /\ Apart(c)
  BY ClientApart DEF ClientInv
<1>2. /\ \A i \in DOMAIN todo[c] : todo[c][i] \in Listed
      /\ cpc[c] \in {"await", "stream"} => Sendable(Current(c))
      /\ IF cpc[c] = "stream" THEN sent[c] <= Current(c).len ELSE sent[c] = 0
      /\ todo[c] \in Seq(Entries) /\ c2s[c] \in Seq(Items) /\ s2c[c] \in Seq(Replies)
      /\ sent[c] \in Nat
  BY <1>1, SizeAssumption DEF StreamInv, ClientTypeOK
<1>3. ASSUME todo[c] # <<>>
      PROVE  /\ Current(c) \in Entries /\ Current(c).len \in Nat
             /\ Sendable(Current(c)) => Current(c) \in Offered
             /\ \A i \in DOMAIN Tail(todo[c]) : Tail(todo[c])[i] \in Listed
             /\ Announced(c) = NumFilesToSend(Tail(todo[c])) + (IF Sendable(Current(c)) THEN 1 ELSE 0)
             /\ NumFilesToSend(Tail(todo[c])) \in Nat
  <2>1. /\ Current(c) \in Entries
        /\ Sendable(Current(c)) => Current(c) \in Offered
        /\ Tail(todo[c]) \in Seq(Entries)
        /\ \A i \in DOMAIN Tail(todo[c]) : Tail(todo[c])[i] \in Listed
    BY <1>3, ListedCurrent
  <2>2. Announced(c) = NumFilesToSend(Tail(todo[c])) + (IF Sendable(Current(c)) THEN 1 ELSE 0)
    BY <1>2, <1>3, CountTail DEF Announced, Current
  <2>. QED
    BY <2>1, <2>2, EntryType, NumFilesType
<1>4. CASE SkipEntry(c)
  <2>1. /\ cpc[c] = "send" /\ todo[c] # <<>> /\ ~Sendable(Current(c))
        /\ todo'[c] = Tail(todo[c])
        /\ UNCHANGED <<cpc, sent, c2s, s2c>>
    BY <1>1, <1>4 DEF SkipEntry, NextEntry, ClientTypeOK
  <2>2. StreamInv'
    BY <1>1, <1>2, <1>3, <2>1, StreamFrame
  <2>3. Announced(c)' = Announced(c)
    BY <1>3, <2>1 DEF Announced
  <2>. QED
    BY <2>1, <2>2, <2>3 DEF Conn, Fits
<1>5. CASE SendName(c)
  <2>. DEFINE item == Utf(Current(c).name)
  <2>. PICK q : q = Midway("reply", Announced(c), Current(c), 0)
    OBVIOUS
  <2>1. /\ cpc[c] = "send" /\ todo[c] # <<>> /\ Sendable(Current(c)) /\ cpc'[c] = "await"
        /\ c2s'[c] = Append(c2s[c], item)
        /\ UNCHANGED <<todo, sent, s2c>>
    BY <1>1, <1>5 DEF SendName, ClientGoto, Send, ClientTypeOK
  <2>2. item \in Items /\ Current(c) \in Offered
    BY <1>3, <2>1, EntryType, ItemTypes
  <2>3. Announced(c) > 0
    BY <1>3, <2>1
  <2>4. StreamInv'
    BY <1>1, <1>2, <2>1, StreamFrame DEF Current
  <2>5. Reads(c, Round(Announced(c)), item, q)
    BY <2>2, <2>3 DEF Reads, Round
  <2>6. ASSUME NEW r, Conn(c, r) PROVE Conn(c, r)'
    <3>1. Run(c, r, c2s[c], Round(Announced(c))) /\ s2c[c] = <<>>
      BY <2>1, <2>6 DEF Conn, Fits
    <3>2. Run(c, r, c2s'[c], q)
      BY <1>2, <2>1, <2>2, <2>5, <3>1, RunAppend
    <3>3. Fits(c, q)'
      BY <2>1, <3>1 DEF Fits, Announced, Current
    <3>. QED
      BY <3>2, <3>3 DEF Conn
  <2>. QED
    BY <2>4, <2>6
<1>6. CASE TakeReply(c)
  <2>1. /\ cpc[c] = "await" /\ s2c[c] # <<>> /\ todo[c] # <<>>
        /\ s2c'[c] = Tail(s2c[c]) /\ UNCHANGED sent
        /\ Sendable(Current(c)) /\ sent[c] = 0
    BY <1>1, <1>2, <1>6 DEF TakeReply, ClientGoto, ClientTypeOK, TodoInv
  <2>2. ASSUME NEW r, Conn(c, r)
        PROVE  \/ /\ s2c[c] = <<"attiva">>
                  /\ Run(c, r, c2s[c], Midway("long", Announced(c), Current(c), 0))
               \/ /\ Head(s2c[c]) # "attiva" /\ Tail(s2c[c]) = <<>>
                  /\ Run(c, r, c2s[c], Round(Announced(c) - 1))
    BY <2>1, <2>2 DEF Conn, Fits
  <2>3. CASE Head(s2c[c]) = "attiva"
    <3>. DEFINE item == Int64(Current(c).len)
    <3>. PICK q : q = Filling(Announced(c), Current(c), 0)
      OBVIOUS
    <3>1. /\ cpc'[c] = "stream" /\ c2s'[c] = Append(c2s[c], item) /\ UNCHANGED todo
      BY <1>1, <1>6, <2>3 DEF TakeReply, ClientGoto, Send, ClientTypeOK
    <3>2. item \in Items /\ Current(c).len \in Nat
      BY <1>3, <2>1, ItemTypes
    <3>3. StreamInv'
      BY <1>1, <1>2, <2>1, <3>1, <3>2, StreamFrame DEF Current
    <3>4. Reads(c, Midway("long", Announced(c), Current(c), 0), item, q)
      BY DEF Reads, Midway
    <3>5. ASSUME NEW r, Conn(c, r) PROVE Conn(c, r)'
      <4>1. s2c[c] = <<"attiva">> /\ Run(c, r, c2s[c], Midway("long", Announced(c), Current(c), 0))
        BY <2>2, <2>3, <3>5
      <4>2. Run(c, r, c2s'[c], q)
        BY <1>2, <3>1, <3>2, <3>4, <4>1, RunAppend
      <4>3. s2c'[c] = <<>>
        BY <2>1, <4>1
      <4>4. Fits(c, q)'
        BY <2>1, <3>1, <4>3 DEF Fits, Announced, Current
      <4>. QED
        BY <4>2, <4>4 DEF Conn
    <3>. QED
      BY <3>3, <3>5
  <2>4. CASE Head(s2c[c]) # "attiva"
    <3>1. /\ cpc'[c] = "send" /\ todo'[c] = Tail(todo[c]) /\ UNCHANGED c2s
      BY <1>1, <1>6, <2>4 DEF TakeReply, ClientGoto, NextEntry, ClientTypeOK
    <3>2. StreamInv'
      BY <1>1, <1>2, <1>3, <2>1, <3>1, StreamFrame
    <3>3. Announced(c)' = Announced(c) - 1
      BY <1>3, <2>1, <3>1 DEF Announced
    <3>4. ASSUME NEW r, Conn(c, r) PROVE Conn(c, r)'
      <4>. PICK q : q = Round(Announced(c) - 1)
        OBVIOUS
      <4>1. Tail(s2c[c]) = <<>> /\ Run(c, r, c2s[c], q)
        BY <2>2, <2>4, <3>4
      <4>2. Fits(c, q)'
        BY <2>1, <3>1, <3>3, <4>1 DEF Fits
      <4>. QED
        BY <3>1, <4>1, <4>2 DEF Conn
    <3>. QED
      BY <3>2, <3>4
  <2>. QED
    BY <2>3, <2>4
<1>7. CASE SendBlock(c)
  <2>. DEFINE item == Block(Content(c, Current(c))[sent[c] + 1])
  <2>. PICK q : q = Filling(Announced(c), Current(c), sent[c] + 1)
    OBVIOUS
  <2>1. /\ cpc[c] = "stream" /\ sent[c] < Current(c).len /\ todo[c] # <<>>
        /\ c2s'[c] = Append(c2s[c], item) /\ sent'[c] = sent[c] + 1
        /\ UNCHANGED <<cpc, todo, s2c>>
    BY <1>1, <1>7 DEF SendBlock, Send, ClientTypeOK, TodoInv
  <2>2. item \in Items
    <3>1. Current(c) \in Entries /\ sent[c] + 1 \in 1..Current(c).len /\ sent[c] + 1 \in 1..MaxLen
      BY <1>2, <1>3, <2>1, EntryType, SizeAssumption
    <3>2. Content(c, Current(c))[sent[c] + 1] \in Blocks
      BY <3>1 DEF Content, Blocks
    <3>. QED
      BY <3>2, ItemTypes
  <2>3. StreamInv'
    <3>1. Current(c)' = Current(c) /\ Sendable(Current(c)) /\ sent'[c] <= Current(c).len
      BY <1>2, <1>3, <2>1 DEF Current
    <3>. QED
      BY <1>1, <1>2, <2>1, <3>1, StreamFrame
  <2>4. Reads(c, Filling(Announced(c), Current(c), sent[c]), item, q)
    BY <2>1 DEF Reads, Filling, Midway
  <2>5. ASSUME NEW r, Conn(c, r) PROVE Conn(c, r)'
    <3>1. Run(c, r, c2s[c], Filling(Announced(c), Current(c), sent[c])) /\ s2c[c] = <<>>
      BY <2>1, <2>5 DEF Conn, Fits
    <3>2. Run(c, r, c2s'[c], q)
      BY <1>2, <2>1, <2>2, <2>4, <3>1, RunAppend
    <3>3. Fits(c, q)'
      BY <2>1, <3>1 DEF Fits, Announced, Current
    <3>. QED
      BY <3>2, <3>3 DEF Conn
  <2>. QED
    BY <2>3, <2>5
<1>8. CASE EndFile(c)
  <2>1. /\ cpc[c] = "stream" /\ cpc'[c] = "send" /\ sent[c] = Current(c).len /\ todo[c] # <<>>
        /\ sent'[c] = 0 /\ todo'[c] = Tail(todo[c])
        /\ UNCHANGED <<c2s, s2c>>
    BY <1>1, <1>8 DEF EndFile, ClientGoto, NextEntry, ClientTypeOK, TodoInv
  <2>2. StreamInv'
    BY <1>1, <1>2, <1>3, <2>1, StreamFrame
  <2>3. Announced(c)' = Announced(c) - 1
    BY <1>2, <1>3, <2>1 DEF Announced
  <2>4. Filling(Announced(c), Current(c), sent[c]) = Round(Announced(c) - 1)
    BY <1>3, <2>1 DEF Filling
  <2>5. ASSUME NEW r, Conn(c, r) PROVE Conn(c, r)'
    <3>. PICK q : q = Round(Announced(c) - 1)
      OBVIOUS
    <3>1. Run(c, r, c2s[c], q) /\ s2c[c] = <<>>
      BY <2>1, <2>4, <2>5 DEF Conn, Fits
    <3>2. Fits(c, q)'
      BY <2>1, <2>3, <3>1 DEF Fits
    <3>. QED
      BY <2>1, <3>1, <3>2 DEF Conn
  <2>. QED
    BY <2>2, <2>5
<1>9. CASE EndDir(c)
  <2>1. /\ cpc[c] = "send" /\ cpc'[c] = "prompt" /\ todo[c] = <<>>
        /\ UNCHANGED <<todo, sent, c2s, s2c>>
    BY <1>1, <1>9 DEF EndDir, ClientGoto, ClientTypeOK
  <2>2. StreamInv'
    BY <1>1, <1>2, <2>1, StreamFrame
  <2>3. Announced(c) = 0
    BY <2>1, CountEmpty DEF Announced
  <2>. QED
    BY <2>1, <2>2, <2>3 DEF Conn, Fits
<1>. QED
  BY <1>4, <1>5, <1>6, <1>7, <1>8, <1>9 DEF ClientStep

LEMMA ListedDir ==
  ASSUME NEW d \in Dirs
  PROVE  /\ d \in Seq(Entries) /\ NumFilesToSend(d) \in Nat
         /\ \A i \in DOMAIN d : d[i] \in Listed
<1>1. d \in Seq(Entries)
  BY DirsAssumption
<1>2. \A i \in DOMAIN d : d[i] \in ToSet(d)
  BY DEF ToSet
<1>. QED
  BY <1>1, <1>2, NumFilesType DEF Listed

\* A connection that begins is in step with a server that waits for a count.
LEMMA ConnectConn ==
  ASSUME ClientInv, StreamInv, NEW c \in Clients, Connect(c), s2c[c] = <<>>
  PROVE  StreamInv' /\ Conn(c, Round(0))'
<1>1. ClientTypeOK /\ Apart(c)
  BY ClientApart DEF ClientInv, UserStep
<1>2. /\ cpc[c] = "start" /\ cpc'[c] = "prompt" /\ c2s[c] = <<>> /\ sent[c] = 0
      /\ UNCHANGED <<todo, sent, c2s, s2c>>
      /\ \A i \in DOMAIN todo[c] : todo[c][i] \in Listed
  BY <1>1 DEF Connect, ClientGoto, ClientTypeOK, StreamInv
<1>3. StreamInv'
  BY <1>1, <1>2, StreamFrame
<1>4. Run(c, Round(0), c2s'[c], Round(0))
  BY <1>2, RunEmpty
<1>5. Fits(c, Round(0))'
  BY <1>2 DEF Fits
<1>. QED
  BY <1>3, <1>4, <1>5 DEF Conn

LEMMA ClientEndsConn ==
  ASSUME ClientInv, StreamInv, NEW c \in Clients, NEW l \in {"start", "done", "dead"},
         ClientEnds(c, l), c2s'[c] = c2s[c] \/ \E k \in 0..Len(c2s[c]) : c2s'[c] = SubSeq(c2s[c], 1, k),
         l = "start" => c2s'[c] = <<>>, Apart(c)
  PROVE  /\ StreamInv'
         /\ \A r : Conn(c, r) => Conn(c, r)'
<1>1. /\ ClientTypeOK /\ c2s[c] \in Seq(Items)
      /\ cpc'[c] = l /\ todo'[c] = <<>> /\ sent'[c] = 0 /\ s2c'[c] = <<>>
  BY DEF ClientInv, ClientTypeOK, ClientEnds
<1>2. StreamInv'
  BY <1>1, StreamFrame
<1>3. ASSUME NEW r, Conn(c, r) PROVE Conn(c, r)'
  <2>1. PICK q : Run(c, r, c2s[c], q)
    BY <1>3 DEF Conn
  <2>2. PICK p : Run(c, r, c2s'[c], p)
    BY <1>1, <2>1, RunPrefix
  <2>3. Fits(c, p)'
    BY <1>1 DEF Fits
  <2>. QED
    BY <2>2, <2>3 DEF Conn
<1>. QED
  BY <1>2, <1>3

\* What the user decides, or a crash, keeps a connection in step.
LEMMA UserStepConn ==
  ASSUME ClientInv, StreamInv, NEW c \in Clients,
         ChooseDir(c) \/ Quit(c) \/ ClientDies(c) \/ ClientFails(c)
  PROVE  /\ StreamInv'
         /\ \A r : Conn(c, r) => Conn(c, r)'
<1>1. ClientTypeOK /\ Apart(c) /\ c2s[c] \in Seq(Items)
  BY ClientApart DEF ClientInv, ClientTypeOK, UserStep
<1>2. CASE ChooseDir(c)
  <2>1. PICK d \in Dirs : todo' = [todo EXCEPT ![c] = d] /\ Send(c, Int32(NumFilesToSend(d)))
    BY <1>2 DEF ChooseDir
  <2>. DEFINE item == Int32(NumFilesToSend(d))
  <2>2. /\ cpc[c] = "prompt" /\ cpc'[c] = "send" /\ todo'[c] = d
        /\ c2s'[c] = Append(c2s[c], item) /\ sent[c] = 0
        /\ UNCHANGED <<sent, s2c>>
    BY <1>1, <1>2, <2>1 DEF ChooseDir, ClientGoto, Send, ClientTypeOK, StreamInv
  <2>3. StreamInv'
    BY <1>1, <2>2, ListedDir, StreamFrame
  <2>4. item \in Items
    BY ListedDir, ItemTypes
  <2>. PICK q : q = Round(NumFilesToSend(d))
    OBVIOUS
  <2>5. Reads(c, Round(0), item, q)
    BY ListedDir DEF Reads, Round
  <2>6. ASSUME NEW r, Conn(c, r) PROVE Conn(c, r)'
    <3>1. Run(c, r, c2s[c], Round(0)) /\ s2c[c] = <<>>
      BY <2>2, <2>6 DEF Conn, Fits
    <3>2. Run(c, r, c2s'[c], q)
      BY <1>1, <2>2, <2>4, <2>5, <3>1, RunAppend
    <3>3. Fits(c, q)'
      BY <2>2, <3>1 DEF Fits, Announced
    <3>. QED
      BY <3>2, <3>3 DEF Conn
  <2>. QED
    BY <2>3, <2>6
<1>3. CASE Quit(c)
  BY <1>1, <1>3, ClientEndsConn DEF Quit
<1>4. CASE ClientDies(c)
  <2>1. PICK k \in 0..Len(c2s[c]) : c2s' = [c2s EXCEPT ![c] = SubSeq(@, 1, k)]
    BY <1>4 DEF ClientDies
  <2>2. c2s'[c] = SubSeq(c2s[c], 1, k)
    BY <1>1, <2>1 DEF ClientTypeOK
  <2>. QED
    BY <1>1, <1>4, <2>2, ClientEndsConn DEF ClientDies
<1>5. CASE ClientFails(c)
  BY <1>1, <1>5, ClientEndsConn DEF ClientFails
<1>. QED
  BY <1>2, <1>3, <1>4, <1>5

\* A client that is run again has a connection with nothing on it.
LEMMA RelaunchConn ==
  ASSUME ClientInv, StreamInv, NEW c \in Clients, Relaunch(c)
  PROVE  /\ StreamInv' /\ c2s'[c] = <<>> /\ s2c'[c] = <<>>
         /\ \A r : Conn(c, r)'
<1>1. ClientTypeOK /\ Apart(c)
  BY ClientApart DEF ClientInv
<1>2. /\ cpc'[c] = "start" /\ todo'[c] = <<>> /\ sent'[c] = 0 /\ c2s'[c] = <<>> /\ s2c'[c] = <<>>
  BY <1>1 DEF Relaunch, ClientEnds, ClientTypeOK
<1>3. StreamInv'
  BY <1>1, <1>2, StreamFrame
<1>4. ASSUME NEW r PROVE Conn(c, r)'
  <2>1. Run(c, r, c2s'[c], r)
    BY <1>2, RunEmpty
  <2>2. Fits(c, r)'
    BY <1>2 DEF Fits
  <2>. QED
    BY <2>1, <2>2 DEF Conn
<1>. QED
  BY <1>2, <1>3, <1>4

-------------------------------------------------------------------------------
(***************************************************************************)
(* The reads of a server.                                                  *)
(***************************************************************************)
\* A read of the server finds an item of the kind that its loops are at.
LEMMA HeadConn ==
  ASSUME ClientInv, NEW c \in Clients, c2s[c] # <<>>, NEW r, Conn(c, r)
  PROVE  \E q : Reads(c, r, Head(c2s[c]), q)
<1>1. c2s[c] \in Seq(Items)
  BY DEF ClientInv, ClientTypeOK
<1>. QED
  BY <1>1, RunTail DEF Conn

LEMMA ReadKinds ==
  ASSUME NEW c, NEW r, NEW item, NEW q, Reads(c, r, item, q)
  PROVE  /\ r.at = "int" => item.kind = "int"
         /\ r.at = "utf" => item.kind = "utf"
         /\ r.at = "long" => item.kind = "long"
         /\ r.at = "data" => item.kind = "block"
BY DEF Reads, Int32, Int64, Utf, Block

\* It goes on to where that item leads.
LEMMA TakeConn ==
  ASSUME ClientInv, StreamInv, NEW c \in Clients, NEW kind, Take(c, kind),
         UNCHANGED <<cpc, todo, sent, s2c>>
  PROVE  /\ StreamInv' /\ Apart(c)
         /\ \A r : Conn(c, r) => \E q : Reads(c, r, Head(c2s[c]), q) /\ Conn(c, q)'
<1>1. /\ c2s[c] \in Seq(Items) /\ c2s[c] # <<>> /\ c2s'[c] = Tail(c2s[c])
      /\ Apart(c)
  BY DEF Take, ClientInv, ClientTypeOK, Apart
<1>2. StreamInv'
  BY <1>1 DEF StreamInv, Apart, Current
<1>3. ASSUME NEW r, Conn(c, r)
      PROVE  \E q : Reads(c, r, Head(c2s[c]), q) /\ Conn(c, q)'
  <2>1. PICK p : Run(c, r, c2s[c], p) /\ Fits(c, p)
    BY <1>3 DEF Conn
  <2>2. PICK q : Reads(c, r, Head(c2s[c]), q) /\ Run(c, q, c2s'[c], p)
    BY <1>1, <2>1, RunTail
  <2>3. Fits(c, p)'
    BY <2>1 DEF Fits, Announced, Current
  <2>. QED
    BY <2>2, <2>3 DEF Conn
<1>. QED
  BY <1>1, <1>2, <1>3

\* Nothing is on the stream behind a name: the client waits for the answer, and
\* takes it for what the server means.
LEMMA AnswerConn ==
  ASSUME ClientInv, StreamInv, NEW c \in Clients, cpc[c] # "start",
         NEW n \in Nat \ {0}, Conn(c, Round(n)), Take(c, "utf"),
         NEW reply \in Replies, Answer(c, reply), UNCHANGED <<cpc, todo, sent>>
  PROVE  /\ StreamInv' /\ Apart(c)
         /\ \E e \in Offered :
              /\ Taken(c) = e.name
              /\ reply = "attiva" => Conn(c, Midway("long", n, e, 0))'
              /\ reply # "attiva" => Conn(c, Round(n - 1))'
<1>1. /\ c2s[c] \in Seq(Items) /\ c2s[c] # <<>> /\ c2s'[c] = Tail(c2s[c]) /\ Tail(c2s[c]) \in Seq(Items)
      /\ s2c[c] \in Seq(Replies) /\ s2c'[c] = Append(s2c[c], reply)
      /\ Apart(c)
  BY DEF Take, Answer, ClientInv, ClientTypeOK, Apart
<1>2. StreamInv'
  BY <1>1 DEF StreamInv, Apart, Current
<1>3. PICK p : Run(c, Round(n), c2s[c], p) /\ Fits(c, p)
  BY DEF Conn
<1>4. PICK q : Reads(c, Round(n), Head(c2s[c]), q) /\ Run(c, q, Tail(c2s[c]), p)
  BY <1>1, <1>3, RunTail
<1>5. PICK e \in Offered : Head(c2s[c]) = Utf(e.name) /\ q = Midway("reply", n, e, 0)
  BY <1>4 DEF Reads, Round
<1>6. c2s'[c] = <<>> /\ p = q
  <2>1. \A i, t : ~Reads(c, q, i, t)
    BY <1>5 DEF Reads, Midway
  <2>2. Tail(c2s[c]) = <<>>
    BY <1>1, <1>4, <2>1, RunTail
  <2>3. Run(c, q, <<>>, p)
    BY <1>4, <2>2
  <2>4. p = q
    BY <2>3, RunEmpty
  <2>. QED
    BY <1>1, <2>2, <2>4
<1>7. cpc[c] \in {"done", "dead"} \/ (cpc[c] = "await" /\ s2c[c] = <<>> /\ Announced(c) = n /\ Current(c) = e)
  <2>1. p.at = "reply" /\ p.left = n /\ p.entry = e
    BY <1>5, <1>6 DEF Midway
  <2>2. \A m, f, k : Round(m).at # "reply" /\ Filling(m, f, k).at # "reply" /\ Midway("long", m, f, k).at # "reply"
    BY DEF Round, Filling, Midway
  <2>3. cpc[c] \in {"prompt", "send", "await", "stream", "done", "dead"}
    BY DEF ClientInv, ClientTypeOK, ClientLabels
  <2>4. cpc[c] \notin {"prompt", "send", "stream"}
    BY <1>3, <2>1, <2>2 DEF Fits
  <2>5. CASE cpc[c] = "await"
    <3>1. s2c[c] = <<>> /\ p = Midway("reply", Announced(c), Current(c), 0)
      BY <1>3, <2>1, <2>2, <2>5 DEF Fits
    <3>2. Announced(c) = p.left /\ Current(c) = p.entry
      BY <3>1 DEF Midway
    <3>. QED
      BY <2>1, <2>5, <3>1, <3>2
  <2>. QED
    BY <2>3, <2>4, <2>5
<1>8. ASSUME NEW t, IF reply = "attiva" THEN t = Midway("long", n, e, 0) ELSE t = Round(n - 1)
      PROVE  Conn(c, t)'
  <2>1. Run(c, t, c2s'[c], t)
    BY <1>6, RunEmpty
  <2>2. Fits(c, t)'
    <3>1. CASE cpc[c] \in {"done", "dead"}
      BY <3>1 DEF Fits
    <3>2. CASE cpc[c] = "await" /\ s2c[c] = <<>> /\ Announced(c) = n /\ Current(c) = e
      <4>1. s2c'[c] = <<reply>> /\ Head(<<reply>>) = reply /\ Tail(<<reply>>) = <<>> /\ <<reply>> # <<>>
        BY <1>1, <3>2
      <4>2. cpc'[c] = "await" /\ Announced(c)' = n /\ Current(c)' = e
        BY <3>2 DEF Announced, Current
      <4>. QED
        BY <1>8, <4>1, <4>2 DEF Fits
    <3>. QED
      BY <1>7, <3>1, <3>2
  <2>. QED
    BY <2>1, <2>2 DEF Conn
<1>9. Taken(c) = e.name
  BY <1>5 DEF Taken, Utf
<1>. QED
  BY <1>1, <1>2, <1>8, <1>9

-------------------------------------------------------------------------------
(***************************************************************************)
(* MultiplePut: a handler for every client.                                *)
(***************************************************************************)
\* A handler that is to receive something has not come to the end of its loop,
\* and one that has created a file knows it.
LoopInv ==
  \A c \in Clients :
    /\ hpc[c] \in {"utf", "long", "data"} => left[c] > 0
    /\ Writing(c) => file[c] \in Files /\ fs[file[c]] # Absent

IInv == TypeOK /\ TodoInv /\ LoopInv /\ OneWriterPerFile

\* The types of what belongs to the handlers.
HandlerTypeOK ==
  /\ hpc \in [Clients -> HandlerLabels]
  /\ left \in [Clients -> Nat]
  /\ file \in [Clients -> Files \cup {Absent}]
  /\ length \in [Clients -> Nat]
  /\ got \in [Clients -> Nat]
  /\ fs \in [Files -> Seq(Blocks) \cup {Absent}]
  /\ cut \subseteq Files

HandlerInv == HandlerTypeOK /\ LoopInv /\ OneWriterPerFile

LEMMA IInvParts == IInv <=> (ClientInv /\ HandlerInv)
BY DEF IInv, ClientInv, HandlerInv, TypeOK, HandlerTypeOK

LEMMA InitIInv == Init => IInv
<1>. SUFFICES ASSUME Init PROVE IInv
  OBVIOUS
<1>1. ClientInv
  BY ClientInitInv DEF Init
<1>2. HandlerInv
  BY DEF Init, HandlerInv, HandlerTypeOK, HandlerLabels, LoopInv, OneWriterPerFile, Writing
<1>. QED
  BY <1>1, <1>2, IInvParts

\* A file with nothing in it is not a missing one.
LEMMA EmptyFile == <<>> \in Seq(Blocks) /\ <<>> # Absent
<1>1. <<>> \in Seq(Blocks)
  OBVIOUS
<1>. QED
  BY <1>1, NobodyAssumption

\* Steps that leave the handlers alone.
LEMMA HandlersUnchanged ==
  ASSUME HandlerInv, UNCHANGED <<handlerVars, fs, cut>>
  PROVE  HandlerInv'
BY DEF handlerVars, HandlerInv, HandlerTypeOK, LoopInv, OneWriterPerFile, Writing

\* Where the loop goes after a file.
LEMMA NextFileType ==
  ASSUME HandlerInv, NEW c \in Clients, NEW from \in {"utf", "long", "data"}, NextFile(c, from)
  PROVE  /\ hpc' \in [Clients -> HandlerLabels]
         /\ left' \in [Clients -> Nat]
         /\ hpc'[c] \in {"utf", "int"} /\ (hpc'[c] = "utf" => left'[c] > 0)
         /\ \A d \in Clients \ {c} : hpc'[d] = hpc[d] /\ left'[d] = left[d]
<1>1. left[c] \in Nat /\ left[c] > 0
  BY DEF HandlerInv, HandlerTypeOK, LoopInv, NextFile, Goto
<1>2. left' \in [Clients -> Nat]
  BY <1>1 DEF NextFile, HandlerInv, HandlerTypeOK
<1>. QED
  BY <1>1, <1>2 DEF NextFile, Goto, HandlerInv, HandlerTypeOK, HandlerLabels

\* A file is finished: it has no writer any more.
LEMMA FinishFileInv ==
  ASSUME HandlerInv, NEW c \in Clients, NEW from \in {"long", "data"}, FinishFile(c, from),
         fs' \in [Files -> Seq(Blocks) \cup {Absent}],
         \A f \in Files : fs[f] # Absent => fs'[f] # Absent,
         UNCHANGED cut
  PROVE  HandlerInv'
<1>1. /\ hpc' \in [Clients -> HandlerLabels]
      /\ left' \in [Clients -> Nat]
      /\ hpc'[c] \in {"utf", "int"} /\ (hpc'[c] = "utf" => left'[c] > 0)
      /\ \A d \in Clients \ {c} : hpc'[d] = hpc[d] /\ left'[d] = left[d]
  BY NextFileType DEF FinishFile
<1>2. /\ file' \in [Clients -> Files \cup {Absent}]
      /\ length' \in [Clients -> Nat]
      /\ got' \in [Clients -> Nat]
      /\ \A d \in Clients \ {c} : file'[d] = file[d]
  BY DEF FinishFile, HandlerInv, HandlerTypeOK
<1>3. HandlerTypeOK'
  BY <1>1, <1>2 DEF HandlerInv, HandlerTypeOK
<1>4. ASSUME NEW d \in Clients, Writing(d)'
      PROVE  Writing(d) /\ d # c /\ file'[d] = file[d] /\ left'[d] = left[d]
  BY <1>1, <1>2, <1>4 DEF Writing
<1>5. OneWriterPerFile'
  BY <1>4 DEF HandlerInv, OneWriterPerFile
<1>6. LoopInv'
  <2>. SUFFICES ASSUME NEW d \in Clients
                PROVE  /\ hpc'[d] \in {"utf", "long", "data"} => left'[d] > 0
                       /\ Writing(d)' => file'[d] \in Files /\ fs'[file'[d]] # Absent
    BY DEF LoopInv
  <2>1. hpc'[d] \in {"utf", "long", "data"} => left'[d] > 0
    BY <1>1 DEF HandlerInv, LoopInv
  <2>2. Writing(d)' => file'[d] \in Files /\ fs'[file'[d]] # Absent
    BY <1>4 DEF HandlerInv, LoopInv
  <2>. QED
    BY <2>1, <2>2
<1>. QED
  BY <1>3, <1>5, <1>6 DEF HandlerInv

\* Handlers that end leave the files, and those who go on, as they are.
LEMMA AbandonInv ==
  ASSUME ClientInv, HandlerInv, NEW C \in SUBSET Clients,
         NEW l \in {"failed", "died", "killed"}, Abandon(C, l)
  PROVE  ClientInv' /\ HandlerInv'
<1>1. ClientInv'
  BY DEF Abandon, clientVars, ClientInv, ClientTypeOK, TodoInv
<1>2. /\ hpc' \in [Clients -> HandlerLabels]
      /\ left' \in [Clients -> Nat]
      /\ file' \in [Clients -> Files \cup {Absent}]
      /\ length' \in [Clients -> Nat]
      /\ got' \in [Clients -> Nat]
      /\ UNCHANGED fs
  BY DEF Abandon, HandlerInv, HandlerTypeOK, HandlerLabels, Ended
<1>3. cut' \subseteq Files
  BY DEF Abandon, HandlerInv, HandlerTypeOK, LoopInv
<1>4. \A d \in Clients :
        /\ hpc'[d] \notin Ended =>
             hpc'[d] = hpc[d] /\ left'[d] = left[d] /\ file'[d] = file[d]
  BY DEF Abandon, Ended
<1>5. LoopInv' /\ OneWriterPerFile'
  BY <1>2, <1>4 DEF HandlerInv, LoopInv, OneWriterPerFile, Writing, Ended
<1>. QED
  BY <1>1, <1>2, <1>3, <1>5 DEF HandlerInv, HandlerTypeOK

LEMMA NextIInv == IInv /\ [Next]_vars => IInv'
<1>. SUFFICES ASSUME ClientInv, HandlerInv, [Next]_vars PROVE ClientInv' /\ HandlerInv'
  BY IInvParts DEF IInv, ClientInv, HandlerInv, TypeOK, HandlerTypeOK
<1>1. CASE UNCHANGED vars
  BY <1>1, HandlersUnchanged DEF vars, clientVars, ClientInv, ClientTypeOK, TodoInv
<1>2. ASSUME NEW c \in Clients, Client(c) \/ User(c) \/ ClientLoses(c)
      PROVE  ClientInv' /\ HandlerInv'
  BY <1>2, ClientStepInv, UserStepInv, HandlersUnchanged DEF Client, User, ClientLoses
<1>3. ASSUME NEW c \in Clients, Again(c)
      PROVE  ClientInv' /\ HandlerInv'
  <2>1. ClientInv'
    BY <1>3, UserStepInv DEF Again
  <2>2. HandlerTypeOK'
    BY <1>3 DEF Again, HandlerInv, HandlerTypeOK, HandlerLabels
  <2>3. LoopInv' /\ OneWriterPerFile'
    BY <1>3 DEF Again, HandlerInv, HandlerTypeOK, LoopInv, OneWriterPerFile, Writing
  <2>. QED
    BY <2>1, <2>2, <2>3 DEF HandlerInv
<1>4. CASE ServerStops
  <2>1. PICK C \in SUBSET Clients : Abandon(C, "killed")
    BY <1>4 DEF ServerStops
  <2>. QED
    BY <2>1, AbandonInv
<1>5. ASSUME NEW c \in Clients, DiskFails(c) \/ CopyEof(c) \/ ConnectionFails(c)
      PROVE  ClientInv' /\ HandlerInv'
  <2>1. PICK l \in {"failed", "died"} : Abandon({c}, l)
    BY <1>5 DEF DiskFails, CopyEof, ConnectionFails
  <2>. QED
    BY <2>1, AbandonInv
<1>6. ASSUME NEW c \in Clients, Accept(c) \/ ReadCountEof(c)
      PROVE  ClientInv' /\ HandlerInv'
  <2>1. ClientInv'
    BY <1>6 DEF Accept, ReadCountEof, clientVars, ClientInv, ClientTypeOK, TodoInv
  <2>2. HandlerTypeOK'
    BY <1>6 DEF Accept, ReadCountEof, Goto, HandlerInv, HandlerTypeOK, HandlerLabels, Ended
  <2>3. LoopInv' /\ OneWriterPerFile'
    BY <1>6
    DEF Accept, ReadCountEof, Goto, HandlerInv, HandlerTypeOK, LoopInv, OneWriterPerFile, Writing
  <2>. QED
    BY <2>1, <2>2, <2>3 DEF HandlerInv
<1>7. ASSUME NEW c \in Clients, ReadCount(c)
      PROVE  ClientInv' /\ HandlerInv'
  <2>1. s2c' \in [Clients -> Seq(Replies)]
    BY <1>7 DEF ReadCount, ClientInv, ClientTypeOK
  <2>2. ClientInv'
    BY <1>7, <2>1, TakeInv DEF ReadCount
  <2>3. Taken(c) \in Nat
    BY <1>7, TakenItem DEF ReadCount
  <2>4. HandlerTypeOK'
    BY <1>7, <2>3 DEF ReadCount, Goto, HandlerInv, HandlerTypeOK, HandlerLabels
  <2>5. LoopInv' /\ OneWriterPerFile'
    BY <1>7, <2>3
    DEF ReadCount, Goto, HandlerInv, HandlerTypeOK, LoopInv, OneWriterPerFile, Writing
  <2>. QED
    BY <2>2, <2>4, <2>5 DEF HandlerInv
<1>8. ASSUME NEW c \in Clients, CreateFile(c)
      PROVE  ClientInv' /\ HandlerInv'
  <2>. DEFINE f == Trim[Taken(c)]
  <2>1. f \in Files
    BY <1>8, TakenItem, TrimAssumption DEF CreateFile
  <2>2. s2c' \in [Clients -> Seq(Replies)]
    BY <1>8, AnswerType DEF CreateFile, Replies
  <2>3. ClientInv'
    BY <1>8, <2>2, TakeInv DEF CreateFile
  <2>4. /\ fs[f] = Absent /\ hpc[c] = "utf"
        /\ hpc' = [hpc EXCEPT ![c] = "long"]
        /\ file' = [file EXCEPT ![c] = f]
        /\ fs' = [fs EXCEPT ![f] = <<>>]
        /\ UNCHANGED <<left, length, got, cut>>
    BY <1>8 DEF CreateFile, Goto
  <2>. HIDE DEF f
  <2>5. <<>> \in Seq(Blocks) /\ <<>> # Absent
    BY EmptyFile
  <2>6. HandlerTypeOK'
    BY <2>1, <2>4, <2>5 DEF HandlerInv, HandlerTypeOK, HandlerLabels
  <2>7. \A d \in Clients : Writing(d) => file[d] # f
    BY <2>4 DEF HandlerInv, LoopInv
  <2>8. LoopInv'
    BY <2>1, <2>4, <2>5 DEF HandlerInv, HandlerTypeOK, LoopInv, Writing
  <2>9. OneWriterPerFile'
    BY <2>4, <2>7 DEF HandlerInv, HandlerTypeOK, OneWriterPerFile, Writing
  <2>. QED
    BY <2>3, <2>6, <2>8, <2>9 DEF HandlerInv
<1>9. ASSUME NEW c \in Clients, SkipFile(c)
      PROVE  ClientInv' /\ HandlerInv'
  <2>1. s2c' \in [Clients -> Seq(Replies)]
    BY <1>9, AnswerType DEF SkipFile, Replies
  <2>2. ClientInv'
    BY <1>9, <2>1, TakeInv DEF SkipFile
  <2>3. /\ hpc' \in [Clients -> HandlerLabels]
        /\ left' \in [Clients -> Nat]
        /\ hpc'[c] \in {"utf", "int"} /\ (hpc'[c] = "utf" => left'[c] > 0)
        /\ \A d \in Clients \ {c} : hpc'[d] = hpc[d] /\ left'[d] = left[d]
        /\ UNCHANGED <<file, length, got, fs, cut>>
    BY <1>9, NextFileType DEF SkipFile
  <2>4. HandlerInv'
    BY <2>3 DEF HandlerInv, HandlerTypeOK, LoopInv, OneWriterPerFile, Writing
  <2>. QED
    BY <2>2, <2>4
<1>10. ASSUME NEW c \in Clients, ReadLength(c)
       PROVE  ClientInv' /\ HandlerInv'
  <2>1. s2c' \in [Clients -> Seq(Replies)]
    BY <1>10 DEF ReadLength, ClientInv, ClientTypeOK
  <2>2. ClientInv'
    BY <1>10, <2>1, TakeInv DEF ReadLength
  <2>3. Taken(c) \in Nat
    BY <1>10, TakenItem DEF ReadLength
  <2>4. <<>> \in Seq(Blocks) /\ <<>> # Absent
    BY EmptyFile
  <2>5. /\ fs' \in [Files -> Seq(Blocks) \cup {Absent}]
        /\ \A f \in Files : fs[f] # Absent => fs'[f] # Absent
    BY <1>10, <2>4 DEF ReadLength, HandlerInv, HandlerTypeOK
  <2>6. CASE Taken(c) = 0
    <3>1. FinishFile(c, "long") /\ UNCHANGED cut
      BY <1>10, <2>6 DEF ReadLength
    <3>. QED
      BY <2>2, <2>5, <3>1, FinishFileInv
  <2>7. CASE Taken(c) # 0
    <3>1. /\ hpc[c] = "long" /\ hpc' = [hpc EXCEPT ![c] = "data"]
          /\ length' = [length EXCEPT ![c] = Taken(c)]
          /\ UNCHANGED <<left, file, got, cut>>
      BY <1>10, <2>7 DEF ReadLength, Goto
    <3>2. HandlerTypeOK'
      BY <2>3, <2>5, <3>1 DEF HandlerInv, HandlerTypeOK, HandlerLabels
    <3>3. LoopInv' /\ OneWriterPerFile'
      BY <2>5, <3>1 DEF HandlerInv, HandlerTypeOK, LoopInv, OneWriterPerFile, Writing
    <3>. QED
      BY <2>2, <3>2, <3>3 DEF HandlerInv
  <2>. QED
    BY <2>6, <2>7
<1>11. ASSUME NEW c \in Clients, CopyBlock(c)
       PROVE  ClientInv' /\ HandlerInv'
  <2>1. s2c' \in [Clients -> Seq(Replies)]
    BY <1>11 DEF CopyBlock, ClientInv, ClientTypeOK
  <2>2. ClientInv'
    BY <1>11, <2>1, TakeInv DEF CopyBlock
  <2>3. Taken(c) \in Blocks
    BY <1>11, TakenItem DEF CopyBlock
  <2>4. hpc[c] = "data"
    BY <1>11 DEF CopyBlock, FinishFile, NextFile, Goto
  <2>5. file[c] \in Files /\ fs[file[c]] \in Seq(Blocks)
    BY <2>4 DEF HandlerInv, HandlerTypeOK, LoopInv, Writing
  <2>6. Append(fs[file[c]], Taken(c)) \in Seq(Blocks)
    BY <2>3, <2>5, AppendProperties
  <2>7. /\ fs' \in [Files -> Seq(Blocks) \cup {Absent}]
        /\ \A f \in Files : fs[f] # Absent => fs'[f] # Absent
    BY <1>11, <2>5, <2>6, NobodyAssumption DEF CopyBlock, HandlerInv, HandlerTypeOK
  <2>8. CASE got[c] + 1 < length[c]
    <3>1. /\ hpc' = [hpc EXCEPT ![c] = "data"]
          /\ got' = [got EXCEPT ![c] = @ + 1]
          /\ UNCHANGED <<left, file, length, cut>>
      BY <1>11, <2>8 DEF CopyBlock, Goto
    <3>2. HandlerTypeOK'
      BY <2>7, <3>1 DEF HandlerInv, HandlerTypeOK, HandlerLabels
    <3>3. LoopInv' /\ OneWriterPerFile'
      BY <2>4, <2>7, <3>1 DEF HandlerInv, HandlerTypeOK, LoopInv, OneWriterPerFile, Writing
    <3>. QED
      BY <2>2, <3>2, <3>3 DEF HandlerInv
  <2>9. CASE ~(got[c] + 1 < length[c])
    <3>1. FinishFile(c, "data") /\ UNCHANGED cut
      BY <1>11, <2>9 DEF CopyBlock
    <3>. QED
      BY <2>2, <2>7, <3>1, FinishFileInv
  <2>. QED
    BY <2>8, <2>9
<1>. QED
  BY <1>1, <1>2, <1>3, <1>4, <1>5, <1>6, <1>7, <1>8, <1>9, <1>10, <1>11 DEF Next, Handler

THEOREM Invariance == Spec => []IInv
<1>. QED
  BY InitIInv, NextIInv, PTL DEF Spec

\* What is on the streams, in the handlers' loops and in the output directory
\* keeps its type, through every order of steps, crash and relaunch.
THEOREM TypeCorrect == Spec => []TypeOK
<1>1. IInv => TypeOK
  BY DEF IInv
<1>. QED
  BY <1>1, Invariance, PTL

\* However many clients offer a file of the same name at once, one handler has
\* it open at most: createNewFile is enough to keep the others away.
THEOREM OneWriter == Spec => []OneWriterPerFile
<1>1. IInv => OneWriterPerFile
  BY DEF IInv
<1>. QED
  BY <1>1, Invariance, PTL

-------------------------------------------------------------------------------
(***************************************************************************)
(* Every handler is in step with its client, and has in the file it writes *)
(* what it has received of the entry the client is sending.                *)
(***************************************************************************)
Filled(c, e) ==
  /\ Trim[e.name] = file[c]
  /\ Len(fs[file[c]]) = got[c]
  /\ \A i \in 1..got[c] : fs[file[c]][i] = Content(c, e)[i]

\* The loops of handler c are at r.
ReaderAt(c, r) ==
  \/ hpc[c] \in {"none", "int"} /\ r = Round(0)
  \/ hpc[c] = "utf" /\ r = Round(left[c])
  \/ \E e \in Offered :
       /\ Writing(c)
       /\ r = Midway(hpc[c], left[c], e, got[c])
       /\ Filled(c, e)
       /\ hpc[c] = "data" => got[c] < e.len /\ length[c] = e.len

Dialogue(c) ==
  /\ hpc[c] \in Ended \/ \E r : ReaderAt(c, r) /\ Conn(c, r)
  /\ hpc[c] \notin {"utf", "long", "data"} => left[c] = 0
  /\ hpc[c] # "data" => got[c] = 0
  /\ cpc[c] = "start" => hpc[c] = "none" /\ s2c[c] = <<>>

DialogueInv == StreamInv /\ \A c \in Clients : Dialogue(c)

LEMMA InitDialogue == Init => DialogueInv
<1>. SUFFICES ASSUME Init PROVE DialogueInv
  OBVIOUS
<1>1. StreamInv
  BY InitStream DEF Init
<1>2. ASSUME NEW c \in Clients PROVE Dialogue(c)
  <2>1. Run(c, Round(0), c2s[c], Round(0)) /\ Fits(c, Round(0))
    BY RunEmpty DEF Init, ClientInit, Fits
  <2>2. Conn(c, Round(0))
    BY <2>1 DEF Conn
  <2>. QED
    BY <2>2 DEF Init, ClientInit, Dialogue, ReaderAt, Ended
<1>. QED
  BY <1>1, <1>2 DEF DialogueInv

\* The handlers of the other clients are where they were, with what they had.
Elsewhere(c) ==
  \A d \in Clients \ {c} :
    /\ hpc'[d] = hpc[d] /\ left'[d] = left[d] /\ file'[d] = file[d]
    /\ length'[d] = length[d] /\ got'[d] = got[d]
    /\ Writing(d) => fs'[file[d]] = fs[file[d]]

LEMMA ReaderFrame ==
  ASSUME NEW c, NEW r, ReaderAt(c, r),
         hpc'[c] = hpc[c], left'[c] = left[c], file'[c] = file[c], length'[c] = length[c],
         got'[c] = got[c], Writing(c) => fs'[file[c]] = fs[file[c]]
  PROVE  ReaderAt(c, r)'
BY DEF ReaderAt, Filled, Writing

LEMMA OneDialogue ==
  ASSUME DialogueInv, NEW c \in Clients, Apart(c), Elsewhere(c), StreamInv', Dialogue(c)'
  PROVE  DialogueInv'
<1>. SUFFICES ASSUME NEW d \in Clients \ {c} PROVE Dialogue(d)'
  BY DEF DialogueInv
<1>1. /\ hpc'[d] = hpc[d] /\ left'[d] = left[d] /\ file'[d] = file[d]
      /\ length'[d] = length[d] /\ got'[d] = got[d]
      /\ Writing(d) => fs'[file[d]] = fs[file[d]]
      /\ cpc'[d] = cpc[d] /\ todo'[d] = todo[d] /\ sent'[d] = sent[d]
      /\ c2s'[d] = c2s[d] /\ s2c'[d] = s2c[d]
  BY DEF Elsewhere, Apart
<1>2. Dialogue(d)
  BY DEF DialogueInv
<1>3. ASSUME NEW r, ReaderAt(d, r), Conn(d, r) PROVE ReaderAt(d, r)' /\ Conn(d, r)'
  BY <1>1, <1>3, ReaderFrame, ConnFrame
<1>. QED
  BY <1>1, <1>2, <1>3 DEF Dialogue

\* Where the client moves, and the handler does not.
LEMMA ClientMoves ==
  ASSUME DialogueInv, NEW c \in Clients, Apart(c), UNCHANGED <<handlerVars, fs>>, StreamInv',
         \A r : ReaderAt(c, r) /\ Conn(c, r) /\ hpc[c] \notin Ended => Conn(c, r)',
         cpc'[c] # "start"
  PROVE  DialogueInv'
<1>1. Elsewhere(c) /\ UNCHANGED <<hpc, left, file, length, got, fs>>
  BY DEF handlerVars, Elsewhere
<1>2. Dialogue(c)
  BY DEF DialogueInv
<1>3. ASSUME NEW r, ReaderAt(c, r) PROVE ReaderAt(c, r)'
  BY <1>1, <1>3, ReaderFrame
<1>4. Dialogue(c)'
  BY <1>1, <1>2, <1>3 DEF Dialogue
<1>. QED
  BY <1>1, <1>4, OneDialogue

\* A handler that is not at a file is in step between two of them.
LEMMA BetweenFiles ==
  ASSUME DialogueInv, NEW c \in Clients, hpc[c] \in {"none", "int", "utf"}
  PROVE  /\ hpc[c] \in {"none", "int"} => left[c] = 0 /\ Conn(c, Round(0))
         /\ hpc[c] = "utf" => Conn(c, Round(left[c]))
         /\ got[c] = 0
BY DEF DialogueInv, Dialogue, ReaderAt, Writing, Ended

\* One that is at a file is in step with an entry that is sent to it.
LEMMA AtFile ==
  ASSUME DialogueInv, NEW c \in Clients, Writing(c)
  PROVE  \E e \in Offered :
           /\ Conn(c, Midway(hpc[c], left[c], e, got[c]))
           /\ Filled(c, e)
           /\ hpc[c] = "data" => got[c] < e.len /\ length[c] = e.len
           /\ hpc[c] = "long" => got[c] = 0
<1>1. Dialogue(c) /\ hpc[c] \in {"long", "data"}
  BY DEF DialogueInv, Writing
<1>2. PICK r : ReaderAt(c, r) /\ Conn(c, r)
  BY <1>1 DEF Dialogue, Ended
<1>. QED
  BY <1>1, <1>2 DEF ReaderAt, Dialogue

\* At the end of a round of the for loop the handler is between two files.
LEMMA RoundEnds ==
  ASSUME HandlerInv, NEW c \in Clients, NEW from \in {"utf", "long", "data"}, NextFile(c, from),
         NEW r, r = Round(left[c] - 1)
  PROVE  /\ ReaderAt(c, r)'
         /\ hpc'[c] \in {"utf", "int"} /\ (hpc'[c] = "int" => left'[c] = 0)
         /\ \A d \in Clients \ {c} : hpc'[d] = hpc[d] /\ left'[d] = left[d]
<1>1. left[c] \in Nat /\ left[c] > 0 /\ left'[c] = left[c] - 1
  BY DEF HandlerInv, HandlerTypeOK, LoopInv, NextFile, Goto
<1>2. /\ hpc'[c] = IF left[c] > 1 THEN "utf" ELSE "int"
      /\ \A d \in Clients \ {c} : hpc'[d] = hpc[d] /\ left'[d] = left[d]
  BY DEF NextFile, Goto, HandlerInv, HandlerTypeOK
<1>3. CASE left[c] > 1
  BY <1>1, <1>2, <1>3 DEF ReaderAt
<1>4. CASE ~(left[c] > 1)
  <2>1. left'[c] = 0 /\ left[c] - 1 = 0
    BY <1>1, <1>4
  <2>. QED
    BY <1>2, <1>4, <2>1 DEF ReaderAt
<1>. QED
  BY <1>3, <1>4

LEMMA FinishEnds ==
  ASSUME HandlerInv, NEW c \in Clients, NEW from \in {"long", "data"}, FinishFile(c, from),
         NEW r, r = Round(left[c] - 1)
  PROVE  /\ ReaderAt(c, r)' /\ got'[c] = 0
         /\ hpc'[c] \in {"utf", "int"} /\ (hpc'[c] = "int" => left'[c] = 0)
         /\ \A d \in Clients \ {c} :
              /\ hpc'[d] = hpc[d] /\ left'[d] = left[d] /\ file'[d] = file[d]
              /\ length'[d] = length[d] /\ got'[d] = got[d]
<1>1. NextFile(c, from)
  BY DEF FinishFile
<1>2. /\ got'[c] = 0
      /\ \A d \in Clients \ {c} :
           file'[d] = file[d] /\ length'[d] = length[d] /\ got'[d] = got[d]
  BY DEF FinishFile, HandlerInv, HandlerTypeOK
<1>. QED
  BY <1>1, <1>2, RoundEnds

\* The reads and answers of a handler between two files.
LEMMA CountDialogue ==
  ASSUME ClientInv, HandlerInv, DialogueInv, NEW c \in Clients, ReadCount(c)
  PROVE  DialogueInv'
<1>1. /\ hpc[c] = "int" /\ left'[c] = Taken(c) /\ hpc'[c] = (IF Taken(c) > 0 THEN "utf" ELSE "int")
      /\ Take(c, "int") /\ UNCHANGED <<cpc, todo, sent, s2c, file, length, got, fs>>
      /\ \A d \in Clients \ {c} : hpc'[d] = hpc[d] /\ left'[d] = left[d]
  BY DEF ReadCount, Goto, HandlerInv, HandlerTypeOK
<1>2. Conn(c, Round(0)) /\ got[c] = 0 /\ cpc[c] # "start"
  BY <1>1, BetweenFiles DEF DialogueInv, Dialogue
<1>3. StreamInv' /\ Apart(c) /\ \E q : Reads(c, Round(0), Head(c2s[c]), q) /\ Conn(c, q)'
  BY <1>1, <1>2, TakeConn DEF DialogueInv
<1>4. PICK q : Reads(c, Round(0), Head(c2s[c]), q) /\ Conn(c, q)'
  BY <1>3
<1>5. PICK n \in Nat : Head(c2s[c]) = Int32(n) /\ q = Round(n)
  BY <1>4 DEF Reads, Round
<1>6. Taken(c) = n
  BY <1>5 DEF Taken, Int32
<1>7. ReaderAt(c, q)' /\ (hpc'[c] = "int" => left'[c] = 0) /\ hpc'[c] \in {"utf", "int"}
  BY <1>1, <1>5, <1>6 DEF ReaderAt
<1>8. Dialogue(c)'
  BY <1>1, <1>2, <1>4, <1>7 DEF Dialogue, Ended
<1>9. Elsewhere(c)
  BY <1>1 DEF Elsewhere
<1>. QED
  BY <1>3, <1>8, <1>9, OneDialogue

LEMMA NameDialogue ==
  ASSUME ClientInv, HandlerInv, DialogueInv, NEW c \in Clients, CreateFile(c) \/ SkipFile(c)
  PROVE  DialogueInv'
<1>1. hpc[c] = "utf" /\ Take(c, "utf") /\ UNCHANGED <<cpc, todo, sent, length, got>>
  BY DEF CreateFile, SkipFile, Goto, NextFile
<1>. PICK n : n = left[c]
  OBVIOUS
<1>2. n \in Nat \ {0} /\ Conn(c, Round(n)) /\ got[c] = 0 /\ cpc[c] # "start"
  BY <1>1, BetweenFiles DEF DialogueInv, Dialogue, HandlerInv, HandlerTypeOK, LoopInv
<1>3. CASE CreateFile(c)
  <2>1. "attiva" \in Replies /\ Answer(c, "attiva")
    BY <1>3 DEF CreateFile, Replies
  <2>2. StreamInv' /\ Apart(c)
    BY <1>1, <1>2, <2>1, AnswerConn DEF DialogueInv
  <2>3. PICK e \in Offered : Taken(c) = e.name /\ Conn(c, Midway("long", n, e, 0))'
    BY <1>1, <1>2, <2>1, AnswerConn DEF DialogueInv
  <2>4. PICK f : f = Trim[Taken(c)]
    OBVIOUS
  <2>5. /\ f \in Files /\ fs[f] = Absent
        /\ hpc'[c] = "long" /\ file'[c] = f /\ fs'[f] = <<>>
        /\ UNCHANGED <<left, length, got>>
        /\ \A d \in Clients \ {c} : hpc'[d] = hpc[d] /\ file'[d] = file[d]
        /\ \A g \in Files \ {f} : fs'[g] = fs[g]
    BY <1>3, <2>3, <2>4, OfferedType DEF CreateFile, Goto, HandlerInv, HandlerTypeOK
  <2>6. PICK r : r = Midway("long", n, e, 0)
    OBVIOUS
  <2>7. Filled(c, e)'
    BY <1>2, <2>3, <2>4, <2>5 DEF Filled
  <2>8. ReaderAt(c, r)'
    BY <1>2, <2>5, <2>6, <2>7 DEF ReaderAt, Writing
  <2>9. Dialogue(c)'
    BY <1>1, <1>2, <2>3, <2>5, <2>6, <2>8 DEF Dialogue
  <2>10. Elsewhere(c)
    BY <1>1, <2>5 DEF Elsewhere, HandlerInv, LoopInv
  <2>. QED
    BY <2>2, <2>9, <2>10, OneDialogue
<1>4. CASE SkipFile(c)
  <2>1. "salta" \in Replies /\ Answer(c, "salta") /\ NextFile(c, "utf") /\ UNCHANGED <<file, fs>>
    BY <1>4 DEF SkipFile, Replies
  <2>2. PICK r : r = Round(n - 1)
    OBVIOUS
  <2>3. StreamInv' /\ Apart(c) /\ Conn(c, r)'
    BY <1>1, <1>2, <2>1, <2>2, AnswerConn DEF DialogueInv
  <2>4. /\ ReaderAt(c, r)'
        /\ hpc'[c] \in {"utf", "int"} /\ (hpc'[c] = "int" => left'[c] = 0)
        /\ \A d \in Clients \ {c} : hpc'[d] = hpc[d] /\ left'[d] = left[d]
    BY <2>1, <2>2, RoundEnds
  <2>5. Dialogue(c)'
    BY <1>1, <1>2, <2>3, <2>4 DEF Dialogue
  <2>6. Elsewhere(c)
    BY <1>1, <2>1, <2>4 DEF Elsewhere
  <2>. QED
    BY <2>3, <2>5, <2>6, OneDialogue
<1>. QED
  BY <1>3, <1>4

\* The file that a handler has just created is still empty when it is opened.
LEMMA LengthTaken ==
  ASSUME ClientInv, HandlerInv, DialogueInv, NEW c \in Clients, ReadLength(c)
  PROVE  /\ StreamInv' /\ Apart(c) /\ cpc[c] # "start" /\ cpc' = cpc
         /\ UNCHANGED fs /\ fs[file[c]] = <<>> /\ got[c] = 0
         /\ \E e \in Offered :
              /\ Filled(c, e) /\ Taken(c) = e.len
              /\ \A q : q = Filling(left[c], e, 0) => Conn(c, q)'
<1>1. hpc[c] = "long" /\ Take(c, "long") /\ UNCHANGED <<cpc, todo, sent, s2c>>
  BY DEF ReadLength, FinishFile, NextFile, Goto
<1>2. Writing(c) /\ cpc[c] # "start"
  BY <1>1 DEF Writing, DialogueInv, Dialogue
<1>3. PICK e \in Offered : /\ Conn(c, Midway("long", left[c], e, 0)) /\ Filled(c, e)
                           /\ got[c] = 0
  BY <1>1, <1>2, AtFile
<1>4. PICK r : r = Midway("long", left[c], e, 0)
  OBVIOUS
<1>5. StreamInv' /\ Apart(c) /\ \E q : Reads(c, r, Head(c2s[c]), q) /\ Conn(c, q)'
  BY <1>1, <1>3, <1>4, TakeConn DEF DialogueInv
<1>6. PICK q : Reads(c, r, Head(c2s[c]), q) /\ Conn(c, q)'
  BY <1>5
<1>7. Head(c2s[c]) = Int64(e.len) /\ q = Filling(left[c], e, 0)
  BY <1>4, <1>6 DEF Reads, Midway
<1>8. Taken(c) = e.len
  BY <1>7 DEF Taken, Int64
<1>9. fs[file[c]] \in Seq(Blocks) /\ fs \in [Files -> Seq(Blocks) \cup {Absent}]
  BY <1>2 DEF HandlerInv, HandlerTypeOK, LoopInv
<1>10. fs[file[c]] = <<>>
  BY <1>3, <1>9, EmptySeq DEF Filled
<1>11. UNCHANGED fs
  BY <1>9, <1>10 DEF ReadLength
<1>. QED
  BY <1>1, <1>2, <1>3, <1>5, <1>6, <1>7, <1>8, <1>10, <1>11

LEMMA LengthDialogue ==
  ASSUME ClientInv, HandlerInv, DialogueInv, NEW c \in Clients, ReadLength(c)
  PROVE  DialogueInv'
<1>1. /\ StreamInv' /\ Apart(c) /\ cpc[c] # "start" /\ cpc' = cpc
      /\ UNCHANGED fs /\ got[c] = 0
  BY LengthTaken
<1>2. PICK e \in Offered :
        /\ Filled(c, e) /\ Taken(c) = e.len
        /\ \A q : q = Filling(left[c], e, 0) => Conn(c, q)'
  BY LengthTaken
<1>3. PICK q : q = Filling(left[c], e, 0)
  OBVIOUS
<1>4. Conn(c, q)' /\ e.len \in Nat
  BY <1>2, <1>3, OfferedType
<1>5. CASE Taken(c) = 0
  <2>1. q = Round(left[c] - 1) /\ FinishFile(c, "long")
    BY <1>2, <1>3, <1>5 DEF Filling, ReadLength
  <2>2. /\ ReaderAt(c, q)' /\ got'[c] = 0
        /\ hpc'[c] \in {"utf", "int"} /\ (hpc'[c] = "int" => left'[c] = 0)
        /\ Elsewhere(c)
    BY <1>1, <2>1, FinishEnds DEF Elsewhere
  <2>3. Dialogue(c)'
    BY <1>1, <1>4, <2>2 DEF Dialogue
  <2>. QED
    BY <1>1, <2>2, <2>3, OneDialogue
<1>6. CASE Taken(c) # 0
  <2>1. /\ hpc'[c] = "data" /\ length'[c] = e.len /\ UNCHANGED <<left, file, got>>
        /\ \A d \in Clients \ {c} : hpc'[d] = hpc[d] /\ length'[d] = length[d]
    BY <1>2, <1>6 DEF ReadLength, Goto, HandlerInv, HandlerTypeOK
  <2>2. e.len > 0 /\ q = Midway("data", left[c], e, 0)
    BY <1>2, <1>3, <1>4, <1>6 DEF Filling
  <2>3. Filled(c, e)'
    BY <1>1, <1>2, <2>1 DEF Filled
  <2>4. ReaderAt(c, q)'
    BY <1>1, <2>1, <2>2, <2>3 DEF ReaderAt, Writing
  <2>5. Dialogue(c)'
    BY <1>1, <1>4, <2>1, <2>4 DEF Dialogue
  <2>6. Elsewhere(c)
    BY <1>1, <2>1 DEF Elsewhere
  <2>. QED
    BY <1>1, <2>5, <2>6, OneDialogue
<1>. QED
  BY <1>5, <1>6

\* A block is the next one of the file that the client is sending.
LEMMA BlockTaken ==
  ASSUME ClientInv, HandlerInv, DialogueInv, NEW c \in Clients, CopyBlock(c)
  PROVE  /\ StreamInv' /\ Apart(c) /\ cpc[c] # "start" /\ cpc' = cpc
         /\ Writing(c) /\ hpc[c] = "data" /\ got[c] \in Nat
         /\ fs[file[c]] \in Seq(Blocks) /\ fs'[file[c]] = Append(fs[file[c]], Taken(c))
         /\ fs' = [fs EXCEPT ![file[c]] = Append(@, Taken(c))]
         /\ \E e \in Offered :
              /\ Filled(c, e) /\ got[c] < e.len /\ length[c] = e.len
              /\ Taken(c) = Content(c, e)[got[c] + 1]
              /\ Len(fs'[file[c]]) = got[c] + 1
              /\ \A i \in 1..(got[c] + 1) : fs'[file[c]][i] = Content(c, e)[i]
              /\ \A q : q = Filling(left[c], e, got[c] + 1) => Conn(c, q)'
<1>1. /\ hpc[c] = "data" /\ Take(c, "block") /\ UNCHANGED <<cpc, todo, sent, s2c>>
      /\ fs' = [fs EXCEPT ![file[c]] = Append(@, Taken(c))]
  BY DEF CopyBlock, FinishFile, NextFile, Goto
<1>2. Writing(c) /\ cpc[c] # "start"
  BY <1>1 DEF Writing, DialogueInv, Dialogue
<1>3. PICK e \in Offered :
        /\ Conn(c, Midway("data", left[c], e, got[c])) /\ Filled(c, e)
        /\ got[c] < e.len /\ length[c] = e.len
  BY <1>1, <1>2, AtFile
<1>4. PICK r : r = Midway("data", left[c], e, got[c])
  OBVIOUS
<1>5. StreamInv' /\ Apart(c) /\ \E q : Reads(c, r, Head(c2s[c]), q) /\ Conn(c, q)'
  BY <1>1, <1>3, <1>4, TakeConn DEF DialogueInv
<1>6. PICK q : Reads(c, r, Head(c2s[c]), q) /\ Conn(c, q)'
  BY <1>5
<1>7. Head(c2s[c]) = Block(Content(c, e)[got[c] + 1]) /\ q = Filling(left[c], e, got[c] + 1)
  BY <1>4, <1>6 DEF Reads, Midway
<1>8. Taken(c) = Content(c, e)[got[c] + 1]
  BY <1>7 DEF Taken, Block
<1>9. fs[file[c]] \in Seq(Blocks) /\ got[c] \in Nat /\ file[c] \in Files
  BY <1>2 DEF HandlerInv, HandlerTypeOK, LoopInv
<1>10. fs'[file[c]] = Append(fs[file[c]], Taken(c))
  BY <1>1, <1>9 DEF HandlerInv, HandlerTypeOK
<1>11. Len(fs[file[c]]) = got[c] /\ \A i \in 1..got[c] : fs[file[c]][i] = Content(c, e)[i]
  BY <1>3 DEF Filled
<1>12. /\ Len(fs'[file[c]]) = got[c] + 1 /\ fs'[file[c]][got[c] + 1] = Content(c, e)[got[c] + 1]
       /\ \A i \in 1..got[c] : fs'[file[c]][i] = fs[file[c]][i]
  <2>1. Taken(c) \in Blocks
    BY <1>1, TakenItem
  <2>. QED
    BY <1>8, <1>9, <1>10, <1>11, <2>1, AppendProperties
<1>13. ASSUME NEW i \in 1..(got[c] + 1) PROVE fs'[file[c]][i] = Content(c, e)[i]
  <2>1. i = got[c] + 1 \/ i \in 1..got[c]
    BY <1>9
  <2>. QED
    BY <1>11, <1>12, <2>1
<1>. QED
  BY <1>1, <1>2, <1>3, <1>5, <1>6, <1>7, <1>8, <1>9, <1>10, <1>12, <1>13

LEMMA BlockDialogue ==
  ASSUME ClientInv, HandlerInv, DialogueInv, NEW c \in Clients, CopyBlock(c)
  PROVE  DialogueInv'
<1>1. /\ StreamInv' /\ Apart(c) /\ cpc[c] # "start" /\ cpc' = cpc
      /\ Writing(c) /\ hpc[c] = "data" /\ got[c] \in Nat
      /\ fs' = [fs EXCEPT ![file[c]] = Append(@, Taken(c))]
  BY BlockTaken
<1>2. PICK e \in Offered :
        /\ Filled(c, e) /\ got[c] < e.len /\ length[c] = e.len
        /\ Len(fs'[file[c]]) = got[c] + 1
        /\ \A i \in 1..(got[c] + 1) : fs'[file[c]][i] = Content(c, e)[i]
        /\ \A q : q = Filling(left[c], e, got[c] + 1) => Conn(c, q)'
  BY BlockTaken
<1>3. PICK q : q = Filling(left[c], e, got[c] + 1)
  OBVIOUS
<1>4. Conn(c, q)' /\ e.len \in Nat
  BY <1>2, <1>3, OfferedType
<1>5. \A d \in Clients \ {c} : Writing(d) => fs'[file[d]] = fs[file[d]]
  <2>. SUFFICES ASSUME NEW d \in Clients \ {c}, Writing(d) PROVE fs'[file[d]] = fs[file[d]]
    OBVIOUS
  <2>1. file[d] # file[c] /\ file[d] \in Files
    BY <1>1 DEF HandlerInv, OneWriterPerFile, LoopInv
  <2>. QED
    BY <1>1, <2>1 DEF HandlerInv, HandlerTypeOK
<1>6. CASE got[c] + 1 < length[c]
  <2>1. /\ hpc'[c] = "data" /\ got'[c] = got[c] + 1 /\ UNCHANGED <<left, file, length>>
        /\ \A d \in Clients \ {c} : hpc'[d] = hpc[d] /\ got'[d] = got[d]
    BY <1>6 DEF CopyBlock, Goto, HandlerInv, HandlerTypeOK
  <2>2. q = Midway("data", left[c], e, got[c] + 1)
    BY <1>2, <1>3, <1>6 DEF Filling
  <2>3. Filled(c, e)'
    BY <1>2, <2>1 DEF Filled
  <2>4. ReaderAt(c, q)'
    BY <1>2, <1>6, <2>1, <2>2, <2>3 DEF ReaderAt, Writing
  <2>5. Dialogue(c)'
    BY <1>1, <1>4, <2>1, <2>4 DEF Dialogue
  <2>6. Elsewhere(c)
    BY <1>5, <2>1 DEF Elsewhere
  <2>. QED
    BY <1>1, <2>5, <2>6, OneDialogue
<1>7. CASE ~(got[c] + 1 < length[c])
  <2>1. FinishFile(c, "data")
    BY <1>7 DEF CopyBlock
  <2>2. q = Round(left[c] - 1)
    BY <1>1, <1>2, <1>3, <1>4, <1>7 DEF Filling
  <2>3. /\ ReaderAt(c, q)' /\ got'[c] = 0
        /\ hpc'[c] \in {"utf", "int"} /\ (hpc'[c] = "int" => left'[c] = 0)
        /\ Elsewhere(c)
    BY <1>5, <2>1, <2>2, FinishEnds DEF Elsewhere
  <2>4. Dialogue(c)'
    BY <1>1, <1>4, <2>3 DEF Dialogue
  <2>. QED
    BY <1>1, <2>3, <2>4, OneDialogue
<1>. QED
  BY <1>6, <1>7

LEMMA AbandonDialogue ==
  ASSUME DialogueInv, NEW C \in SUBSET Clients, NEW l \in {"failed", "died", "killed"},
         Abandon(C, l), \A c \in C : cpc[c] # "start"
  PROVE  DialogueInv'
<1>1. UNCHANGED <<cpc, todo, sent, c2s, s2c, fs>>
  BY DEF Abandon, clientVars
<1>2. StreamInv'
  BY <1>1 DEF DialogueInv, StreamInv, Current
<1>3. ASSUME NEW c \in Clients PROVE Dialogue(c)'
  <2>1. Dialogue(c)
    BY DEF DialogueInv
  <2>2. CASE c \in C
    <3>1. hpc'[c] = l /\ left'[c] = 0 /\ got'[c] = 0
      BY <2>2 DEF Abandon
    <3>. QED
      BY <1>1, <2>2, <3>1 DEF Dialogue, Ended
  <2>3. CASE c \notin C
    <3>1. /\ hpc'[c] = hpc[c] /\ left'[c] = left[c] /\ file'[c] = file[c]
          /\ length'[c] = length[c] /\ got'[c] = got[c]
      BY <2>3 DEF Abandon
    <3>2. ASSUME NEW r, ReaderAt(c, r), Conn(c, r) PROVE ReaderAt(c, r)' /\ Conn(c, r)'
      BY <1>1, <3>1, <3>2, ReaderFrame, ConnFrame
    <3>. QED
      BY <1>1, <2>1, <3>1, <3>2 DEF Dialogue
  <2>. QED
    BY <2>2, <2>3
<1>. QED
  BY <1>2, <1>3 DEF DialogueInv

LEMMA NextDialogue == IInv /\ DialogueInv /\ [Next]_vars => DialogueInv'
<1>. SUFFICES ASSUME ClientInv, HandlerInv, DialogueInv, [Next]_vars PROVE DialogueInv'
  BY IInvParts
<1>1. CASE UNCHANGED vars
  <2>1. UNCHANGED <<cpc, todo, sent, c2s, s2c, hpc, left, file, length, got, fs>>
    BY <1>1 DEF vars, clientVars, handlerVars
  <2>2. StreamInv'
    BY <2>1 DEF DialogueInv, StreamInv, Current
  <2>3. ASSUME NEW c \in Clients PROVE Dialogue(c)'
    <3>1. ASSUME NEW r, ReaderAt(c, r), Conn(c, r) PROVE ReaderAt(c, r)' /\ Conn(c, r)'
      BY <2>1, <3>1, ReaderFrame, ConnFrame
    <3>. QED
      BY <2>1, <3>1 DEF Dialogue, DialogueInv
  <2>. QED
    BY <2>2, <2>3 DEF DialogueInv
<1>2. ASSUME NEW c \in Clients, Client(c) PROVE DialogueInv'
  <2>1. ClientStep(c) /\ UNCHANGED <<handlerVars, fs>>
    BY <1>2 DEF Client
  <2>2. StreamInv' /\ \A r : Conn(c, r) => Conn(c, r)'
    BY <2>1, ClientStepConn DEF DialogueInv
  <2>3. cpc'[c] # "start"
    BY <2>1 DEF ClientStep, SkipEntry, SendName, TakeReply, SendBlock, EndFile, EndDir,
                ClientGoto, ClientInv, ClientTypeOK
  <2>4. Apart(c)
    BY <2>1, ClientApart DEF ClientInv
  <2>. QED
    BY <2>1, <2>2, <2>3, <2>4, ClientMoves
<1>3. ASSUME NEW c \in Clients, User(c) PROVE DialogueInv'
  <2>1. /\ Connect(c) \/ ChooseDir(c) \/ Quit(c) \/ ClientDies(c)
        /\ UNCHANGED <<handlerVars, fs>>
    BY <1>3 DEF User, UserStep
  <2>2. Apart(c)
    BY <2>1, ClientApart DEF ClientInv, UserStep
  <2>3. cpc'[c] # "start"
    BY <2>1 DEF Connect, ChooseDir, Quit, ClientDies, ClientEnds, ClientGoto, ClientInv, ClientTypeOK
  <2>4. CASE Connect(c)
    <3>1. hpc[c] = "none" /\ s2c[c] = <<>>
      BY <2>4 DEF Connect, ClientGoto, DialogueInv, Dialogue
    <3>2. PICK p : p = Round(0)
      OBVIOUS
    <3>3. StreamInv' /\ Conn(c, p)'
      BY <2>4, <3>1, <3>2, ConnectConn DEF DialogueInv
    <3>4. \A r : ReaderAt(c, r) => r = p
      BY <3>1, <3>2 DEF ReaderAt, Writing
    <3>. QED
      BY <2>1, <2>2, <2>3, <3>3, <3>4, ClientMoves
  <2>5. CASE ChooseDir(c) \/ Quit(c) \/ ClientDies(c)
    <3>1. StreamInv' /\ \A r : Conn(c, r) => Conn(c, r)'
      BY <2>5, UserStepConn DEF DialogueInv
    <3>. QED
      BY <2>1, <2>2, <2>3, <3>1, ClientMoves
  <2>. QED
    BY <2>1, <2>4, <2>5
<1>4. ASSUME NEW c \in Clients, ClientLoses(c) PROVE DialogueInv'
  <2>1. ClientFails(c) /\ UNCHANGED <<handlerVars, fs>> /\ cpc'[c] # "start"
    BY <1>4 DEF ClientLoses, ClientFails, ClientEnds, ClientInv, ClientTypeOK
  <2>2. Apart(c) /\ StreamInv' /\ \A r : Conn(c, r) => Conn(c, r)'
    BY <2>1, ClientApart, UserStepConn DEF DialogueInv, ClientInv
  <2>. QED
    BY <2>1, <2>2, ClientMoves
<1>5. ASSUME NEW c \in Clients, Again(c) PROVE DialogueInv'
  <2>1. /\ Relaunch(c) /\ hpc[c] \in Ended /\ hpc'[c] = "none"
        /\ \A d \in Clients \ {c} : hpc'[d] = hpc[d]
        /\ UNCHANGED <<left, file, length, got, fs>>
    BY <1>5 DEF Again, HandlerInv, HandlerTypeOK
  <2>2. PICK r : r = Round(0)
    OBVIOUS
  <2>3. StreamInv' /\ Conn(c, r)' /\ s2c'[c] = <<>>
    BY <2>1, RelaunchConn DEF DialogueInv
  <2>4. Dialogue(c)
    BY DEF DialogueInv
  <2>5. left[c] = 0 /\ got[c] = 0
    BY <2>1, <2>4 DEF Dialogue, Ended
  <2>6. ReaderAt(c, r)'
    BY <2>1, <2>2 DEF ReaderAt
  <2>7. Dialogue(c)'
    BY <2>1, <2>3, <2>5, <2>6 DEF Dialogue
  <2>8. Apart(c) /\ Elsewhere(c)
    BY <2>1, ClientApart DEF ClientInv, Elsewhere
  <2>. QED
    BY <2>3, <2>7, <2>8, OneDialogue
<1>6. ASSUME NEW c \in Clients, Accept(c) \/ ReadCountEof(c) PROVE DialogueInv'
  <2>1. /\ hpc[c] \in {"none", "int"} /\ hpc'[c] \in {"int", "closed"} /\ cpc[c] # "start"
        /\ UNCHANGED <<cpc, todo, sent, c2s, s2c, left, file, length, got, fs>>
        /\ \A d \in Clients \ {c} : hpc'[d] = hpc[d]
    BY <1>6 DEF Accept, ReadCountEof, AtEnd, Goto, clientVars, HandlerInv, HandlerTypeOK
  <2>2. StreamInv'
    BY <2>1 DEF DialogueInv, StreamInv, Current
  <2>3. PICK r : r = Round(0)
    OBVIOUS
  <2>4. Conn(c, r) /\ left[c] = 0 /\ got[c] = 0
    BY <2>1, <2>3, BetweenFiles
  <2>5. Conn(c, r)'
    BY <2>1, <2>4, ConnFrame
  <2>6. hpc'[c] = "int" => ReaderAt(c, r)'
    BY <2>3 DEF ReaderAt
  <2>7. Dialogue(c)'
    BY <2>1, <2>4, <2>5, <2>6 DEF Dialogue, Ended
  <2>8. Apart(c) /\ Elsewhere(c)
    BY <2>1 DEF Apart, Elsewhere
  <2>. QED
    BY <2>2, <2>7, <2>8, OneDialogue
<1>7. ASSUME NEW c \in Clients, DiskFails(c) \/ CopyEof(c) \/ ConnectionFails(c)
      PROVE  DialogueInv'
  <2>1. PICK l \in {"failed", "died"} : Abandon({c}, l)
    BY <1>7 DEF DiskFails, CopyEof, ConnectionFails
  <2>2. cpc[c] # "start"
    BY <1>7 DEF DiskFails, CopyEof, ConnectionFails, AtEnd, DialogueInv, Dialogue
  <2>. QED
    BY <2>1, <2>2, AbandonDialogue
<1>8. CASE ServerStops
  <2>1. PICK C \in SUBSET Clients : Abandon(C, "killed") /\ \A c \in C : cpc[c] # "start"
    BY <1>8 DEF ServerStops
  <2>. QED
    BY <2>1, AbandonDialogue
<1>9. ASSUME NEW c \in Clients, Handler(c) PROVE DialogueInv'
  BY <1>6, <1>7, <1>9, CountDialogue, NameDialogue, LengthDialogue, BlockDialogue DEF Handler
<1>. QED
  BY <1>1, <1>2, <1>3, <1>4, <1>5, <1>7, <1>8, <1>9 DEF Next

-------------------------------------------------------------------------------
(***************************************************************************)
(* What is in the output directory, once nobody writes it.                 *)
(***************************************************************************)
LEMMA WholeFile ==
  ASSUME NEW c \in Clients, NEW e \in Offered, NEW s \in Seq(Blocks),
         Len(s) = e.len, \A i \in 1..e.len : s[i] = Content(c, e)[i]
  PROVE  s = Content(c, e) /\ s \in Sources(c, Trim[e.name])
<1>1. Content(c, e) = [i \in 1..e.len |-> Content(c, e)[i]]
  BY DEF Content
<1>2. s = [i \in 1..Len(s) |-> s[i]]
  OBVIOUS
<1>3. s = Content(c, e)
  BY <1>1, <1>2
<1>. QED
  BY <1>3 DEF Sources, Offered, Listed

\* A file that the step leaves alone is still explained.
LEMMA ExplainedFrame ==
  ASSUME PartialFileExplained, cut \subseteq cut',
         \A f \in Files :
           \/ Complete(f)'
           \/ f \in cut'
           \/ \E d \in Clients : file'[d] = f /\ Writing(d)'
           \/ /\ fs'[f] = fs[f]
              /\ \A d \in Clients : Writing(d) /\ file[d] = f =>
                                      (Writing(d)' /\ file'[d] = f) \/ f \in cut'
  PROVE  PartialFileExplained'
BY DEF PartialFileExplained, Complete

LEMMA NextExplained ==
  IInv /\ DialogueInv /\ PartialFileExplained /\ [Next]_vars => PartialFileExplained'
<1>. SUFFICES ASSUME ClientInv, HandlerInv, DialogueInv, PartialFileExplained, [Next]_vars
              PROVE  PartialFileExplained'
  BY IInvParts
<1>1. ASSUME UNCHANGED <<hpc, file, fs, cut>> PROVE PartialFileExplained'
  BY <1>1, ExplainedFrame DEF Writing
<1>2. CASE UNCHANGED vars
  BY <1>1, <1>2 DEF vars, handlerVars
<1>3. ASSUME NEW c \in Clients, Client(c) \/ User(c) \/ ClientLoses(c)
      PROVE  PartialFileExplained'
  BY <1>1, <1>3 DEF Client, User, ClientLoses, handlerVars
<1>4. ASSUME NEW c \in Clients, \/ Accept(c) \/ ReadCount(c) \/ ReadCountEof(c)
                                \/ SkipFile(c) \/ Again(c)
      PROVE  PartialFileExplained'
  <2>1. hpc[c] \notin {"long", "data"} /\ UNCHANGED <<file, fs, cut>>
    BY <1>4 DEF Accept, ReadCount, ReadCountEof, SkipFile, Again, NextFile, Goto, Ended
  <2>2. \A d \in Clients \ {c} : hpc'[d] = hpc[d]
    BY <1>4 DEF Accept, ReadCount, ReadCountEof, SkipFile, Again, NextFile, Goto, HandlerInv,
                HandlerTypeOK
  <2>. QED
    BY <2>1, <2>2, ExplainedFrame DEF Writing
<1>5. ASSUME NEW C \in SUBSET Clients, NEW l, Abandon(C, l) PROVE PartialFileExplained'
  BY <1>5, ExplainedFrame DEF Abandon, Writing
<1>6. CASE ServerStops
  BY <1>5, <1>6 DEF ServerStops
<1>7. ASSUME NEW c \in Clients, DiskFails(c) \/ CopyEof(c) \/ ConnectionFails(c)
      PROVE  PartialFileExplained'
  <2>1. PICK l : Abandon({c}, l)
    BY <1>7 DEF DiskFails, CopyEof, ConnectionFails
  <2>. QED
    BY <1>5, <2>1
<1>8. ASSUME NEW c \in Clients, CreateFile(c) PROVE PartialFileExplained'
  <2>1. PICK f : f = Trim[Taken(c)]
    OBVIOUS
  <2>2. /\ hpc[c] = "utf" /\ hpc' = [hpc EXCEPT ![c] = "long"]
        /\ file' = [file EXCEPT ![c] = f] /\ fs' = [fs EXCEPT ![f] = <<>>] /\ UNCHANGED cut
    BY <1>8, <2>1 DEF CreateFile, Goto
  <2>3. Writing(c)' /\ file'[c] = f
    BY <2>2 DEF HandlerInv, HandlerTypeOK, Writing
  <2>4. \A g \in Files \ {f} : fs'[g] = fs[g]
    BY <2>2 DEF HandlerInv, HandlerTypeOK
  <2>5. \A d \in Clients : Writing(d) => Writing(d)' /\ file'[d] = file[d]
    BY <2>2 DEF HandlerInv, HandlerTypeOK, Writing
  <2>. QED
    BY <2>2, <2>3, <2>4, <2>5, ExplainedFrame
<1>9. ASSUME NEW c \in Clients, NEW from \in {"long", "data"}, FinishFile(c, from), UNCHANGED cut,
             \A f \in Files \ {file[c]} : fs'[f] = fs[f],
             fs'[file[c]] \in Seq(Blocks),
             NEW e \in Offered, Filled(c, e), Len(fs'[file[c]]) = e.len,
             \A i \in 1..e.len : fs'[file[c]][i] = Content(c, e)[i]
      PROVE  PartialFileExplained'
  <2>. PICK g : g = file[c]
    OBVIOUS
  <2>1. Complete(g)'
    <3>1. fs'[g] \in Sources(c, Trim[e.name]) /\ Trim[e.name] = g
      BY <1>9, WholeFile DEF Filled
    <3>. QED
      BY <3>1 DEF Complete
  <2>2. /\ hpc[c] = from
        /\ \A d \in Clients \ {c} : hpc'[d] = hpc[d] /\ file'[d] = file[d]
    BY <1>9 DEF FinishFile, NextFile, Goto, HandlerInv, HandlerTypeOK
  <2>3. \A d \in Clients \ {c} : Writing(d) => Writing(d)' /\ file'[d] = file[d]
    BY <2>2 DEF Writing
  <2>. QED
    BY <1>9, <2>1, <2>3, ExplainedFrame
<1>10. ASSUME NEW c \in Clients, NEW to \in {"long", "data"}, Goto(c, to, "data"),
              UNCHANGED <<file, cut>>, \A f \in Files \ {file[c]} : fs'[f] = fs[f]
       PROVE  PartialFileExplained'
  <2>1. \A d \in Clients : Writing(d) => Writing(d)'
    BY <1>10 DEF Goto, HandlerInv, HandlerTypeOK, Writing
  <2>2. Writing(c)
    BY <1>10 DEF Goto, Writing
  <2>. QED
    BY <1>10, <2>1, <2>2, ExplainedFrame
<1>11. ASSUME NEW c \in Clients, ReadLength(c) PROVE PartialFileExplained'
  <2>1. UNCHANGED <<fs, cut>> /\ fs[file[c]] = <<>>
    BY <1>11, LengthTaken DEF ReadLength
  <2>2. PICK e \in Offered : Filled(c, e) /\ Taken(c) = e.len
    BY <1>11, LengthTaken
  <2>3. CASE Taken(c) = 0
    <3>1. FinishFile(c, "long")
      BY <1>11, <2>3 DEF ReadLength
    <3>2. /\ fs'[file[c]] \in Seq(Blocks) /\ Len(fs'[file[c]]) = e.len
          /\ \A i \in 1..e.len : fs'[file[c]][i] = Content(c, e)[i]
      BY <2>1, <2>2, <2>3
    <3>. QED
      BY <1>9, <2>1, <2>2, <3>1, <3>2
  <2>4. CASE Taken(c) # 0
    <3>1. Goto(c, "long", "data") /\ UNCHANGED file
      BY <1>11, <2>4 DEF ReadLength
    <3>. QED
      BY <1>10, <2>1, <3>1
  <2>. QED
    BY <2>3, <2>4
<1>12. ASSUME NEW c \in Clients, CopyBlock(c) PROVE PartialFileExplained'
  <2>1. /\ fs' = [fs EXCEPT ![file[c]] = Append(@, Taken(c))]
        /\ fs'[file[c]] = Append(fs[file[c]], Taken(c)) /\ fs[file[c]] \in Seq(Blocks)
        /\ got[c] \in Nat
    BY <1>12, BlockTaken
  <2>2. PICK e \in Offered :
          /\ Filled(c, e) /\ got[c] < e.len /\ length[c] = e.len
          /\ Len(fs'[file[c]]) = got[c] + 1
          /\ \A i \in 1..(got[c] + 1) : fs'[file[c]][i] = Content(c, e)[i]
    BY <1>12, BlockTaken
  <2>3. UNCHANGED cut /\ \A f \in Files \ {file[c]} : fs'[f] = fs[f]
    BY <1>12, <2>1 DEF CopyBlock, HandlerInv, HandlerTypeOK
  <2>4. CASE got[c] + 1 < length[c]
    <3>1. Goto(c, "data", "data") /\ UNCHANGED file
      BY <1>12, <2>4 DEF CopyBlock
    <3>. QED
      BY <1>10, <2>3, <3>1
  <2>5. CASE ~(got[c] + 1 < length[c])
    <3>1. FinishFile(c, "data")
      BY <1>12, <2>5 DEF CopyBlock
    <3>2. got[c] + 1 = e.len
      BY <2>1, <2>2, <2>5, OfferedType
    <3>3. fs'[file[c]] \in Seq(Blocks)
      BY <1>12, <2>1, TakenItem, AppendProperties DEF CopyBlock
    <3>. QED
      BY <1>9, <2>2, <2>3, <3>1, <3>2, <3>3
  <2>. QED
    BY <2>4, <2>5
<1>. QED
  BY <1>2, <1>3, <1>4, <1>6, <1>7, <1>8, <1>11, <1>12 DEF Next, Handler

THEOREM DialogueInvariance == Spec => [](IInv /\ DialogueInv /\ PartialFileExplained)
<1>1. Init => PartialFileExplained
  BY DEF Init, PartialFileExplained
<1>. QED
  BY <1>1, InitIInv, InitDialogue, NextIInv, NextDialogue, NextExplained, PTL DEF Spec

\* Client and handler never get out of step, whatever is in the directories and
\* however many of them are sent, also behind crashes and relaunches.
THEOREM Alignment == Spec => []StreamAligned
<1>1. IInv /\ DialogueInv => StreamAligned
  <2>. SUFFICES ASSUME ClientInv, HandlerInv, DialogueInv, NEW c \in Clients,
                       hpc[c] \in DOMAIN Expected, c2s[c] # <<>>
                PROVE  Head(c2s[c]).kind = Expected[hpc[c]]
    BY IInvParts DEF StreamAligned
  <2>1. hpc[c] \in {"int", "utf", "long", "data"}
    BY DEF Expected
  <2>2. PICK r : ReaderAt(c, r) /\ Conn(c, r)
    BY <2>1 DEF DialogueInv, Dialogue, Ended
  <2>3. PICK q : Reads(c, r, Head(c2s[c]), q)
    BY <2>2, HeadConn
  <2>4. CASE hpc[c] = "int"
    <3>1. r.at = "int"
      BY <2>2, <2>4 DEF ReaderAt, Writing, Round
    <3>. QED
      BY <2>3, <2>4, <3>1, ReadKinds DEF Expected
  <2>5. CASE hpc[c] = "utf"
    <3>1. left[c] > 0
      BY <2>5 DEF HandlerInv, LoopInv
    <3>2. r.at = "utf"
      BY <2>2, <2>5, <3>1 DEF ReaderAt, Writing, Round
    <3>. QED
      BY <2>3, <2>5, <3>2, ReadKinds DEF Expected
  <2>6. CASE hpc[c] \in {"long", "data"}
    <3>1. r.at = hpc[c]
      BY <2>2, <2>6 DEF ReaderAt, Midway
    <3>. QED
      BY <2>3, <2>6, <3>1, ReadKinds DEF Expected
  <2>. QED
    BY <2>1, <2>4, <2>5, <2>6
<1>. QED
  BY <1>1, DialogueInvariance, PTL

\* Nobody leaves an incomplete file behind but a handler whose connection, disk
\* or server failed.
THEOREM PartialExplained == Spec => []PartialFileExplained
<1>. QED
  BY DialogueInvariance, PTL

-------------------------------------------------------------------------------
(***************************************************************************)
(* The handlers implement WriteOnceStore.                                  *)
(***************************************************************************)
\* The writer of every file, as Store has it, where h are the handlers' places
\* and o the files they have open.
WriterAt(h, o) ==
  [f \in Files |-> IF \E c \in Clients : h[c] \in {"long", "data"} /\ o[c] = f
                   THEN CHOOSE c \in Clients : h[c] \in {"long", "data"} /\ o[c] = f
                   ELSE Nobody]

LEMMA WriterIs ==
  ASSUME NEW h, NEW o,
         \A c, d \in Clients :
           h[c] \in {"long", "data"} /\ h[d] \in {"long", "data"} /\ o[c] = o[d] => c = d
  PROVE  /\ WriterAt(h, o) \in [Files -> Clients \cup {Nobody}]
         /\ \A f \in Files, c \in Clients :
              WriterAt(h, o)[f] = c <=> h[c] \in {"long", "data"} /\ o[c] = f
<1>. DEFINE P(c, f) == h[c] \in {"long", "data"} /\ o[c] = f
<1>1. ASSUME NEW f \in Files, NEW c \in Clients, P(c, f)
      PROVE  WriterAt(h, o)[f] = c
  <2>1. (CHOOSE d \in Clients : P(d, f)) \in Clients /\ P((CHOOSE d \in Clients : P(d, f)), f)
    BY <1>1
  <2>2. (CHOOSE d \in Clients : P(d, f)) = c
    BY <1>1, <2>1
  <2>. QED
    BY <1>1, <2>2 DEF WriterAt
<1>2. ASSUME NEW f \in Files, \A c \in Clients : ~P(c, f)
      PROVE  WriterAt(h, o)[f] = Nobody
  BY <1>2 DEF WriterAt
<1>3. WriterAt(h, o) = [f \in Files |-> WriterAt(h, o)[f]]
  BY DEF WriterAt
<1>4. \A f \in Files : WriterAt(h, o)[f] \in Clients \cup {Nobody}
  BY <1>1, <1>2
<1>5. WriterAt(h, o) \in [Files -> Clients \cup {Nobody}]
  <2>. DEFINE w == WriterAt(h, o)
  <2>. HIDE DEF w
  <2>1. w = [f \in Files |-> w[f]]
    BY <1>3 DEF w
  <2>2. \A f \in Files : w[f] \in Clients \cup {Nobody}
    BY <1>4 DEF w
  <2>3. w \in [Files -> Clients \cup {Nobody}]
    BY <2>1, <2>2
  <2>. QED
    BY <2>3 DEF w
<1>6. ASSUME NEW f \in Files, NEW c \in Clients, WriterAt(h, o)[f] = c PROVE P(c, f)
  BY <1>1, <1>2, <1>6, NobodyAssumption
<1>. QED
  BY <1>1, <1>5, <1>6

LEMMA WriterOf ==
  ASSUME HandlerInv
  PROVE  /\ Writer \in [Files -> Clients \cup {Nobody}]
         /\ \A f \in Files, c \in Clients : Writer[f] = c <=> Writing(c) /\ file[c] = f
<1>1. Writer = WriterAt(hpc, file)
  BY DEF Writer, WriterAt, Writing
<1>. QED
  BY <1>1, WriterIs DEF Writing, HandlerInv, OneWriterPerFile

LEMMA NextWriterOf ==
  ASSUME HandlerInv'
  PROVE  /\ Writer' \in [Files -> Clients \cup {Nobody}]
         /\ \A f \in Files, c \in Clients : Writer'[f] = c <=> Writing(c)' /\ file'[c] = f
<1>1. \A c, d \in Clients :
         hpc'[c] \in {"long", "data"} /\ hpc'[d] \in {"long", "data"} /\ file'[c] = file'[d] => c = d
  BY DEF Writing, HandlerInv, OneWriterPerFile
<1>2. Writer' = WriterAt(hpc', file')
  BY DEF Writer, WriterAt, Writing
<1>. QED
  BY <1>1, <1>2, WriterIs DEF Writing

\* How the writers of a file change, seen from the handlers.
LEMMA WriterStep ==
  ASSUME HandlerInv, HandlerInv', NEW f \in Files
  PROVE  /\ (\A c \in Clients : Writing(c) /\ file[c] = f <=> Writing(c)' /\ file'[c] = f)
              => Writer'[f] = Writer[f]
         /\ (\A c \in Clients : ~(Writing(c)' /\ file'[c] = f)) => Writer'[f] = Nobody
         /\ Writer'[f] # Nobody => \E c \in Clients : Writing(c)' /\ file'[c] = f
<1>1. \A c \in Clients : Writer[f] = c <=> Writing(c) /\ file[c] = f
  BY WriterOf
<1>2. \A c \in Clients : Writer'[f] = c <=> Writing(c)' /\ file'[c] = f
  BY NextWriterOf
<1>3. Writer[f] \in Clients \cup {Nobody} /\ Writer'[f] \in Clients \cup {Nobody}
  BY WriterOf, NextWriterOf
<1>. QED
  BY <1>1, <1>2, <1>3, NobodyAssumption

\* The writers stay, but for those of F, who go.
LEMMA WriterLeaves ==
  ASSUME HandlerInv, HandlerInv', NEW F \in SUBSET Files,
         \A f \in F : \A c \in Clients : ~(Writing(c)' /\ file'[c] = f),
         \A f \in Files \ F : \A c \in Clients :
           Writing(c) /\ file[c] = f <=> Writing(c)' /\ file'[c] = f
  PROVE  Writer' = [f \in Files |-> IF f \in F THEN Nobody ELSE Writer[f]]
<1>1. \A f \in Files : Writer'[f] = IF f \in F THEN Nobody ELSE Writer[f]
  BY WriterStep
<1>. QED
  BY <1>1, NextWriterOf

LEMMA WriterStays ==
  ASSUME HandlerInv, HandlerInv',
         \A f \in Files : \A c \in Clients :
           Writing(c) /\ file[c] = f <=> Writing(c)' /\ file'[c] = f
  PROVE  Writer' = Writer
<1>1. \A f \in Files : Writer'[f] = Writer[f]
  BY WriterStep
<1>. QED
  BY <1>1, WriterOf, NextWriterOf

LEMMA InitStore == Init => Store!StoreInit
<1>. SUFFICES ASSUME Init PROVE Store!StoreInit
  OBVIOUS
<1>1. HandlerInv
  BY InitIInv, IInvParts
<1>2. \A c \in Clients : ~Writing(c)
  BY DEF Init, Writing
<1>3. Writer = [f \in Files |-> Nobody]
  BY <1>1, <1>2, WriterOf
<1>. QED
  BY <1>3 DEF Store!StoreInit, Init

LEMMA NextStore ==
  ASSUME ClientInv, HandlerInv, HandlerInv', DialogueInv, [Next]_vars
  PROVE  [Store!StoreNext]_<<fs, Writer>>
<1>1. ASSUME UNCHANGED <<hpc, file, fs>> PROVE UNCHANGED <<fs, Writer>>
  BY <1>1 DEF Writer, Writing
<1>2. CASE UNCHANGED vars
  BY <1>1, <1>2 DEF vars, handlerVars
<1>3. ASSUME NEW c \in Clients, Client(c) \/ User(c) \/ ClientLoses(c)
      PROVE  UNCHANGED <<fs, Writer>>
  BY <1>1, <1>3 DEF Client, User, ClientLoses, handlerVars
<1>4. ASSUME NEW c \in Clients, \/ Accept(c) \/ ReadCount(c) \/ ReadCountEof(c)
                                \/ SkipFile(c) \/ Again(c)
      PROVE  UNCHANGED <<fs, Writer>>
  <2>1. /\ hpc[c] \notin {"long", "data"} /\ hpc'[c] \notin {"long", "data"}
        /\ UNCHANGED <<file, fs>>
        /\ \A d \in Clients \ {c} : hpc'[d] = hpc[d]
    BY <1>4 DEF Accept, ReadCount, ReadCountEof, SkipFile, Again, NextFile, Goto, Ended,
                HandlerInv, HandlerTypeOK
  <2>. QED
    BY <2>1, WriterStays DEF Writing
<1>5. ASSUME NEW C \in SUBSET Clients, NEW l \in {"failed", "died", "killed"}, Abandon(C, l)
      PROVE  Store!StoreNext \/ UNCHANGED <<fs, Writer>>
  <2>. DEFINE F == {file[c] : c \in {c \in C : Writing(c)}}
  <2>1. F \in SUBSET Files /\ UNCHANGED fs
    BY <1>5 DEF HandlerInv, LoopInv, Abandon
  <2>2. \A c \in Clients : Writing(c)' <=> Writing(c) /\ c \notin C
    BY <1>5 DEF Abandon, Writing
  <2>3. \A c \in Clients \ C : file'[c] = file[c]
    BY <1>5 DEF Abandon
  <2>4. \A f \in F : \E c \in C : Writing(c) /\ file[c] = f
    OBVIOUS
  <2>5. \A c \in C : Writing(c) => file[c] \in F
    OBVIOUS
  <2>. HIDE DEF F
  <2>6. \A f \in F : \A c \in Clients : ~(Writing(c)' /\ file'[c] = f)
    BY <2>2, <2>3, <2>4 DEF HandlerInv, OneWriterPerFile
  <2>7. Writer' = [f \in Files |-> IF f \in F THEN Nobody ELSE Writer[f]]
    BY <2>1, <2>2, <2>3, <2>5, <2>6, WriterLeaves
  <2>8. CASE F = {}
    <3>1. Writer' = Writer
      BY <2>7, <2>8, WriterOf
    <3>. QED
      BY <2>1, <3>1
  <2>9. CASE F # {}
    <3>1. \A f \in F : Writer[f] # Nobody
      BY <2>1, <2>4, WriterOf, NobodyAssumption
    <3>. QED
      BY <2>1, <2>7, <2>9, <3>1 DEF Store!StoreNext, Store!Leave
  <2>. QED
    BY <2>8, <2>9
<1>6. CASE ServerStops
  BY <1>5, <1>6 DEF ServerStops
<1>7. ASSUME NEW c \in Clients, DiskFails(c) \/ CopyEof(c) \/ ConnectionFails(c)
      PROVE  Store!StoreNext \/ UNCHANGED <<fs, Writer>>
  <2>1. PICK l \in {"failed", "died"} : Abandon({c}, l)
    BY <1>7 DEF DiskFails, CopyEof, ConnectionFails
  <2>. QED
    BY <1>5, <2>1
<1>8. ASSUME NEW c \in Clients, CreateFile(c) PROVE Store!StoreNext
  <2>1. PICK f : f = Trim[Taken(c)]
    OBVIOUS
  <2>2. f \in Files
    BY <1>8, <2>1, TakenItem, TrimAssumption DEF CreateFile
  <2>3. /\ fs[f] = Absent /\ fs' = [fs EXCEPT ![f] = <<>>]
        /\ hpc'[c] = "long" /\ hpc[c] = "utf" /\ file'[c] = f
        /\ \A d \in Clients \ {c} : hpc'[d] = hpc[d] /\ file'[d] = file[d]
    BY <1>8, <2>1 DEF CreateFile, Goto, HandlerInv, HandlerTypeOK
  <2>4. \A d \in Clients : Writing(d) => file[d] # f
    BY <2>3 DEF HandlerInv, LoopInv
  <2>5. Writer'[f] = c
    BY <2>2, <2>3, NextWriterOf DEF Writing
  <2>6. \A g \in Files \ {f} : Writer'[g] = Writer[g]
    BY <2>3, <2>4, WriterStep DEF Writing
  <2>7. Writer' = [Writer EXCEPT ![f] = c]
    BY <2>2, <2>5, <2>6, WriterOf, NextWriterOf
  <2>. QED
    BY <2>2, <2>3, <2>7 DEF Store!StoreNext, Store!Create
<1>9. ASSUME NEW c \in Clients, NEW from \in {"long", "data"}, FinishFile(c, from)
      PROVE  /\ Writing(c) /\ file[c] \in Files /\ Writer[file[c]] = c
             /\ Writer' = [f \in Files |-> IF f \in {file[c]} THEN Nobody ELSE Writer[f]]
  <2>1. /\ hpc[c] = from /\ hpc'[c] \notin {"long", "data"}
        /\ \A d \in Clients \ {c} : hpc'[d] = hpc[d] /\ file'[d] = file[d]
    BY <1>9 DEF FinishFile, NextFile, Goto, HandlerInv, HandlerTypeOK
  <2>2. Writing(c) /\ file[c] \in Files
    BY <2>1 DEF Writing, HandlerInv, LoopInv
  <2>3. \A d \in Clients : Writing(d)' <=> Writing(d) /\ d # c
    BY <2>1 DEF Writing
  <2>4. \A d \in Clients \ {c} : Writing(d) => file[d] # file[c]
    BY <2>2 DEF HandlerInv, OneWriterPerFile
  <2>5. Writer' = [f \in Files |-> IF f \in {file[c]} THEN Nobody ELSE Writer[f]]
    <3>1. PICK F : F = {file[c]}
      OBVIOUS
    <3>2. F \in SUBSET Files
      BY <2>2, <3>1
    <3>3. \A f \in F : \A d \in Clients : ~(Writing(d)' /\ file'[d] = f)
      BY <2>1, <2>3, <2>4, <3>1
    <3>4. ASSUME NEW f \in Files \ F, NEW d \in Clients
          PROVE  Writing(d) /\ file[d] = f <=> Writing(d)' /\ file'[d] = f
      BY <2>1, <2>3, <3>1
    <3>5. Writer' = [f \in Files |-> IF f \in F THEN Nobody ELSE Writer[f]]
      BY <3>2, <3>3, <3>4, WriterLeaves
    <3>. QED
      BY <3>1, <3>5
  <2>. QED
    BY <2>2, <2>5, WriterOf
<1>10. ASSUME NEW c \in Clients, NEW from \in {"long", "data"}, Goto(c, from, "data"), UNCHANGED file
       PROVE  Writer' = Writer /\ Writing(c) /\ file[c] \in Files /\ Writer[file[c]] = c
  <2>1. \A d \in Clients : Writing(d)' <=> Writing(d)
    BY <1>10 DEF Goto, Writing, HandlerInv, HandlerTypeOK
  <2>2. Writing(c) /\ file[c] \in Files
    BY <1>10 DEF Goto, Writing, HandlerInv, LoopInv
  <2>. QED
    BY <1>10, <2>1, <2>2, WriterStays, WriterOf
<1>11. ASSUME NEW c \in Clients, ReadLength(c) PROVE Store!StoreNext \/ UNCHANGED <<fs, Writer>>
  <2>1. UNCHANGED fs
    BY <1>11, LengthTaken
  <2>2. CASE Taken(c) = 0
    <3>1. /\ file[c] \in Files /\ Writer[file[c]] = c
          /\ Writer' = [f \in Files |-> IF f \in {file[c]} THEN Nobody ELSE Writer[f]]
      BY <1>9, <1>11, <2>2 DEF ReadLength
    <3>2. Store!Leave({file[c]})
      BY <2>1, <3>1, NobodyAssumption DEF Store!Leave
    <3>. QED
      BY <3>1, <3>2 DEF Store!StoreNext
  <2>3. CASE Taken(c) # 0
    BY <1>10, <1>11, <2>1, <2>3 DEF ReadLength
  <2>. QED
    BY <2>2, <2>3
<1>12. ASSUME NEW c \in Clients, CopyBlock(c) PROVE Store!StoreNext
  <2>1. PICK g : g = file[c]
    OBVIOUS
  <2>2. /\ fs' = [fs EXCEPT ![g] = Append(@, Taken(c))]
        /\ fs[g] \in Seq(Blocks) /\ got[c] \in Nat
    BY <1>12, <2>1, BlockTaken
  <2>3. PICK e \in Offered :
          /\ Trim[e.name] = g /\ Len(fs[g]) = got[c] /\ got[c] < e.len
          /\ Taken(c) = Content(c, e)[got[c] + 1]
          /\ \A i \in 1..got[c] : fs[g][i] = Content(c, e)[i]
    BY <1>12, <2>1, BlockTaken DEF Filled
  <2>4. /\ g \in Files /\ Writer[g] = c
        /\ Writer' \in {Writer, [Writer EXCEPT ![g] = Nobody]}
    <3>1. CASE got[c] + 1 < length[c]
      BY <1>10, <1>12, <2>1, <3>1 DEF CopyBlock
    <3>2. CASE ~(got[c] + 1 < length[c])
      <4>1. /\ g \in Files /\ Writer[g] = c
            /\ Writer' = [f \in Files |-> IF f \in {g} THEN Nobody ELSE Writer[f]]
        BY <1>9, <1>12, <2>1, <3>2 DEF CopyBlock
      <4>2. Writer' = [Writer EXCEPT ![g] = Nobody]
        BY <4>1, WriterOf
      <4>. QED
        BY <4>1, <4>2
    <3>. QED
      BY <3>1, <3>2
  <2>5. PICK s : s = Content(c, e)
    OBVIOUS
  <2>6. s \in Sources(c, g)
    BY <2>3, <2>5 DEF Sources, Offered, Listed
  <2>7. IsStrictPrefix(fs[g], s)
    <3>1. s \in Seq(Blocks) /\ Len(s) = e.len
      <4>1. e \in Entries /\ e.len \in Nat /\ e.len <= MaxLen
        BY OfferedType
      <4>2. \A i \in 1..e.len : <<c, e, i>> \in Blocks
        BY <4>1, SizeAssumption DEF Blocks
      <4>. QED
        BY <2>5, <4>1, <4>2 DEF Content
    <3>2. got[c] <= Len(s) /\ got[c] # Len(s) /\ got[c] \in 0..Len(s)
      BY <2>2, <2>3, <3>1, OfferedType
    <3>3. SubSeq(s, 1, got[c]) = fs[g]
      <4>1. SubSeq(s, 1, got[c]) \in Seq(Blocks)
        BY <2>2, <3>1, <3>2
      <4>2. /\ Len(SubSeq(s, 1, got[c])) = got[c]
            /\ \A i \in 1..got[c] : SubSeq(s, 1, got[c])[i] = s[i]
        BY <2>2, <3>1, <3>2
      <4>. QED
        BY <2>2, <2>3, <2>5, <4>1, <4>2, SeqEqual
    <3>4. SubSeq(fs[g], 1, Len(fs[g])) = fs[g]
      BY <2>2
    <3>. QED
      BY <2>3, <3>2, <3>3, <3>4 DEF IsStrictPrefix, IsPrefix
  <2>8. fs' = [fs EXCEPT ![g] = Append(@, s[Len(@) + 1])]
    BY <2>2, <2>3, <2>5
  <2>9. Store!Grow(c, g)
    BY <2>4, <2>6, <2>7, <2>8 DEF Store!Grow, Store!IsStrictPrefix, Store!IsPrefix, IsStrictPrefix, IsPrefix
  <2>. QED
    BY <2>4, <2>9 DEF Store!StoreNext
<1>. QED
  BY <1>2, <1>3, <1>4, <1>6, <1>7, <1>8, <1>11, <1>12 DEF Next, Handler

\* Every behaviour of clients and handlers is, in the output directory, one of a
\* store in which a file is written once, by one client, in order, and kept.
THEOREM StoreImplemented == Spec => ImplementsStore
<1>1. IInv /\ IInv' /\ DialogueInv /\ [Next]_vars => [Store!StoreNext]_<<fs, Writer>>
  BY NextStore DEF IInv, ClientInv, HandlerInv, TypeOK, HandlerTypeOK
<1>. QED
  BY <1>1, InitStore, DialogueInvariance, PTL DEF Spec, ImplementsStore, Store!StoreSpec

-------------------------------------------------------------------------------
(***************************************************************************)
(* SeqPut: one client after the other.                                     *)
(***************************************************************************)
ServerTypeOK ==
  /\ backlog \in Seq(Clients)
  /\ serving \in Clients \cup {Nobody}
  /\ spc \in ServerLabels
  /\ rest \in Nat
  /\ target \in Files \cup {Absent}
  /\ dim \in Nat
  /\ written \in Nat
  /\ dir \in [Files -> Seq(Blocks \cup {Junk}) \cup {Absent}]
  /\ received \subseteq Files

SeqAtFile == spc \in {"long", "data"}

\* What the server's variables say of each other.
SeqLoopInv ==
  /\ spc = "accept" <=> serving = Nobody
  /\ spc \in {"accept", "int"} <=> rest = 0
  /\ spc # "data" => written = 0
  /\ IF SeqAtFile THEN target \in Files /\ dir[target] # Absent /\ target \notin received
               ELSE target = Absent
  /\ \A f \in received : dir[f] # Absent

\* A connection that waits has a client behind it, or had one; it is not the
\* one that is served, and its client is where the server will begin to read.
QueueInv ==
  /\ \A i, j \in DOMAIN backlog : backlog[i] = backlog[j] => i = j
  /\ \A i \in DOMAIN backlog : backlog[i] # serving /\ Conn(backlog[i], Round(0))
  /\ \A c \in Clients : cpc[c] = "start" => s2c[c] = <<>> /\ (Running => Unconnected(c))

\* The client will put nothing on the connection any more.
Gone(c) == c2s[c] = <<>> /\ cpc[c] \in {"start", "done", "dead"}

\* The file holds what has come of entry e, and junk behind that if the client
\* has broken off.
SeqFilled(e) ==
  /\ Trim[e.name] = target
  /\ Len(dir[target]) = written
  /\ \E k \in 0..written :
       /\ k = written \/ Gone(serving)
       /\ \A i \in 1..written : dir[target][i] = IF i <= k THEN Content(serving, e)[i] ELSE Junk

\* The loops of the server are at r.
SeqReaderAt(r) ==
  \/ spc = "int" /\ r = Round(0)
  \/ spc = "utf" /\ r = Round(rest)
  \/ \E e \in Offered :
       /\ SeqAtFile
       /\ r = Midway(spc, rest, e, written)
       /\ SeqFilled(e)
       /\ spc = "data" => written < e.len /\ dim = e.len

ServedInv == serving # Nobody => \E r : SeqReaderAt(r) /\ Conn(serving, r)

ServerInv == ServerTypeOK /\ SeqLoopInv

SeqDialogueInv == StreamInv /\ QueueInv /\ ServedInv

SeqIInv == ClientInv /\ ServerInv /\ SeqDialogueInv /\ ReceivedOrPadded

LEMMA SeqInitIInv == SeqInit => SeqIInv
<1>. SUFFICES ASSUME SeqInit PROVE SeqIInv
  OBVIOUS
<1>1. ClientInv /\ StreamInv
  BY ClientInitInv, InitStream DEF SeqInit
<1>2. ServerInv
  BY DEF SeqInit, ServerInv, ServerTypeOK, ServerLabels, SeqLoopInv, SeqAtFile
<1>3. QueueInv
  BY NobodyAssumption DEF SeqInit, ClientInit, QueueInv, Unconnected, ToSet
<1>4. ServedInv /\ ReceivedOrPadded
  BY DEF SeqInit, ServedInv, ReceivedOrPadded
<1>. QED
  BY <1>1, <1>2, <1>3, <1>4 DEF SeqIInv, SeqDialogueInv

LEMMA GoneConn ==
  ASSUME NEW c, Gone(c), NEW r
  PROVE  Conn(c, r)
<1>1. Run(c, r, c2s[c], r)
  BY RunEmpty DEF Gone
<1>2. Fits(c, r)
  BY DEF Gone, Fits
<1>. QED
  BY <1>1, <1>2 DEF Conn

-------------------------------------------------------------------------------
(***************************************************************************)
(* The clients' steps.                                                     *)
(***************************************************************************)
LEMMA SeqReaderFrame ==
  ASSUME NEW r, SeqReaderAt(r),
         UNCHANGED <<serving, spc, rest, target, dim, written>>,
         SeqAtFile => dir'[target] = dir[target],
         Gone(serving) => Gone(serving)'
  PROVE  SeqReaderAt(r)'
<1>1. ASSUME NEW e \in Offered, SeqAtFile, SeqFilled(e) PROVE SeqFilled(e)'
  <2>1. PICK k \in 0..written :
          /\ k = written \/ Gone(serving)
          /\ \A i \in 1..written : dir[target][i] = IF i <= k THEN Content(serving, e)[i] ELSE Junk
    BY <1>1 DEF SeqFilled
  <2>2. /\ Trim[e.name] = target' /\ Len(dir'[target']) = written' /\ k \in 0..written'
        /\ k = written' \/ Gone(serving)'
        /\ \A i \in 1..written' : dir'[target'][i] = IF i <= k THEN Content(serving', e)[i] ELSE Junk
    BY <1>1, <2>1 DEF SeqFilled, Content
  <2>. QED
    BY <2>2 DEF SeqFilled, Gone, Content
<1>. QED
  BY <1>1 DEF SeqReaderAt, SeqAtFile

\* Where a client moves, and the server does not.
LEMMA SeqClientMoves ==
  ASSUME ServerInv, SeqDialogueInv, NEW c \in Clients, Apart(c), UNCHANGED serverVars, StreamInv',
         \A r : Conn(c, r) => Conn(c, r)',
         Gone(c) => Gone(c)',
         cpc'[c] = "start" => s2c'[c] = <<>> /\ Unconnected(c)
  PROVE  SeqDialogueInv'
<1>1. UNCHANGED <<backlog, serving, spc, rest, target, dim, written, exit, dir, received>>
  BY DEF serverVars
<1>2. \A d \in Clients : \A r : Conn(d, r) => Conn(d, r)'
  BY ConnFrame DEF Apart
<1>3. \A d \in Clients : Gone(d) => Gone(d)'
  BY DEF Apart, Gone
<1>4. ServedInv'
  <2>. SUFFICES ASSUME serving # Nobody PROVE \E r : SeqReaderAt(r)' /\ Conn(serving, r)'
    BY <1>1 DEF ServedInv
  <2>1. serving \in Clients
    BY DEF ServerInv, ServerTypeOK
  <2>2. PICK r : SeqReaderAt(r) /\ Conn(serving, r)
    BY DEF SeqDialogueInv, ServedInv
  <2>3. PICK s : s = serving
    OBVIOUS
  <2>4. SeqReaderAt(r)'
    BY <1>1, <1>3, <2>1, <2>2, SeqReaderFrame DEF Gone
  <2>5. Conn(s, r)'
    BY <1>2, <2>1, <2>2, <2>3
  <2>. QED
    BY <1>1, <2>3, <2>4, <2>5 DEF Conn, Fits, Announced, Current
<1>5. QueueInv'
  <2>1. ASSUME NEW i \in DOMAIN backlog
        PROVE  backlog'[i] # serving' /\ Conn(backlog[i], Round(0))'
    <3>1. PICK d \in Clients : d = backlog[i]
      BY DEF ServerInv, ServerTypeOK
    <3>2. PICK r : r = Round(0)
      OBVIOUS
    <3>3. d # serving /\ Conn(d, r)
      BY <3>1, <3>2 DEF SeqDialogueInv, QueueInv
    <3>4. Conn(d, r)'
      BY <1>2, <3>3
    <3>. QED
      BY <1>1, <3>1, <3>2, <3>3, <3>4 DEF Conn, Fits, Announced, Current
  <2>2. ASSUME NEW d \in Clients, cpc'[d] = "start"
        PROVE  s2c'[d] = <<>> /\ (Running' => Unconnected(d)')
    <3>1. CASE d = c
      BY <1>1, <2>2, <3>1 DEF Unconnected, Running
    <3>2. CASE d # c
      BY <1>1, <2>2, <3>2 DEF Apart, SeqDialogueInv, QueueInv, Unconnected, Running
    <3>. QED
      BY <3>1, <3>2
  <2>. QED
    BY <1>1, <2>1, <2>2 DEF QueueInv, SeqDialogueInv
<1>. QED
  BY <1>4, <1>5 DEF SeqDialogueInv

\* The clients that wait, in a step that leaves their connections alone.
LEMMA QueueFrame ==
  ASSUME ServerInv, SeqDialogueInv, NEW c \in Clients, serving = c, Running, Apart(c),
         UNCHANGED <<cpc, backlog, serving, exit>>
  PROVE  QueueInv'
<1>1. ASSUME NEW i \in DOMAIN backlog
      PROVE  backlog'[i] # serving' /\ Conn(backlog[i], Round(0))'
  <2>1. PICK d \in Clients : d = backlog[i]
    BY DEF ServerInv, ServerTypeOK
  <2>2. PICK r : r = Round(0)
    OBVIOUS
  <2>3. d # serving /\ Conn(d, r)
    BY <2>1, <2>2 DEF SeqDialogueInv, QueueInv
  <2>4. Conn(d, r)'
    BY <2>3, ConnFrame DEF Apart
  <2>. QED
    BY <2>1, <2>2, <2>3, <2>4 DEF Conn, Fits, Announced, Current
<1>2. ASSUME NEW d \in Clients, cpc'[d] = "start"
      PROVE  s2c'[d] = <<>> /\ Unconnected(d)'
  <2>1. cpc[d] = "start" /\ s2c[d] = <<>> /\ Unconnected(d)
    BY <1>2 DEF SeqDialogueInv, QueueInv
  <2>2. d # c
    BY <2>1 DEF Unconnected
  <2>. QED
    BY <2>1, <2>2 DEF Apart, Unconnected, Running
<1>. QED
  BY <1>1, <1>2 DEF QueueInv, SeqDialogueInv

\* The client that is served, seen by the server.
LEMMA AtClient ==
  ASSUME ServerInv, SeqDialogueInv, NEW c \in Clients, NEW l, At(c, l)
  PROVE  /\ cpc[c] # "start" /\ spc = l /\ serving = c /\ Running
         /\ l = "int" => Conn(c, Round(0))
         /\ l = "utf" => Conn(c, Round(rest)) /\ rest \in Nat \ {0}
         /\ l \in {"long", "data"} =>
              /\ SeqAtFile /\ rest \in Nat \ {0}
              /\ \E e \in Offered :
                   /\ Conn(c, Midway(spc, rest, e, written)) /\ SeqFilled(e)
                   /\ spc = "data" => written < e.len /\ dim = e.len
<1>1. spc = l /\ serving = c /\ Running /\ serving # Nobody
  BY NobodyAssumption DEF At
<1>2. PICK r : SeqReaderAt(r) /\ Conn(c, r)
  BY <1>1 DEF SeqDialogueInv, ServedInv
<1>3. cpc[c] # "start"
  BY <1>1 DEF SeqDialogueInv, QueueInv, Unconnected
<1>4. l # "int" => rest \in Nat \ {0}
  BY <1>1 DEF ServerInv, ServerTypeOK, SeqLoopInv
<1>. QED
  BY <1>1, <1>2, <1>3, <1>4 DEF SeqReaderAt, SeqAtFile

\* A read or an answer between two files, or a read that is the last of one.
LEMMA SeqBetweenFiles ==
  ASSUME ServerInv, SeqDialogueInv, NEW c \in Clients, serving = c, Running, Apart(c),
         UNCHANGED <<cpc, backlog, serving, exit>>,
         StreamInv', NEW r, Conn(c, r)',
         \/ spc' = "int" /\ r = Round(0)
         \/ spc' = "utf" /\ r = Round(rest')
  PROVE  SeqDialogueInv'
<1>1. SeqReaderAt(r)'
  BY DEF SeqReaderAt
<1>2. ServedInv'
  BY <1>1 DEF ServedInv, Conn, Fits, Announced, Current
<1>. QED
  BY <1>2, QueueFrame DEF SeqDialogueInv

LEMMA AtEntry ==
  ASSUME ServerInv, SeqDialogueInv, NEW c \in Clients, serving = c, Running, Apart(c),
         UNCHANGED <<cpc, backlog, serving, exit>>,
         StreamInv', NEW r, Conn(c, r)', NEW e \in Offered, SeqFilled(e)', SeqAtFile',
         r = Midway(spc', rest', e, written'),
         spc' = "data" => written' < e.len /\ dim' = e.len
  PROVE  SeqDialogueInv'
<1>1. SeqReaderAt(r)'
  BY DEF SeqReaderAt
<1>2. ServedInv'
  BY <1>1 DEF ServedInv, Conn, Fits, Announced, Current
<1>. QED
  BY <1>2, QueueFrame DEF SeqDialogueInv

\* The end of a round of the for loop.
LEMMA SeqRoundEnds ==
  ASSUME rest \in Nat \ {0}, SeqNextFile, NEW r, r = Round(rest - 1)
  PROVE  /\ rest' \in Nat /\ rest' = rest - 1
         /\ \/ spc' = "int" /\ rest' = 0 /\ r = Round(0)
            \/ spc' = "utf" /\ rest' > 0 /\ r = Round(rest')
<1>1. rest' = rest - 1 /\ rest' \in Nat
  BY DEF SeqNextFile
<1>2. CASE rest > 1
  BY <1>1, <1>2 DEF SeqNextFile
<1>3. CASE ~(rest > 1)
  <2>1. rest - 1 = 0 /\ rest' = 0
    BY <1>1, <1>3
  <2>. QED
    BY <1>1, <1>3, <2>1 DEF SeqNextFile
<1>. QED
  BY <1>2, <1>3

LEMMA RoundEndsInv ==
  ASSUME ServerInv, rest \in Nat \ {0}, SeqNextFile, UNCHANGED <<dim, backlog, serving, exit>>,
         serving # Nobody, target' = Absent, written' = 0,
         dir' \in [Files -> Seq(Blocks \cup {Junk}) \cup {Absent}],
         received' \subseteq Files, \A f \in received' : dir'[f] # Absent
  PROVE  ServerInv'
<1>1. rest' \in Nat /\ spc' \in {"int", "utf"} /\ (spc' = "int" <=> rest' = 0)
  BY SeqRoundEnds
<1>2. ServerTypeOK'
  BY <1>1 DEF ServerInv, ServerTypeOK, ServerLabels
<1>3. SeqLoopInv'
  BY <1>1 DEF SeqLoopInv, SeqAtFile
<1>. QED
  BY <1>2, <1>3 DEF ServerInv

-------------------------------------------------------------------------------
(***************************************************************************)
(* The server's steps.                                                     *)
(***************************************************************************)
\* A file that is reported after the step holds a client's blocks, and junk
\* behind them at most.
Padded(f) ==
  \E c \in Clients : \E s \in Sources(c, f), k \in 0..MaxLen :
    /\ Len(dir[f]) = Len(s)
    /\ \A i \in DOMAIN s : dir[f][i] = IF i <= k THEN s[i] ELSE Junk

LEMMA PaddedFrame ==
  ASSUME ReceivedOrPadded, \A f \in received' : Padded(f)' \/ (f \in received /\ dir'[f] = dir[f])
  PROVE  ReceivedOrPadded'
BY DEF ReceivedOrPadded, Padded

LEMMA PaddedUnchanged ==
  ASSUME ReceivedOrPadded, UNCHANGED <<dir, received>>
  PROVE  ReceivedOrPadded'
BY DEF ReceivedOrPadded

\* What a whole file holds.
LEMMA SeqWholeFile ==
  ASSUME NEW c \in Clients, NEW e \in Offered, NEW f, f = Trim[e.name], Len(dir'[f]) = e.len,
         NEW k \in 0..e.len,
         \A i \in 1..e.len : dir'[f][i] = IF i <= k THEN Content(c, e)[i] ELSE Junk
  PROVE  Padded(f)'
<1>1. PICK s : s = Content(c, e)
  OBVIOUS
<1>2. s \in Sources(c, f)
  BY <1>1 DEF Sources, Offered, Listed
<1>3. e.len \in Nat /\ e.len <= MaxLen
  BY OfferedType
<1>4. DOMAIN s = 1..e.len /\ Len(s) = e.len
  BY <1>1, <1>3 DEF Content
<1>5. k \in 0..MaxLen
  BY <1>3, SizeAssumption
<1>6. \A i \in DOMAIN s : dir'[f][i] = IF i <= k THEN s[i] ELSE Junk
  BY <1>1, <1>4
<1>. QED
  BY <1>2, <1>4, <1>5, <1>6 DEF Padded, Sources, Content

LEMMA CountStep ==
  ASSUME SeqIInv, NEW c \in Clients, SeqReadCount(c)
  PROVE  SeqIInv'
<1>1. ClientInv /\ ServerInv /\ SeqDialogueInv /\ ReceivedOrPadded
  BY DEF SeqIInv
<1>2. /\ At(c, "int") /\ Take(c, "int") /\ rest' = Taken(c)
      /\ spc' = (IF Taken(c) > 0 THEN "utf" ELSE "int")
      /\ UNCHANGED <<cpc, todo, sent, s2c, backlog, serving, target, dim, written, exit, dir,
                     received>>
  BY DEF SeqReadCount
<1>3. cpc[c] # "start" /\ spc = "int" /\ serving = c /\ Running /\ Conn(c, Round(0))
  BY <1>1, <1>2, AtClient
<1>4. StreamInv' /\ Apart(c) /\ \E q : Reads(c, Round(0), Head(c2s[c]), q) /\ Conn(c, q)'
  BY <1>1, <1>2, <1>3, TakeConn DEF SeqDialogueInv
<1>5. PICK q : Reads(c, Round(0), Head(c2s[c]), q) /\ Conn(c, q)'
  BY <1>4
<1>6. PICK n \in Nat : Head(c2s[c]) = Int32(n) /\ q = Round(n)
  BY <1>5 DEF Reads, Round
<1>7. Taken(c) = n
  BY <1>6 DEF Taken, Int32
<1>8. SeqDialogueInv'
  <2>1. CASE n > 0
    BY <1>1, <1>2, <1>3, <1>4, <1>5, <1>6, <1>7, <2>1, SeqBetweenFiles
  <2>2. CASE ~(n > 0)
    <3>1. n = 0
      BY <2>2
    <3>. QED
      BY <1>1, <1>2, <1>3, <1>4, <1>5, <1>6, <1>7, <3>1, SeqBetweenFiles
  <2>. QED
    BY <2>1, <2>2
<1>9. ServerInv'
  BY <1>1, <1>2, <1>3, <1>7 DEF ServerInv, ServerTypeOK, ServerLabels, SeqLoopInv, SeqAtFile
<1>10. ClientInv'
  <2>1. s2c' \in [Clients -> Seq(Replies)]
    BY <1>1, <1>2 DEF ClientInv, ClientTypeOK
  <2>. QED
    BY <1>1, <1>2, <2>1, TakeInv
<1>11. ReceivedOrPadded'
  BY <1>1, <1>2, PaddedUnchanged
<1>. QED
  BY <1>8, <1>9, <1>10, <1>11 DEF SeqIInv

LEMMA NameStep ==
  ASSUME SeqIInv, NEW c \in Clients, SeqCreateFile(c) \/ SeqSkipFile(c)
  PROVE  SeqIInv'
<1>1. ClientInv /\ ServerInv /\ SeqDialogueInv /\ ReceivedOrPadded
  BY DEF SeqIInv
<1>2. /\ At(c, "utf") /\ Take(c, "utf")
      /\ UNCHANGED <<cpc, todo, sent, backlog, serving, dim, written, exit, received>>
  BY DEF SeqCreateFile, SeqSkipFile
<1>. PICK n : n = rest
  OBVIOUS
<1>3. /\ cpc[c] # "start" /\ spc = "utf" /\ serving = c /\ Running
      /\ Conn(c, Round(n)) /\ n \in Nat \ {0}
  BY <1>1, <1>2, AtClient
<1>4. written = 0 /\ target = Absent /\ serving # Nobody
  BY <1>1, <1>3, NobodyAssumption DEF ServerInv, SeqLoopInv, SeqAtFile
<1>5. CASE SeqCreateFile(c)
  <2>1. "attiva" \in Replies /\ Answer(c, "attiva")
    BY <1>5 DEF SeqCreateFile, Replies
  <2>2. StreamInv' /\ Apart(c)
    BY <1>1, <1>2, <1>3, <2>1, AnswerConn DEF SeqDialogueInv
  <2>3. PICK e \in Offered : Taken(c) = e.name /\ Conn(c, Midway("long", n, e, 0))'
    BY <1>1, <1>2, <1>3, <2>1, AnswerConn DEF SeqDialogueInv
  <2>4. PICK f : f = Trim[Taken(c)]
    OBVIOUS
  <2>5. /\ f \in Files /\ dir[f] = Absent
        /\ spc' = "long" /\ target' = f /\ dir' = [dir EXCEPT ![f] = <<>>]
        /\ UNCHANGED rest
    BY <1>5, <2>3, <2>4, OfferedType DEF SeqCreateFile
  <2>6. dir'[f] = <<>> /\ \A g \in Files \ {f} : dir'[g] = dir[g]
    BY <1>1, <2>5 DEF ServerInv, ServerTypeOK
  <2>7. PICK r : r = Midway("long", n, e, 0)
    OBVIOUS
  <2>8. SeqFilled(e)'
    BY <1>2, <1>4, <2>3, <2>4, <2>5, <2>6 DEF SeqFilled
  <2>9. SeqDialogueInv'
    BY <1>1, <1>2, <1>3, <1>4, <2>2, <2>3, <2>5, <2>7, <2>8, AtEntry DEF SeqAtFile
  <2>10. f \notin received
    BY <1>1, <2>5 DEF ServerInv, SeqLoopInv
  <2>11. ServerInv'
    <3>1. <<>> \in Seq(Blocks \cup {Junk}) /\ <<>> # Absent
      <4>1. <<>> \in Seq(Blocks \cup {Junk})
        OBVIOUS
      <4>. QED
        BY <4>1, JunkAssumption
    <3>2. dir' \in [Files -> Seq(Blocks \cup {Junk}) \cup {Absent}]
      BY <1>1, <2>5, <3>1 DEF ServerInv, ServerTypeOK
    <3>3. ServerTypeOK'
      BY <1>1, <1>2, <2>5, <3>2 DEF ServerInv, ServerTypeOK, ServerLabels
    <3>4. SeqLoopInv'
      BY <1>1, <1>2, <1>3, <1>4, <2>5, <2>6, <2>10, <3>1
      DEF ServerInv, ServerTypeOK, SeqLoopInv, SeqAtFile
    <3>. QED
      BY <3>3, <3>4 DEF ServerInv
  <2>12. ReceivedOrPadded'
    BY <1>1, <1>2, <2>6, <2>10, PaddedFrame DEF ServerInv, ServerTypeOK
  <2>13. ClientInv'
    <3>1. s2c' \in [Clients -> Seq(Replies)]
      BY <1>1, <2>1, AnswerType
    <3>. QED
      BY <1>1, <1>2, <3>1, TakeInv
  <2>. QED
    BY <2>9, <2>11, <2>12, <2>13 DEF SeqIInv
<1>6. CASE SeqSkipFile(c)
  <2>1. /\ "non attivare" \in Replies /\ Answer(c, "non attivare")
        /\ SeqNextFile /\ UNCHANGED <<target, dir>>
    BY <1>6 DEF SeqSkipFile, Replies
  <2>2. PICK r : r = Round(n - 1)
    OBVIOUS
  <2>3. StreamInv' /\ Apart(c) /\ Conn(c, r)'
    BY <1>1, <1>2, <1>3, <2>1, <2>2, AnswerConn DEF SeqDialogueInv
  <2>4. \/ spc' = "int" /\ rest' = 0 /\ r = Round(0)
        \/ spc' = "utf" /\ rest' > 0 /\ r = Round(rest')
    BY <1>3, <2>1, <2>2, SeqRoundEnds
  <2>5. SeqDialogueInv'
    BY <1>1, <1>2, <1>3, <2>3, <2>4, SeqBetweenFiles
  <2>6. ServerInv'
    BY <1>1, <1>2, <1>3, <1>4, <2>1, RoundEndsInv DEF ServerInv, ServerTypeOK, SeqLoopInv
  <2>7. ReceivedOrPadded'
    BY <1>1, <1>2, <2>1, PaddedUnchanged
  <2>8. ClientInv'
    <3>1. s2c' \in [Clients -> Seq(Replies)]
      BY <1>1, <2>1, AnswerType
    <3>. QED
      BY <1>1, <1>2, <3>1, TakeInv
  <2>. QED
    BY <2>5, <2>6, <2>7, <2>8 DEF SeqIInv
<1>. QED
  BY <1>5, <1>6

\* The last block of a file, or a length of 0: it is reported, and what it holds
\* is what has come of an entry.
LEMMA FinishStep ==
  ASSUME SeqIInv, NEW c \in Clients, serving = c, Running, cpc[c] # "start", Apart(c),
         rest \in Nat \ {0}, SeqAtFile,
         ClientInv', StreamInv', UNCHANGED <<cpc, backlog, serving, exit>>, SeqFinishFile,
         dir' \in [Files -> Seq(Blocks \cup {Junk}) \cup {Absent}],
         \A f \in Files \ {target} : dir'[f] = dir[f], dir'[target] # Absent,
         NEW e \in Offered, Trim[e.name] = target, Len(dir'[target]) = e.len, NEW k \in 0..e.len,
         \A i \in 1..e.len : dir'[target][i] = IF i <= k THEN Content(c, e)[i] ELSE Junk,
         NEW r, r = Round(rest - 1), Conn(c, r)'
  PROVE  SeqIInv'
<1>1. ClientInv /\ ServerInv /\ SeqDialogueInv /\ ReceivedOrPadded
  BY DEF SeqIInv
<1>2. /\ SeqNextFile /\ received' = received \cup {target}
      /\ target' = Absent /\ dim' = 0 /\ written' = 0
  BY DEF SeqFinishFile
<1>3. target \in Files /\ target \notin received /\ serving # Nobody
  BY <1>1, NobodyAssumption DEF ServerInv, SeqLoopInv
<1>4. SeqDialogueInv'
  BY <1>1, <1>2, SeqRoundEnds, SeqBetweenFiles
<1>5. \A f \in received' : dir'[f] # Absent
  BY <1>1, <1>2, <1>3 DEF ServerInv, ServerTypeOK, SeqLoopInv
<1>6. ServerInv'
  <2>1. rest' \in Nat /\ spc' \in {"int", "utf"} /\ (spc' = "int" <=> rest' = 0)
    BY <1>2, SeqRoundEnds
  <2>2. received' \subseteq Files
    BY <1>1, <1>2, <1>3 DEF ServerInv, ServerTypeOK
  <2>3. ServerTypeOK'
    BY <1>1, <1>2, <2>1, <2>2 DEF ServerInv, ServerTypeOK, ServerLabels
  <2>4. SeqLoopInv'
    BY <1>2, <1>3, <1>5, <2>1 DEF SeqLoopInv, SeqAtFile
  <2>. QED
    BY <2>3, <2>4 DEF ServerInv
<1>7. ReceivedOrPadded'
  <2>1. PICK g : g = target
    OBVIOUS
  <2>2. Padded(g)'
    BY <2>1, SeqWholeFile
  <2>3. \A f \in received : f # g /\ f \in Files
    BY <1>1, <1>3, <2>1 DEF ServerInv, ServerTypeOK
  <2>. QED
    BY <1>1, <1>2, <2>1, <2>2, <2>3, PaddedFrame
<1>. QED
  BY <1>4, <1>6, <1>7 DEF SeqIInv

\* The server goes on with the file it is at.
LEMMA FileStep ==
  ASSUME SeqIInv, NEW c \in Clients, serving = c, Running, cpc[c] # "start", Apart(c),
         rest \in Nat \ {0}, SeqAtFile,
         ClientInv', StreamInv', UNCHANGED <<cpc, backlog, serving, exit, rest, target, received>>,
         spc' = "data",
         dir' \in [Files -> Seq(Blocks \cup {Junk}) \cup {Absent}],
         \A f \in Files \ {target} : dir'[f] = dir[f], dir'[target] # Absent,
         NEW e \in Offered, Trim[e.name] = target, Len(dir'[target]) = written', NEW k \in 0..written',
         written' \in Nat, dim' = e.len, written' < e.len,
         k = written' \/ Gone(c)',
         \A i \in 1..written' : dir'[target][i] = IF i <= k THEN Content(c, e)[i] ELSE Junk,
         NEW r, r = Midway("data", rest, e, written'), Conn(c, r)'
  PROVE  SeqIInv'
<1>1. ClientInv /\ ServerInv /\ SeqDialogueInv /\ ReceivedOrPadded
  BY DEF SeqIInv
<1>2. target \in Files /\ target \notin received /\ serving # Nobody
  BY <1>1, NobodyAssumption DEF ServerInv, SeqLoopInv
<1>3. SeqFilled(e)'
  <2>1. /\ Trim[e.name] = target' /\ Len(dir'[target']) = written' /\ k \in 0..written'
        /\ k = written' \/ Gone(serving)'
        /\ \A i \in 1..written' : dir'[target'][i] = IF i <= k THEN Content(serving', e)[i] ELSE Junk
    BY DEF Gone, Content
  <2>. QED
    BY <2>1 DEF SeqFilled, Gone, Content
<1>4. SeqDialogueInv'
  BY <1>1, <1>3, AtEntry DEF SeqAtFile
<1>5. ServerInv'
  <2>1. e.len \in Nat
    BY OfferedType
  <2>2. ServerTypeOK'
    BY <1>1, <2>1 DEF ServerInv, ServerTypeOK, ServerLabels
  <2>3. \A f \in received : dir'[f] # Absent
    BY <1>1, <1>2 DEF ServerInv, ServerTypeOK, SeqLoopInv
  <2>4. SeqLoopInv'
    BY <1>2, <2>3 DEF SeqLoopInv, SeqAtFile
  <2>. QED
    BY <2>2, <2>4 DEF ServerInv
<1>6. ReceivedOrPadded'
  <2>1. \A f \in received : f \in Files \ {target}
    BY <1>1, <1>2 DEF ServerInv, ServerTypeOK
  <2>. QED
    BY <1>1, <2>1, PaddedFrame
<1>. QED
  BY <1>4, <1>5, <1>6 DEF SeqIInv

LEMMA LengthStep ==
  ASSUME SeqIInv, NEW c \in Clients, SeqReadLength(c)
  PROVE  SeqIInv'
<1>1. ClientInv /\ ServerInv /\ SeqDialogueInv
  BY DEF SeqIInv
<1>2. /\ At(c, "long") /\ Take(c, "long") /\ dir' = [dir EXCEPT ![target] = <<>>]
      /\ UNCHANGED <<cpc, todo, sent, s2c, backlog, serving, exit>>
  BY DEF SeqReadLength
<1>3. cpc[c] # "start" /\ spc = "long" /\ serving = c /\ Running /\ SeqAtFile /\ rest \in Nat \ {0}
  BY <1>1, <1>2, AtClient
<1>4. PICK e \in Offered : Conn(c, Midway("long", rest, e, written)) /\ SeqFilled(e)
  BY <1>1, <1>2, <1>3, AtClient
<1>5. written = 0 /\ target \in Files /\ dir[target] \in Seq(Blocks \cup {Junk})
  BY <1>1, <1>3 DEF ServerInv, ServerTypeOK, SeqLoopInv
<1>6. PICK r : r = Midway("long", rest, e, 0)
  OBVIOUS
<1>7. StreamInv' /\ Apart(c) /\ \E q : Reads(c, r, Head(c2s[c]), q) /\ Conn(c, q)'
  BY <1>1, <1>2, <1>4, <1>5, <1>6, TakeConn DEF SeqDialogueInv
<1>8. PICK q : Reads(c, r, Head(c2s[c]), q) /\ Conn(c, q)'
  BY <1>7
<1>9. Head(c2s[c]) = Int64(e.len) /\ q = Filling(rest, e, 0) /\ e.len \in Nat
  BY <1>6, <1>8, OfferedType DEF Reads, Midway
<1>10. Taken(c) = e.len
  BY <1>9 DEF Taken, Int64
<1>11. Trim[e.name] = target /\ Len(dir[target]) = 0
  BY <1>4, <1>5 DEF SeqFilled
<1>12. dir[target] = <<>>
  BY <1>5, <1>11, EmptySeq
<1>13. /\ dir' = dir /\ dir'[target] # Absent
       /\ dir' \in [Files -> Seq(Blocks \cup {Junk}) \cup {Absent}]
  BY <1>1, <1>2, <1>3, <1>12 DEF ServerInv, ServerTypeOK, SeqLoopInv
<1>14. ClientInv'
  <2>1. s2c' \in [Clients -> Seq(Replies)]
    BY <1>1, <1>2 DEF ClientInv, ClientTypeOK
  <2>. QED
    BY <1>1, <1>2, <2>1, TakeInv
<1>15. CASE Taken(c) = 0
  <2>1. SeqFinishFile
    BY <1>15 DEF SeqReadLength
  <2>2. q = Round(rest - 1) /\ e.len = 0
    BY <1>9, <1>10, <1>15 DEF Filling
  <2>3. /\ 0 \in 0..e.len /\ Len(dir'[target]) = e.len
        /\ \A i \in 1..e.len : dir'[target][i] = IF i <= 0 THEN Content(c, e)[i] ELSE Junk
    BY <1>11, <1>13, <2>2
  <2>. QED
    BY <1>2, <1>3, <1>7, <1>8, <1>11, <1>13, <1>14, <2>1, <2>2, <2>3, FinishStep
<1>16. CASE Taken(c) # 0
  <2>1. spc' = "data" /\ dim' = e.len /\ UNCHANGED <<rest, target, written, received>>
    BY <1>10, <1>16 DEF SeqReadLength
  <2>2. q = Midway("data", rest, e, written') /\ written' < e.len
    BY <1>5, <1>9, <1>10, <1>16, <2>1 DEF Filling
  <2>3. /\ 0 \in 0..written' /\ Len(dir'[target]) = written' /\ written' \in Nat
        /\ \A i \in 1..written' : dir'[target][i] = IF i <= 0 THEN Content(c, e)[i] ELSE Junk
    BY <1>5, <1>11, <1>13, <2>1
  <2>. QED
    BY <1>2, <1>3, <1>5, <1>7, <1>8, <1>11, <1>13, <1>14, <2>1, <2>2, <2>3, FileStep
<1>. QED
  BY <1>15, <1>16

\* One byte more in the file: a block of the client's, or junk.
LEMMA WriteStep ==
  ASSUME SeqIInv, NEW c \in Clients, At(c, "data"), Apart(c), ClientInv', StreamInv',
         UNCHANGED <<cpc, backlog, serving, exit>>,
         NEW b \in Blocks \cup {Junk}, WriteBlock(b),
         NEW e \in Offered, Trim[e.name] = target, Len(dir[target]) = written,
         written < e.len, dim = e.len,
         NEW k \in 0..(written + 1), k = written + 1 \/ Gone(c)',
         \A i \in 1..written : dir[target][i] = IF i <= k THEN Content(c, e)[i] ELSE Junk,
         b = IF written + 1 <= k THEN Content(c, e)[written + 1] ELSE Junk,
         NEW q, q = Filling(rest, e, written + 1), Conn(c, q)'
  PROVE  SeqIInv'
<1>1. ClientInv /\ ServerInv /\ SeqDialogueInv
  BY DEF SeqIInv
<1>2. cpc[c] # "start" /\ spc = "data" /\ serving = c /\ Running /\ SeqAtFile /\ rest \in Nat \ {0}
  BY <1>1, AtClient
<1>3. target \in Files /\ dir[target] \in Seq(Blocks \cup {Junk}) /\ written \in Nat /\ e.len \in Nat
  BY <1>1, <1>2, OfferedType DEF ServerInv, ServerTypeOK, SeqLoopInv
<1>4. dir' = [dir EXCEPT ![target] = Append(@, b)]
  BY DEF WriteBlock
<1>5. dir'[target] = Append(dir[target], b) /\ \A f \in Files \ {target} : dir'[f] = dir[f]
  BY <1>1, <1>3, <1>4 DEF ServerInv, ServerTypeOK
<1>6. Append(dir[target], b) \in Seq(Blocks \cup {Junk})
  BY <1>3, AppendProperties
<1>7. dir'[target] # Absent /\ dir' \in [Files -> Seq(Blocks \cup {Junk}) \cup {Absent}]
  BY <1>1, <1>3, <1>4, <1>5, <1>6, JunkAssumption DEF ServerInv, ServerTypeOK
<1>8. /\ Len(dir'[target]) = written + 1 /\ dir'[target][written + 1] = b
      /\ \A i \in 1..written : dir'[target][i] = dir[target][i]
  BY <1>3, <1>5, AppendProperties
<1>9. ASSUME NEW i \in 1..(written + 1)
      PROVE  dir'[target][i] = IF i <= k THEN Content(c, e)[i] ELSE Junk
  <2>1. i = written + 1 \/ i \in 1..written
    BY <1>3
  <2>. QED
    BY <1>8, <2>1
<1>10. CASE written + 1 < dim
  <2>1. spc' = "data" /\ written' = written + 1 /\ UNCHANGED <<rest, target, dim, received>>
    BY <1>10 DEF WriteBlock
  <2>2. q = Midway("data", rest, e, written') /\ written' < e.len /\ written' \in Nat
    BY <1>3, <1>10, <2>1 DEF Filling
  <2>3. /\ k \in 0..written' /\ Len(dir'[target]) = written'
        /\ k = written' \/ Gone(c)'
        /\ \A i \in 1..written' : dir'[target][i] = IF i <= k THEN Content(c, e)[i] ELSE Junk
    BY <1>8, <1>9, <2>1
  <2>. QED
    BY <1>2, <1>5, <1>7, <2>1, <2>2, <2>3, FileStep
<1>11. CASE ~(written + 1 < dim)
  <2>1. SeqFinishFile
    BY <1>11 DEF WriteBlock
  <2>2. written + 1 = e.len
    BY <1>3, <1>11
  <2>3. q = Round(rest - 1)
    BY <2>2, <1>3 DEF Filling
  <2>4. /\ k \in 0..e.len /\ Len(dir'[target]) = e.len
        /\ \A i \in 1..e.len : dir'[target][i] = IF i <= k THEN Content(c, e)[i] ELSE Junk
    BY <1>8, <1>9, <2>2
  <2>. QED
    BY <1>2, <1>5, <1>7, <2>1, <2>3, <2>4, FinishStep
<1>. QED
  BY <1>10, <1>11

LEMMA BlockStep ==
  ASSUME SeqIInv, NEW c \in Clients, SeqCopyBlock(c)
  PROVE  SeqIInv'
<1>1. ClientInv /\ ServerInv /\ SeqDialogueInv
  BY DEF SeqIInv
<1>2. /\ At(c, "data") /\ Take(c, "block") /\ WriteBlock(Taken(c))
      /\ UNCHANGED <<cpc, todo, sent, s2c, backlog, serving, exit>>
  BY DEF SeqCopyBlock
<1>3. spc = "data" /\ serving = c
  BY <1>1, <1>2, AtClient
<1>4. PICK e \in Offered : /\ Conn(c, Midway("data", rest, e, written)) /\ SeqFilled(e)
                           /\ written < e.len /\ dim = e.len
  BY <1>1, <1>2, <1>3, AtClient
<1>5. PICK r : r = Midway("data", rest, e, written)
  OBVIOUS
<1>6. StreamInv' /\ Apart(c) /\ \E q : Reads(c, r, Head(c2s[c]), q) /\ Conn(c, q)'
  BY <1>1, <1>2, <1>4, <1>5, TakeConn DEF SeqDialogueInv
<1>7. PICK q : Reads(c, r, Head(c2s[c]), q) /\ Conn(c, q)'
  BY <1>6
<1>8. Head(c2s[c]) = Block(Content(c, e)[written + 1]) /\ q = Filling(rest, e, written + 1)
  BY <1>5, <1>7 DEF Reads, Midway
<1>9. Taken(c) = Content(c, e)[written + 1] /\ Taken(c) \in Blocks
  BY <1>1, <1>2, <1>8, TakenItem DEF Taken, Block
<1>10. c2s[c] # <<>> /\ written \in Nat
  BY <1>1, <1>2 DEF Take, ServerInv, ServerTypeOK
<1>11. /\ Trim[e.name] = target /\ Len(dir[target]) = written
       /\ \A i \in 1..written : dir[target][i] = Content(c, e)[i]
  BY <1>3, <1>4, <1>10 DEF SeqFilled, Gone
<1>12. PICK k : k = written + 1
  OBVIOUS
<1>13. /\ k \in 0..(written + 1)
       /\ \A i \in 1..written : dir[target][i] = IF i <= k THEN Content(c, e)[i] ELSE Junk
       /\ Taken(c) = IF written + 1 <= k THEN Content(c, e)[written + 1] ELSE Junk
  BY <1>9, <1>10, <1>11, <1>12
<1>14. ClientInv'
  <2>1. s2c' \in [Clients -> Seq(Replies)]
    BY <1>1, <1>2 DEF ClientInv, ClientTypeOK
  <2>. QED
    BY <1>1, <1>2, <2>1, TakeInv
<1>15. PICK b \in Blocks \cup {Junk} : b = Taken(c)
  BY <1>9
<1>. QED
  BY <1>2, <1>4, <1>6, <1>7, <1>8, <1>11, <1>12, <1>13, <1>14, <1>15, WriteStep

\* read returns -1 again and again: the loop is in step with a client that has
\* broken off, whatever it counts.
LEMMA EofStep ==
  ASSUME SeqIInv, NEW c \in Clients, SeqCopyEof(c)
  PROVE  SeqIInv'
<1>1. ClientInv /\ ServerInv /\ SeqDialogueInv
  BY DEF SeqIInv
<1>2. /\ At(c, "data") /\ WriteBlock(Junk)
      /\ UNCHANGED <<cpc, todo, sent, c2s, s2c, backlog, serving, exit>>
      /\ Gone(c)
  BY DEF SeqCopyEof, clientVars, EndOfStream, AtEnd, Gone
<1>3. spc = "data" /\ serving = c
  BY <1>1, <1>2, AtClient
<1>4. PICK e \in Offered : SeqFilled(e) /\ written < e.len /\ dim = e.len
  BY <1>1, <1>2, <1>3, AtClient
<1>5. PICK k \in 0..written :
        \A i \in 1..written : dir[target][i] = IF i <= k THEN Content(c, e)[i] ELSE Junk
  BY <1>3, <1>4 DEF SeqFilled
<1>6. Trim[e.name] = target /\ Len(dir[target]) = written /\ written \in Nat
  BY <1>1, <1>4 DEF SeqFilled, ServerInv, ServerTypeOK
<1>7. k \in 0..(written + 1) /\ ~(written + 1 <= k)
  BY <1>6
<1>8. Gone(c)' /\ Apart(c) /\ ClientInv' /\ StreamInv'
  BY <1>1, <1>2
  DEF Gone, Apart, ClientInv, ClientTypeOK, TodoInv, SeqDialogueInv, StreamInv, Current
<1>9. PICK q : q = Filling(rest, e, written + 1)
  OBVIOUS
<1>10. Conn(c, q)'
  <2>1. Conn(c, q)
    BY <1>2, GoneConn
  <2>. QED
    BY <1>2, <2>1, ConnFrame
<1>11. PICK b \in Blocks \cup {Junk} : b = Junk
  OBVIOUS
<1>12. b = IF written + 1 <= k THEN Content(c, e)[written + 1] ELSE Junk
  BY <1>7, <1>11
<1>. QED
  BY <1>2, <1>4, <1>5, <1>6, <1>7, <1>8, <1>9, <1>10, <1>11, <1>12, WriteStep

\* Nothing moves but that the server may exit.
LEMMA StillStep ==
  ASSUME SeqIInv, UNCHANGED <<cpc, todo, sent, c2s, s2c>>,
         UNCHANGED <<backlog, serving, spc, rest, target, dim, written, dir, received>>,
         Running' => Running
  PROVE  SeqIInv'
<1>1. ClientInv /\ ServerInv /\ SeqDialogueInv /\ ReceivedOrPadded
  BY DEF SeqIInv
<1>2. ClientInv' /\ StreamInv'
  BY <1>1 DEF ClientInv, ClientTypeOK, TodoInv, SeqDialogueInv, StreamInv, Current
<1>3. ServerInv' /\ ReceivedOrPadded'
  BY <1>1 DEF ServerInv, ServerTypeOK, SeqLoopInv, SeqAtFile, ReceivedOrPadded
<1>4. ASSUME NEW c, NEW r, Conn(c, r) PROVE Conn(c, r)'
  BY <1>4, ConnFrame
<1>5. QueueInv'
  <2>1. ASSUME NEW i \in DOMAIN backlog
        PROVE  backlog'[i] # serving' /\ Conn(backlog[i], Round(0))'
    <3>1. PICK d, r : d = backlog[i] /\ r = Round(0)
      OBVIOUS
    <3>2. Conn(d, r)'
      BY <1>1, <1>4, <3>1 DEF SeqDialogueInv, QueueInv
    <3>. QED
      BY <1>1, <3>1, <3>2 DEF SeqDialogueInv, QueueInv, Conn, Fits, Announced, Current
  <2>2. \A c \in Clients : cpc[c] = "start" => s2c[c] = <<>> /\ (Running' => Unconnected(c)')
    BY <1>1 DEF SeqDialogueInv, QueueInv, Unconnected
  <2>. QED
    BY <1>1, <2>1, <2>2 DEF SeqDialogueInv, QueueInv
<1>6. ServedInv'
  <2>. SUFFICES ASSUME serving # Nobody PROVE \E r : SeqReaderAt(r)' /\ Conn(serving, r)'
    BY DEF ServedInv
  <2>1. PICK r : SeqReaderAt(r) /\ Conn(serving, r)
    BY <1>1 DEF SeqDialogueInv, ServedInv
  <2>2. PICK s : s = serving
    OBVIOUS
  <2>3. Conn(s, r)'
    BY <1>4, <2>1, <2>2
  <2>4. SeqReaderAt(r)'
    BY <2>1, SeqReaderFrame DEF Gone
  <2>. QED
    BY <2>2, <2>3, <2>4 DEF Conn, Fits, Announced, Current
<1>. QED
  BY <1>2, <1>3, <1>5, <1>6 DEF SeqIInv, SeqDialogueInv

\* A connection is closed, or the server exits.
LEMMA FailStep ==
  ASSUME SeqIInv, DiskExits \/ \E c \in Clients : Fail(c)
  PROVE  SeqIInv'
<1>1. ClientInv /\ ServerInv /\ SeqDialogueInv /\ ReceivedOrPadded
  BY DEF SeqIInv
<1>2. ASSUME NEW n \in Nat \ {0}, Exit(n) PROVE SeqIInv'
  <2>1. /\ UNCHANGED <<cpc, todo, sent, c2s, s2c>>
        /\ UNCHANGED <<backlog, serving, spc, rest, target, dim, written, dir, received>>
        /\ ~Running'
    BY <1>2 DEF Exit, clientVars, Running
  <2>. QED
    BY <2>1, StillStep
<1>3. ASSUME NEW c \in Clients, ReadCountFails(c) PROVE SeqIInv'
  <2>1. /\ UNCHANGED <<cpc, todo, sent, c2s, s2c>>
        /\ UNCHANGED <<backlog, rest, target, dim, written, exit, dir, received>>
        /\ spc' = "accept" /\ serving' = Nobody /\ spc = "int"
    BY <1>3 DEF ReadCountFails, Close, clientVars, At
  <2>2. ClientInv' /\ StreamInv'
    BY <1>1, <2>1 DEF ClientInv, ClientTypeOK, TodoInv, SeqDialogueInv, StreamInv, Current
  <2>3. ServerInv' /\ ReceivedOrPadded'
    BY <1>1, <2>1 DEF ServerInv, ServerTypeOK, ServerLabels, SeqLoopInv, SeqAtFile, ReceivedOrPadded
  <2>4. QueueInv'
    <3>1. ASSUME NEW i \in DOMAIN backlog
          PROVE  backlog'[i] # serving' /\ Conn(backlog[i], Round(0))'
      <4>1. PICK d, r : d = backlog[i] /\ r = Round(0)
        OBVIOUS
      <4>2. Conn(d, r)'
        BY <1>1, <2>1, <4>1, ConnFrame DEF SeqDialogueInv, QueueInv
      <4>3. d \in Clients
        BY <1>1, <4>1 DEF ServerInv, ServerTypeOK
      <4>. QED
        BY <2>1, <4>1, <4>2, <4>3, NobodyAssumption DEF Conn, Fits, Announced, Current
    <3>2. ASSUME NEW d \in Clients, cpc[d] = "start"
          PROVE  s2c[d] = <<>> /\ (Running' => Unconnected(d)')
      BY <1>1, <2>1, <3>2, NobodyAssumption DEF SeqDialogueInv, QueueInv, Unconnected, Running
    <3>. QED
      BY <1>1, <2>1, <3>1, <3>2 DEF SeqDialogueInv, QueueInv
  <2>. QED
    BY <2>1, <2>2, <2>3, <2>4 DEF SeqIInv, SeqDialogueInv, ServedInv
<1>. QED
  BY <1>2, <1>3 DEF DiskExits, Fail, ReadNameExits, ReadLengthExits, ReadByteExits

LEMMA AcceptStep ==
  ASSUME SeqIInv, SeqAccept
  PROVE  SeqIInv'
<1>1. ClientInv /\ ServerInv /\ SeqDialogueInv /\ ReceivedOrPadded
  BY DEF SeqIInv
<1>2. /\ Running /\ spc = "accept" /\ spc' = "int" /\ backlog # <<>>
      /\ serving' = Head(backlog) /\ backlog' = Tail(backlog)
      /\ UNCHANGED <<cpc, todo, sent, c2s, s2c, rest, target, dim, written, exit, dir, received>>
  BY DEF SeqAccept, clientVars
<1>. DEFINE n == Len(backlog)
<1>3. /\ n \in Nat \ {0} /\ DOMAIN backlog = 1..n /\ Head(backlog) = backlog[1]
      /\ Head(backlog) \in Clients /\ Tail(backlog) \in Seq(Clients)
      /\ DOMAIN Tail(backlog) = 1..(n - 1)
      /\ \A i \in 1..(n - 1) : Tail(backlog)[i] = backlog[i + 1]
  <2>1. backlog \in Seq(Clients)
    BY <1>1 DEF ServerInv, ServerTypeOK
  <2>2. Tail(backlog) \in Seq(Clients) /\ Len(Tail(backlog)) = n - 1
    BY <1>2, <2>1, HeadTailProperties
  <2>. QED
    BY <1>2, <2>1, <2>2, HeadTailProperties, EmptySeq, LenProperties
<1>. HIDE DEF n
<1>4. ClientInv' /\ StreamInv'
  BY <1>1, <1>2 DEF ClientInv, ClientTypeOK, TodoInv, SeqDialogueInv, StreamInv, Current
<1>5. ServerInv' /\ ReceivedOrPadded'
  <2>1. serving' # Nobody
    BY <1>2, <1>3, NobodyAssumption
  <2>. QED
    BY <1>1, <1>2, <1>3, <2>1
    DEF ServerInv, ServerTypeOK, ServerLabels, SeqLoopInv, SeqAtFile, ReceivedOrPadded
<1>6. ASSUME NEW i \in 1..n, NEW d, d = backlog[i], NEW r, r = Round(0) PROVE Conn(d, r)'
  BY <1>1, <1>2, <1>3, <1>6, ConnFrame DEF SeqDialogueInv, QueueInv
<1>7. ServedInv'
  <2>1. PICK d, r : d = backlog[1] /\ r = Round(0)
    OBVIOUS
  <2>2. Conn(d, r)' /\ SeqReaderAt(r)'
    BY <1>2, <1>3, <1>6, <2>1 DEF SeqReaderAt
  <2>. QED
    BY <1>2, <1>3, <2>1, <2>2 DEF ServedInv, Conn, Fits, Announced, Current
<1>8. QueueInv'
  <2>1. \A i, j \in 1..n : backlog[i] = backlog[j] => i = j
    BY <1>1, <1>3 DEF SeqDialogueInv, QueueInv
  <2>2. \A i, j \in DOMAIN backlog' : backlog'[i] = backlog'[j] => i = j
    BY <1>2, <1>3, <2>1
  <2>3. ASSUME NEW i \in DOMAIN backlog'
        PROVE  backlog'[i] # serving' /\ Conn(backlog[i], Round(0))'
    <3>1. PICK d, r : d = backlog[i + 1] /\ r = Round(0)
      OBVIOUS
    <3>2. i + 1 \in 1..n /\ i + 1 # 1 /\ 1 \in 1..n
      BY <1>2, <1>3
    <3>3. Conn(d, r)' /\ d # backlog[1]
      BY <1>6, <2>1, <3>1, <3>2
    <3>. QED
      BY <1>2, <1>3, <3>1, <3>3 DEF Conn, Fits, Announced, Current
  <2>4. ASSUME NEW c \in Clients, cpc[c] = "start"
        PROVE  s2c[c] = <<>> /\ Unconnected(c)'
    <3>1. s2c[c] = <<>> /\ \A i \in 1..n : c # backlog[i]
      BY <1>1, <1>2, <1>3, <2>4 DEF SeqDialogueInv, QueueInv, Unconnected, ToSet
    <3>2. c # serving' /\ \A i \in DOMAIN backlog' : c # backlog'[i]
      BY <1>2, <1>3, <3>1
    <3>. QED
      BY <3>1, <3>2 DEF Unconnected, ToSet
  <2>. QED
    BY <1>2, <2>2, <2>3, <2>4 DEF QueueInv
<1>. QED
  BY <1>4, <1>5, <1>7, <1>8 DEF SeqIInv, SeqDialogueInv

LEMMA JoinStep ==
  ASSUME SeqIInv, NEW c \in Clients, Join(c)
  PROVE  SeqIInv'
<1>1. ClientInv /\ ServerInv /\ SeqDialogueInv /\ ReceivedOrPadded
  BY DEF SeqIInv
<1>2. /\ Running /\ Connect(c) /\ backlog' = Append(backlog, c)
      /\ UNCHANGED <<serving, spc, rest, target, dim, written, exit, dir, received>>
  BY DEF Join
<1>3. /\ cpc[c] = "start" /\ s2c[c] = <<>> /\ Unconnected(c)
      /\ cpc'[c] = "prompt" /\ UNCHANGED <<c2s, s2c>>
  BY <1>1, <1>2 DEF Connect, ClientGoto, ClientInv, ClientTypeOK, SeqDialogueInv, QueueInv
<1>4. Apart(c) /\ ClientInv'
  BY <1>1, <1>2, ClientApart, UserStepInv DEF ClientInv, UserStep
<1>5. PICK p : p = Round(0)
  OBVIOUS
<1>6. StreamInv' /\ Conn(c, p)'
  BY <1>1, <1>2, <1>3, <1>5, ConnectConn DEF SeqDialogueInv
<1>. DEFINE n == Len(backlog)
<1>7. /\ n \in Nat /\ DOMAIN backlog = 1..n /\ backlog' \in Seq(Clients)
      /\ DOMAIN backlog' = 1..(n + 1) /\ backlog'[n + 1] = c
      /\ \A i \in 1..n : backlog'[i] = backlog[i] /\ backlog[i] \in Clients
  BY <1>1, <1>2, AppendProperties DEF ServerInv, ServerTypeOK
<1>. HIDE DEF n
<1>8. c # serving /\ \A i \in 1..n : backlog[i] # c
  BY <1>2, <1>3, <1>7 DEF Unconnected, ToSet
<1>9. ServerInv' /\ ReceivedOrPadded'
  BY <1>1, <1>2, <1>7 DEF ServerInv, ServerTypeOK, SeqLoopInv, SeqAtFile, ReceivedOrPadded
<1>10. ASSUME NEW d \in Clients, d # c, NEW r, Conn(d, r) PROVE Conn(d, r)'
  BY <1>4, <1>10, ConnFrame DEF Apart
<1>11. ServedInv'
  <2>. SUFFICES ASSUME serving # Nobody PROVE \E r : SeqReaderAt(r)' /\ Conn(serving, r)'
    BY <1>2 DEF ServedInv
  <2>1. PICK r : SeqReaderAt(r) /\ Conn(serving, r)
    BY <1>1 DEF SeqDialogueInv, ServedInv
  <2>2. PICK s \in Clients : s = serving
    BY <1>1 DEF ServerInv, ServerTypeOK
  <2>3. Conn(s, r)'
    BY <1>8, <1>10, <2>1, <2>2
  <2>4. Gone(serving) => Gone(serving)'
    BY <1>2, <1>4, <1>8, <2>2 DEF Gone, Apart
  <2>5. SeqReaderAt(r)'
    BY <1>2, <2>1, <2>4, SeqReaderFrame
  <2>. QED
    BY <1>2, <2>2, <2>3, <2>5 DEF Conn, Fits, Announced, Current
<1>12. QueueInv'
  <2>1. \A i, j \in 1..n : backlog[i] = backlog[j] => i = j
    BY <1>1, <1>7 DEF SeqDialogueInv, QueueInv
  <2>2. \A i, j \in DOMAIN backlog' : backlog'[i] = backlog'[j] => i = j
    <3>. SUFFICES ASSUME NEW i \in 1..(n + 1), NEW j \in 1..(n + 1), backlog'[i] = backlog'[j]
                  PROVE  i = j
      BY <1>7
    <3>1. (i = n + 1 \/ i \in 1..n) /\ (j = n + 1 \/ j \in 1..n)
      BY <1>7
    <3>. QED
      BY <1>7, <1>8, <2>1, <3>1
  <2>3. ASSUME NEW i \in DOMAIN backlog'
        PROVE  backlog'[i] # serving' /\ \A b : b = backlog'[i] => Conn(b, p)'
    <3>1. i = n + 1 \/ i \in 1..n
      BY <1>7
    <3>2. CASE i = n + 1
      BY <1>2, <1>6, <1>7, <1>8, <3>2
    <3>3. CASE i \in 1..n
      <4>1. PICK d \in Clients : d = backlog[i]
        BY <1>7, <3>3
      <4>2. d # serving /\ Conn(d, p) /\ d # c
        BY <1>1, <1>5, <1>7, <1>8, <3>3, <4>1 DEF SeqDialogueInv, QueueInv
      <4>3. Conn(d, p)'
        BY <1>10, <4>2
      <4>. QED
        BY <1>2, <1>7, <3>3, <4>1, <4>2, <4>3
    <3>. QED
      BY <3>1, <3>2, <3>3
  <2>4. ASSUME NEW d \in Clients, cpc'[d] = "start"
        PROVE  s2c'[d] = <<>> /\ Unconnected(d)'
    <3>1. d # c /\ cpc[d] = "start" /\ s2c'[d] = s2c[d]
      BY <1>3, <1>4, <2>4 DEF Apart
    <3>2. s2c[d] = <<>> /\ d # serving /\ \A i \in 1..n : backlog[i] # d
      BY <1>1, <1>2, <1>7, <3>1 DEF SeqDialogueInv, QueueInv, Unconnected, ToSet
    <3>3. \A i \in 1..(n + 1) : backlog'[i] # d
      <4>1. \A i \in 1..(n + 1) : i = n + 1 \/ i \in 1..n
        BY <1>7
      <4>. QED
        BY <1>7, <3>1, <3>2, <4>1
    <3>. QED
      BY <1>2, <1>7, <3>1, <3>2, <3>3 DEF Unconnected, ToSet
  <2>5. \A i \in DOMAIN backlog' : backlog'[i] # serving' /\ Conn(backlog[i], Round(0))'
    BY <1>5, <2>3 DEF Conn, Fits, Announced, Current
  <2>. QED
    BY <2>2, <2>4, <2>5 DEF QueueInv
<1>. QED
  BY <1>4, <1>6, <1>9, <1>11, <1>12 DEF SeqIInv, SeqDialogueInv

LEMMA ClientsStep ==
  ASSUME SeqIInv, NEW c \in Clients,
         SeqClient(c) \/ SeqUser(c) \/ SeqClientLoses(c) \/ SeqAgain(c) \/ JoinRefused(c)
  PROVE  SeqIInv'
<1>1. ClientInv /\ ServerInv /\ SeqDialogueInv /\ ReceivedOrPadded /\ ClientTypeOK /\ StreamInv
  BY DEF SeqIInv, ClientInv, SeqDialogueInv
<1>2. UNCHANGED serverVars
  BY DEF SeqClient, SeqUser, SeqClientLoses, SeqAgain, JoinRefused
<1>3. ServerInv' /\ ReceivedOrPadded'
  BY <1>1, <1>2 DEF serverVars, ServerInv, ServerTypeOK, SeqLoopInv, SeqAtFile, ReceivedOrPadded
<1>4. CASE SeqClient(c)
  <2>1. ClientStep(c)
    BY <1>4 DEF SeqClient
  <2>2. cpc[c] \in {"send", "await", "stream"} /\ cpc'[c] # "start"
    BY <1>1, <2>1 DEF ClientStep, SkipEntry, SendName, TakeReply, SendBlock, EndFile, EndDir,
                      ClientGoto, ClientTypeOK
  <2>3. Apart(c) /\ ClientInv' /\ StreamInv' /\ \A r : Conn(c, r) => Conn(c, r)'
    BY <1>1, <2>1, ClientApart, ClientStepInv, ClientStepConn
  <2>4. SeqDialogueInv'
    BY <1>1, <1>2, <2>2, <2>3, SeqClientMoves DEF Gone
  <2>. QED
    BY <1>3, <2>3, <2>4 DEF SeqIInv
<1>5. CASE SeqUser(c) \/ SeqClientLoses(c)
  <2>1. ChooseDir(c) \/ Quit(c) \/ ClientDies(c) \/ ClientFails(c)
    BY <1>5 DEF SeqUser, SeqClientLoses
  <2>2. cpc[c] \notin {"start", "done", "dead"} /\ cpc'[c] # "start"
    BY <1>1, <2>1 DEF ChooseDir, Quit, ClientDies, ClientFails, ClientEnds, ClientGoto, ClientTypeOK
  <2>3. Apart(c) /\ ClientInv' /\ StreamInv' /\ \A r : Conn(c, r) => Conn(c, r)'
    BY <1>1, <2>1, ClientApart, UserStepInv, UserStepConn DEF UserStep
  <2>4. SeqDialogueInv'
    BY <1>1, <1>2, <2>2, <2>3, SeqClientMoves DEF Gone
  <2>. QED
    BY <1>3, <2>3, <2>4 DEF SeqIInv
<1>6. CASE SeqAgain(c)
  <2>1. Unconnected(c) /\ Relaunch(c)
    BY <1>6 DEF SeqAgain
  <2>2. /\ Apart(c) /\ ClientInv' /\ StreamInv' /\ c2s'[c] = <<>> /\ s2c'[c] = <<>>
        /\ \A r : Conn(c, r)'
    BY <1>1, <2>1, ClientApart, UserStepInv, RelaunchConn
  <2>3. Gone(c)'
    BY <1>1, <2>1, <2>2 DEF Gone, Relaunch, ClientEnds, ClientTypeOK
  <2>4. SeqDialogueInv'
    BY <1>1, <1>2, <2>1, <2>2, <2>3, SeqClientMoves
  <2>. QED
    BY <1>3, <2>2, <2>4 DEF SeqIInv
<1>7. CASE JoinRefused(c)
  <2>1. ~Running /\ cpc[c] = "start" /\ ClientEnds(c, "dead") /\ UNCHANGED c2s
    BY <1>7 DEF JoinRefused
  <2>2. Apart(c)
    BY <1>1, <2>1, ClientApart
  <2>3. StreamInv' /\ \A r : Conn(c, r) => Conn(c, r)'
    BY <1>1, <2>1, <2>2, ClientEndsConn
  <2>4. ClientInv'
    BY <1>1, <2>1, ClientEndsInv DEF ClientInv, ClientTypeOK
  <2>5. cpc'[c] = "dead"
    BY <1>1, <2>1 DEF ClientEnds, ClientTypeOK
  <2>6. Gone(c) => Gone(c)'
    BY <2>1, <2>5 DEF Gone
  <2>7. SeqDialogueInv'
    BY <1>1, <1>2, <2>2, <2>3, <2>5, <2>6, SeqClientMoves
  <2>. QED
    BY <1>3, <2>4, <2>7 DEF SeqIInv
<1>. QED
  BY <1>4, <1>5, <1>6, <1>7

LEMMA SeqNextIInv == SeqIInv /\ [SeqNext]_seqVars => SeqIInv'
<1>. SUFFICES ASSUME SeqIInv, [SeqNext]_seqVars PROVE SeqIInv'
  OBVIOUS
<1>1. CASE UNCHANGED seqVars
  BY <1>1, StillStep DEF seqVars, clientVars, serverVars, Running
<1>2. CASE Server
  BY <1>2, AcceptStep, CountStep, NameStep, LengthStep, BlockStep, EofStep, FailStep
  DEF Server, Serve
<1>. QED
  BY <1>1, <1>2, FailStep, JoinStep, ClientsStep DEF SeqNext

THEOREM SeqInvariance == SeqSpec => []SeqIInv
<1>. QED
  BY SeqInitIInv, SeqNextIInv, PTL DEF SeqSpec

\* Whatever a client does while it waits in the backlog, and however it ends,
\* the server reads from it what it expects.
THEOREM SeqAlignment == SeqSpec => []SeqStreamAligned
<1>1. SeqIInv => SeqStreamAligned
  <2>. SUFFICES ASSUME ClientInv, ServerInv, ServedInv,
                       NEW c \in Clients, serving = c, c2s[c] # <<>>
                PROVE  Head(c2s[c]).kind = Expected[spc]
    BY DEF SeqIInv, SeqDialogueInv, SeqStreamAligned
  <2>1. PICK r : SeqReaderAt(r) /\ Conn(c, r)
    BY NobodyAssumption DEF ServedInv
  <2>2. PICK q : Reads(c, r, Head(c2s[c]), q)
    BY <2>1, HeadConn
  <2>3. r.at = spc /\ spc \in {"int", "utf", "long", "data"}
    BY <2>1 DEF SeqReaderAt, SeqAtFile, Midway, Round, ServerInv, ServerTypeOK, SeqLoopInv
  <2>. QED
    BY <2>2, <2>3, ReadKinds DEF Expected
<1>. QED
  BY <1>1, SeqInvariance, PTL

\* A file that the server has reported is as long as a client's file, and what
\* is in it is the client's up to a point, and junk behind it.
THEOREM ReceivedFiles == SeqSpec => []ReceivedOrPadded
<1>1. SeqIInv => ReceivedOrPadded
  BY DEF SeqIInv
<1>. QED
  BY <1>1, SeqInvariance, PTL
===============================================================================
