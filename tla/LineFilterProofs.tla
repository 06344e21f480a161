--------------------------- MODULE LineFilterProofs ---------------------------
(***************************************************************************)
(* Theorems about LineFilter: its types, and that a file is replaced by    *)
(* itself without the line asked for unless something was left unread.     *)
(***************************************************************************)
EXTENDS LineFilter, DataLemmas

(***************************************************************************)
(* The child as a machine that reads headers and characters.  In "data" a  *)
(* reader has characters left to read; the last one takes it to "name",    *)
(* with what was in its buffer sent.  out is all it has ever sent.         *)
(***************************************************************************)
Headers == [riga : Rows, dim : Nat]

Items == Chars \cup Headers

Readers == [at : {"name", "data"}, riga : Int, left : Nat, lines : Nat,
            buff : Seq(Chars), out : Seq(Chars)]

Reader(at, n, left, lines, text, o) ==
  [at |-> at, riga |-> n, left |-> left, lines |-> lines, buff |-> text, out |-> o]

\* What is sent of a line with this number when line n is not wanted.
Sent(line, n, text) == IF line # n THEN text ELSE <<>>

Resume(n, left, lines, text, o) ==
  IF left = 0 THEN Reader("name", n, 0, lines + 1, text, o \o Sent(lines + 1, n, text))
  ELSE Reader("data", n, left, lines, text, o)

AfterHeader(x, h) == Resume(h.riga, h.dim, 0, <<>>, x.out)

AfterChar(x, c) ==
  IF c = Newline
  THEN Resume(x.riga, x.left - 1, x.lines + 1, <<>>,
              x.out \o Sent(x.lines + 1, x.riga, Append(x.buff, c)))
  ELSE Resume(x.riga, x.left - 1, x.lines, Append(x.buff, c), x.out)

Steps ==
  {t \in Readers \X Items \X Readers :
     \/ t[1].at = "name" /\ t[2] \in Headers /\ t[3] = AfterHeader(t[1], t[2])
     \/ t[1].at = "data" /\ t[1].left > 0 /\ t[2] \in Chars /\ t[3] = AfterChar(t[1], t[2])}

LEMMA Joined ==
  ASSUME NEW s \in Seq(Chars), NEW t \in Seq(Chars)
  PROVE  s \o t \in Seq(Chars) /\ Len(s \o t) = Len(s) + Len(t)
BY ConcatProperties

Regroups(s, t, u) == (s \o t) \o u = s \o (t \o u)

LEMMA Associative ==
  \A s, t, u \in Seq(Chars) : Regroups(s, t, u)
BY ConcatAssociative DEF Regroups

LEMMA SentType ==
  ASSUME NEW line, NEW n, NEW text \in Seq(Chars)
  PROVE  Sent(line, n, text) \in Seq(Chars)
BY DEF Sent

LEMMA ResumeType ==
  ASSUME NEW n \in Int, NEW left \in Nat, NEW lines \in Nat, NEW text \in Seq(Chars),
         NEW o \in Seq(Chars)
  PROVE  /\ Resume(n, left, lines, text, o) \in Readers
         /\ Len(o) <= Len(Resume(n, left, lines, text, o).out)
<1>. DEFINE d == Sent(lines + 1, n, text)
<1>1. d \in Seq(Chars)
  BY SentType
<1>. HIDE DEF d
<1>2. o \o d \in Seq(Chars) /\ Len(o \o d) = Len(o) + Len(d) /\ Len(o) \in Nat /\ Len(d) \in Nat
  BY <1>1
<1>3. CASE left = 0
  <2>1. Resume(n, left, lines, text, o) = Reader("name", n, 0, lines + 1, text, o \o d)
    BY <1>3 DEF Resume, d
  <2>. QED
    BY <1>2, <2>1 DEF Reader, Readers
<1>4. CASE left # 0
  BY <1>2, <1>4 DEF Resume, Reader, Readers
<1>. QED
  BY <1>3, <1>4

LEMMA AfterHeaderType ==
  ASSUME NEW x \in Readers, NEW h \in Headers
  PROVE  AfterHeader(x, h) \in Readers /\ Len(x.out) <= Len(AfterHeader(x, h).out)
<1>1. h.riga \in Int /\ h.dim \in Nat
  <2>1. h.riga \in Rows /\ h.dim \in Nat
    BY DEF Headers
  <2>. QED
    BY <2>1, TextsAssumption DEF TextsAssumption
<1>2. x.out \in Seq(Chars) /\ <<>> \in Seq(Chars) /\ 0 \in Nat
  BY DEF Readers
<1>. QED
  BY <1>1, <1>2, ResumeType DEF AfterHeader

LEMMA AfterCharType ==
  ASSUME NEW x \in Readers, x.left > 0, NEW c \in Chars
  PROVE  AfterChar(x, c) \in Readers /\ Len(x.out) <= Len(AfterChar(x, c).out)
<1>. DEFINE d == Sent(x.lines + 1, x.riga, Append(x.buff, c))
<1>1. /\ x.riga \in Int /\ x.left - 1 \in Nat /\ x.lines \in Nat /\ x.lines + 1 \in Nat
      /\ x.buff \in Seq(Chars) /\ x.out \in Seq(Chars) /\ <<>> \in Seq(Chars)
      /\ Append(x.buff, c) \in Seq(Chars)
  BY DEF Readers
<1>2. d \in Seq(Chars)
  BY <1>1, SentType
<1>. HIDE DEF d
<1>3. x.out \o d \in Seq(Chars) /\ Len(x.out) <= Len(x.out \o d) /\ Len(x.out \o d) \in Nat
      /\ Len(x.out) \in Nat
  <2>1. /\ x.out \o d \in Seq(Chars) /\ Len(x.out \o d) = Len(x.out) + Len(d)
        /\ Len(x.out) \in Nat /\ Len(d) \in Nat
    BY <1>1, <1>2, Joined
  <2>. QED
    BY <2>1
<1>4. CASE c = Newline
  <2>1. AfterChar(x, c) = Resume(x.riga, x.left - 1, x.lines + 1, <<>>, x.out \o d)
    BY <1>4 DEF AfterChar, d
  <2>2. PICK o \in Seq(Chars) : o = x.out \o d
    BY <1>3
  <2>3. AfterChar(x, c) \in Readers /\ Len(o) <= Len(AfterChar(x, c).out)
    BY <1>1, <2>1, <2>2, ResumeType
  <2>. QED
    BY <1>3, <2>2, <2>3 DEF Readers
<1>5. CASE c # Newline
  BY <1>1, <1>5, ResumeType DEF AfterChar
<1>. QED
  BY <1>4, <1>5

\* A step by a header or a character.
LEMMA HeaderSteps ==
  ASSUME NEW x \in Readers, x.at = "name", NEW h \in Headers
  PROVE  <<x, h, AfterHeader(x, h)>> \in Steps
BY AfterHeaderType DEF Steps, Items

LEMMA CharSteps ==
  ASSUME NEW x \in Readers, x.at = "data", x.left > 0, NEW c \in Chars
  PROVE  <<x, c, AfterChar(x, c)>> \in Steps
BY AfterCharType DEF Steps, Items

LEMMA StepIs ==
  ASSUME NEW x, NEW item, NEW p, <<x, item, p>> \in Steps
  PROVE  /\ x \in Readers /\ item \in Items /\ p \in Readers
         /\ x.at = "name" => item \in Headers /\ p = AfterHeader(x, item)
         /\ x.at = "data" => x.left > 0 /\ item \in Chars /\ p = AfterChar(x, item)
         /\ Len(x.out) <= Len(p.out)
<1>1. PICK t \in Steps : t = <<x, item, p>>
  OBVIOUS
<1>2. t[1] = x /\ t[2] = item /\ t[3] = p /\ t \in Readers \X Items \X Readers
  BY <1>1 DEF Steps
<1>3. x \in Readers /\ item \in Items /\ p \in Readers
  BY <1>2
<1>4. \/ x.at = "name" /\ item \in Headers /\ p = AfterHeader(x, item)
      \/ x.at = "data" /\ x.left > 0 /\ item \in Chars /\ p = AfterChar(x, item)
  BY <1>1, <1>2 DEF Steps
<1>. QED
  BY <1>3, <1>4, AfterHeaderType, AfterCharType

\* What has been sent is never taken back.
LEMMA PathGrows ==
  ASSUME NEW r \in Readers, NEW s \in Seq(Items), NEW q, Leads(Steps, r, s, q)
  PROVE  q \in Readers /\ Len(r.out) <= Len(q.out)
<1>. DEFINE T == {x \in Readers : Len(r.out) <= Len(x.out)}
<1>1. Len(r.out) \in Nat /\ \A x \in Readers : Len(x.out) \in Nat
  BY DEF Readers
<1>2. r \in T
  BY <1>1
<1>3. ASSUME NEW t \in Steps, t[1] \in T PROVE t[3] \in T
  <2>1. t = <<t[1], t[2], t[3]>>
    BY DEF Steps
  <2>2. <<t[1], t[2], t[3]>> \in Steps
    BY <2>1, Zenon
  <2>3. t[3] \in Readers /\ Len(t[1].out) <= Len(t[3].out) /\ t[1] \in Readers
    BY <2>2, StepIs
  <2>. QED
    BY <1>1, <1>3, <2>3
<1>. HIDE DEF T
<1>4. q \in T
  BY <1>2, <1>3, LeadsWithin
<1>. QED
  BY <1>4 DEF T

-------------------------------------------------------------------------------
(***************************************************************************)
(* The lines of a text.                                                    *)
(***************************************************************************)
Ends(text, k) == {i \in 1..k : text[i] = Newline}

\* What is left of the first k characters without line n.
Kept(text, n, k) == Pick(text, {i \in 1..k : LineOf(text, i) # n})

\* No line ends from f to t.
Unended(text, f, t) == \A i \in f..t : text[i] # Newline

LEMMA EndsMore ==
  ASSUME NEW text, NEW k \in Nat
  PROVE  /\ Cardinality(Ends(text, k)) \in 0..k
         /\ Cardinality(Ends(text, k + 1)) =
              IF text[k + 1] = Newline THEN Cardinality(Ends(text, k)) + 1
              ELSE Cardinality(Ends(text, k))
<1>1. IsFiniteSet(1..k) /\ Cardinality(1..k) = k
  BY FS_Interval
<1>2. Ends(text, k) \subseteq 1..k
  BY DEF Ends
<1>3. IsFiniteSet(Ends(text, k)) /\ Cardinality(Ends(text, k)) \in Nat
      /\ Cardinality(Ends(text, k)) <= k
  BY <1>1, <1>2, FS_Subset, FS_CardinalityType
<1>4. k + 1 \notin Ends(text, k) /\ 1..(k + 1) = (1..k) \cup {k + 1}
  BY <1>2
<1>5. CASE text[k + 1] = Newline
  <2>1. Ends(text, k + 1) = Ends(text, k) \cup {k + 1}
    BY <1>4, <1>5 DEF Ends
  <2>. QED
    BY <1>3, <1>4, <1>5, <2>1, FS_AddElement
<1>6. CASE text[k + 1] # Newline
  <2>1. Ends(text, k + 1) = Ends(text, k)
    BY <1>4, <1>6 DEF Ends
  <2>. QED
    BY <1>3, <1>6, <2>1
<1>. QED
  BY <1>5, <1>6

LEMMA EndsNone ==
  ASSUME NEW text
  PROVE  Cardinality(Ends(text, 0)) = 0
<1>1. Ends(text, 0) = {}
  BY DEF Ends
<1>. QED
  BY <1>1, FS_EmptySet

\* Where no line ends, none is added.
LEMMA EndsSame ==
  ASSUME NEW text, NEW e \in Nat, NEW p \in Nat, e <= p, Unended(text, e + 1, p)
  PROVE  Ends(text, p) = Ends(text, e)
<1>1. \A i \in 1..p : i \in 1..e \/ i \in (e + 1)..p
  OBVIOUS
<1>2. \A i \in 1..e : i \in 1..p
  OBVIOUS
<1>. QED
  BY <1>1, <1>2 DEF Ends, Unended

\* A stretch in which no line ends, but perhaps with its last character, belongs
\* to one line and is kept as a whole or not at all.
LEMMA KeptMore ==
  ASSUME NEW text \in Seq(Chars), NEW n \in Int, NEW p \in 0..Len(text), NEW e \in 0..p,
         Unended(text, e + 1, p - 1)
  PROVE  Kept(text, n, p) =
           Kept(text, n, e) \o Sent(Cardinality(Ends(text, e)) + 1, n, SubSeq(text, e + 1, p))
<1>. DEFINE m == Cardinality(Ends(text, e))
            K == {i \in 1..e : LineOf(text, i) # n}
<1>1. e \in Nat /\ p \in Nat /\ Len(text) \in Nat /\ m \in Nat /\ DOMAIN text = 1..Len(text)
  <2>1. e \in Nat /\ p \in Nat /\ Len(text) \in Nat /\ DOMAIN text = 1..Len(text)
    OBVIOUS
  <2>2. m \in 0..e
    BY <2>1, EndsMore
  <2>. QED
    BY <2>1, <2>2
<1>2. ASSUME NEW i \in (e + 1)..p PROVE LineOf(text, i) = m + 1
  <2>1. Unended(text, e + 1, i - 1) /\ i - 1 \in Nat /\ e <= i - 1
    <3>1. \A j \in (e + 1)..(i - 1) : j \in (e + 1)..(p - 1)
      BY <1>1
    <3>. QED
      BY <1>1, <3>1 DEF Unended
  <2>2. Ends(text, i - 1) = Ends(text, e)
    BY <1>1, <2>1, EndsSame
  <2>3. LineOf(text, i) = 1 + Cardinality(Ends(text, i - 1))
    BY DEF LineOf, Ends
  <2>. QED
    BY <1>1, <2>2, <2>3
<1>. HIDE DEF m
<1>3. /\ \A i \in 1..p : i \in 1..e \/ i \in (e + 1)..p
      /\ \A i \in 1..e : i \in 1..p
      /\ \A i \in (e + 1)..p : i \in 1..p
  BY <1>1
<1>4. Pick(text, K) \in Seq(Chars) /\ K \subseteq 1..e /\ K \subseteq DOMAIN text
  <2>1. K \subseteq 1..e /\ K \subseteq DOMAIN text
    BY <1>1
  <2>. HIDE DEF K
  <2>. QED
    BY <2>1, PickType
<1>5. CASE m + 1 # n
  <2>1. {i \in 1..p : LineOf(text, i) # n} = K \cup ((e + 1)..p)
    BY <1>2, <1>3, <1>5
  <2>. HIDE DEF K
  <2>2. Pick(text, K \cup ((e + 1)..p)) = Pick(text, K) \o SubSeq(text, e + 1, p)
    <3>1. PICK s \in Nat : s = e + 1
      BY <1>1
    <3>2. s \in 1..(Len(text) + 1) /\ p \in (s - 1)..Len(text) /\ s - 1 = e
      BY <1>1, <3>1
    <3>3. K \subseteq 1..(s - 1)
      BY <1>4, <3>2
    <3>4. Pick(text, K \cup (s..p)) = Pick(text, K) \o SubSeq(text, s, p)
      BY <3>2, <3>3, PickStretch
    <3>. QED
      BY <3>1, <3>4
  <2>. QED
    BY <1>5, <2>1, <2>2 DEF Kept, K, Sent, m
<1>6. CASE m + 1 = n
  <2>1. {i \in 1..p : LineOf(text, i) # n} = K
    BY <1>2, <1>3, <1>6
  <2>2. Pick(text, K) \o <<>> = Pick(text, K)
    BY <1>4, ConcatEmptySeq
  <2>. QED
    BY <1>6, <2>1, <2>2 DEF Kept, K, Sent, m
<1>. QED
  BY <1>5, <1>6

LEMMA KeptType ==
  ASSUME NEW text \in Seq(Chars), NEW n, NEW k \in 0..Len(text)
  PROVE  Kept(text, n, k) \in Seq(Chars)
<1>1. {i \in 1..k : LineOf(text, i) # n} \subseteq DOMAIN text
  OBVIOUS
<1>. QED
  BY <1>1, PickType DEF Kept

LEMMA KeptNone ==
  ASSUME NEW text, NEW n
  PROVE  Kept(text, n, 0) = <<>>
<1>1. {i \in 1..0 : LineOf(text, i) # n} = {}
  OBVIOUS
<1>2. 1..Cardinality({}) = {}
  BY FS_EmptySet
<1>. QED
  BY <1>1, <1>2 DEF Kept, Pick

LEMMA KeptAll ==
  ASSUME NEW text \in Seq(Chars), NEW n
  PROVE  Kept(text, n, Len(text)) = Filtered(text, n)
<1>. DEFINE K == {i \in DOMAIN text : LineOf(text, i) # n}
<1>1. {i \in 1..Len(text) : LineOf(text, i) # n} = K
  OBVIOUS
<1>2. Filtered(text, n) = Pick(text, K)
  BY Zenon DEF Filtered, Pick, RankIn
<1>. QED
  BY <1>1, <1>2 DEF Kept

LEMMA StretchMore ==
  ASSUME NEW text \in Seq(Chars), NEW p \in 0..(Len(text) - 1), NEW e \in 0..p
  PROVE  /\ SubSeq(text, e + 1, p) \in Seq(Chars)
         /\ SubSeq(text, e + 1, p + 1) = Append(SubSeq(text, e + 1, p), text[p + 1])
<1>1. /\ Len(text) \in Nat /\ p \in Nat /\ e \in Nat /\ e + 1 \in 1..Len(text)
      /\ p + 1 \in (e + 1)..Len(text) /\ (p + 1) - 1 = p /\ text[p + 1] \in Chars
  OBVIOUS
<1>2. SubSeq(text, e + 1, p) \in Seq(Chars)
  BY <1>1
<1>3. SubSeq(text, e + 1, p + 1) = SubSeq(text, e + 1, p) \o <<text[p + 1]>>
  BY <1>1, SubSeqRecursiveSecond
<1>4. \A s \in Seq(Chars) : s \o <<text[p + 1]>> = Append(s, text[p + 1])
  BY <1>1
<1>. QED
  BY <1>2, <1>3, <1>4

LEMMA Cancel ==
  ASSUME NEW s \in Seq(Chars), NEW t \in Seq(Chars), NEW u \in Seq(Chars), s \o t = s \o u
  PROVE  t = u
<1>1. /\ Len(s) \in Nat /\ Len(t) \in Nat /\ Len(u) \in Nat
      /\ Len(s \o t) = Len(s) + Len(t) /\ Len(s \o u) = Len(s) + Len(u)
  OBVIOUS
<1>2. Len(t) = Len(u)
  BY <1>1
<1>3. ASSUME NEW i \in 1..Len(t) PROVE t[i] = u[i]
  <2>1. (s \o t)[Len(s) + i] = t[i] /\ (s \o u)[Len(s) + i] = u[i]
    <3>1. /\ Len(s) + i \in 1..(Len(s) + Len(t)) /\ ~(Len(s) + i <= Len(s))
          /\ (Len(s) + i) - Len(s) = i
      BY <1>1
    <3>. QED
      BY <1>2, <3>1, ConcatProperties
  <2>. QED
    BY <2>1
<1>. QED
  BY <1>2, <1>3, SeqEqual

-------------------------------------------------------------------------------
(***************************************************************************)
(* The inductive invariant: reading what is on its way takes the child     *)
(* from where it is to where the client is.                                *)
(***************************************************************************)
\* The child, when it has sent o.
Here(o) ==
  IF kid = "data" THEN Resume(header.riga, header.dim - got, lineCounter, buff, o)
  ELSE Reader("name", header.riga, header.dim - got, lineCounter, buff, o)

\* The client: where a reader is that has read all the client has sent of its
\* file and before, has sent w, and has had its buffer empty after character e.
There(e, w) == Resume(riga, Len(file) - pos, countLinee, SubSeq(file, e + 1, pos), w)

Sending == cpc \in {"send", "recv", "poll", "drain"}

\* b is what the child has sent for the requests before this one.
Link(o, b) == ~stray => o = (b \o out) \o s2c

\* Nothing but the last item on its way makes the child send anything.
Awaited(o, b) ==
  \/ c2s = <<>>
  \/ \E s \in Seq(Items), item \in Items :
       \E m : c2s = Append(s, item) /\ Leads(Steps, Here(o), s, m) /\ m.out = b \o out

Resting(o, b, q) ==
  /\ Link(o, b)
  /\ Leads(Steps, Here(o), c2s, q) /\ q.at = "name"
  /\ ~stray => q.out = b \o out

Working(o, b, e, w) ==
  /\ Link(o, b)
  /\ Unended(file, e + 1, pos)
  /\ Leads(Steps, Here(o), c2s, There(e, w))
  /\ ~stray => w = b \o Kept(file, riga, e)
  /\ ~stray /\ kind = "lockstep" =>
       IF cpc = "recv" THEN Awaited(o, b) ELSE out = Kept(file, riga, e)

Read == \E o \in Seq(Chars) : \E q : Leads(Steps, Here(o), c2s, q)

Gone == kid \in {"exited", "crashed"}

Conn ==
  /\ cpc = "done" => Gone \/ Read
  /\ cpc # "done" => ~Gone
  /\ cpc = "prompt" => \E o, b \in Seq(Chars) : \E q : Resting(o, b, q)
  /\ Sending => \E o, b, w \in Seq(Chars), e \in 0..pos : Working(o, b, e, w)

ClientInv ==
  /\ pos \in Nat
  /\ Sending => countLinee = Cardinality(Ends(file, pos))
  /\ cpc = "drain" => pos = Len(file)
  /\ cpc \in {"poll", "drain"} => kind = "select"
  /\ cpc = "recv" => pos # 0 /\ file[pos] = Newline
  /\ Sending /\ kind = "lockstep" /\ ~stray => ~LastLineOpen(file, riga)

KidInv == kid = "data" => lineCounter <= got

IInv == TypeOK /\ ClientInv /\ KidInv /\ Conn

-------------------------------------------------------------------------------
LEMMA HereType ==
  ASSUME TypeOK, NEW o \in Seq(Chars)
  PROVE  /\ Here(o) \in Readers /\ Len(o) <= Len(Here(o).out)
         /\ Here(o).buff = buff
         /\ kid # "data" => Here(o).at = "name" /\ Here(o).out = o
         /\ kid = "data" /\ got < header.dim =>
              Here(o) = Reader("data", header.riga, header.dim - got, lineCounter, buff, o)
<1>1. /\ header.riga \in Int /\ header.dim \in Nat /\ got \in Nat /\ header.dim - got \in Nat
      /\ lineCounter \in Nat /\ buff \in Seq(Chars)
  <2>1. header \in [riga : Rows \cup {0}, dim : Nat] /\ got \in 0..header.dim
        /\ lineCounter \in 0..(got + 1) /\ buff \in Seq(Chars)
    BY DEF TypeOK
  <2>2. header.riga \in Rows \cup {0} /\ header.dim \in Nat
    BY <2>1
  <2>3. header.riga \in Int
    <3>1. \A n \in Rows \cup {0} : n \in Int
      BY TextsAssumption DEF TextsAssumption
    <3>. QED
      BY <2>2, <3>1
  <2>4. PICK d \in Nat : d = header.dim
    BY <2>2
  <2>5. got \in 0..d
    BY <2>1, <2>4
  <2>6. got \in Nat /\ d - got \in Nat
    BY <2>5
  <2>7. lineCounter \in Nat
    BY <2>1, <2>6
  <2>. QED
    BY <2>1, <2>2, <2>3, <2>4, <2>6, <2>7
<1>2. Len(o) \in Nat
  OBVIOUS
<1>3. CASE kid = "data"
  <2>1. Here(o) = Resume(header.riga, header.dim - got, lineCounter, buff, o)
    BY <1>3 DEF Here
  <2>2. Here(o) \in Readers /\ Len(o) <= Len(Here(o).out)
    BY <1>1, <2>1, ResumeType
  <2>3. Here(o).buff = buff
    BY <2>1 DEF Resume, Reader
  <2>4. got < header.dim => header.dim - got # 0
    BY <1>1
  <2>. QED
    BY <1>3, <2>1, <2>2, <2>3, <2>4 DEF Resume
<1>4. CASE kid # "data"
  <2>1. Here(o) = Reader("name", header.riga, header.dim - got, lineCounter, buff, o)
    BY <1>4 DEF Here
  <2>. QED
    BY <1>1, <1>2, <1>4, <2>1 DEF Reader, Readers
<1>. QED
  BY <1>3, <1>4

LEMMA ThereType ==
  ASSUME TypeOK, ClientInv, Sending, NEW e \in 0..pos, NEW w \in Seq(Chars)
  PROVE  /\ There(e, w) \in Readers /\ SubSeq(file, e + 1, pos) \in Seq(Chars)
         /\ pos \in 0..Len(file) /\ riga \in Int /\ countLinee \in Nat
         /\ pos < Len(file) =>
              There(e, w) = Reader("data", riga, Len(file) - pos, countLinee,
                                   SubSeq(file, e + 1, pos), w)
         /\ pos = Len(file) =>
              /\ There(e, w).at = "name"
              /\ There(e, w).out = w \o Sent(countLinee + 1, riga, SubSeq(file, e + 1, pos))
         /\ e = pos => There(e, w).buff = <<>> /\ There(e, w).out = w
<1>. DEFINE r == SubSeq(file, e + 1, pos)
<1>1. /\ pos \in 0..Len(file) /\ countLinee \in Nat /\ file \in Seq(Chars)
      /\ Len(file) \in Nat /\ Len(file) - pos \in Nat
  <2>1. pos \in 0..Len(file)
    BY DEF TypeOK, Sending
  <2>2. countLinee \in 0..pos /\ file \in Seq(Chars)
    BY DEF TypeOK
  <2>. QED
    BY <2>1, <2>2
<1>2. riga \in Int
  BY TextsAssumption DEF TextsAssumption, TypeOK
<1>3. r \in Seq(Chars)
  BY <1>1
<1>4. e = pos => r = <<>>
  <2>1. e = pos => pos < e + 1 /\ e + 1 \in Int /\ pos \in Int
    BY <1>1
  <2>. QED
    BY <1>1, <2>1, SubSeqEmpty
<1>. HIDE DEF r
<1>5. There(e, w) = Resume(riga, Len(file) - pos, countLinee, r, w)
  BY DEF There, r
<1>6. There(e, w) \in Readers
  BY <1>1, <1>2, <1>3, <1>5, ResumeType
<1>7. pos < Len(file) => There(e, w) = Reader("data", riga, Len(file) - pos, countLinee, r, w)
  <2>1. pos < Len(file) => Len(file) - pos # 0
    BY <1>1
  <2>. QED
    BY <1>5, <2>1 DEF Resume
<1>8. pos = Len(file) => /\ There(e, w).at = "name"
                         /\ There(e, w).out = w \o Sent(countLinee + 1, riga, r)
  <2>1. pos = Len(file) => Len(file) - pos = 0
    BY <1>1
  <2>. QED
    BY <1>5, <2>1 DEF Resume, Reader
<1>9. e = pos => There(e, w).buff = <<>> /\ There(e, w).out = w
  <2>1. /\ There(e, w).buff = r
        /\ There(e, w).out = w \/ There(e, w).out = w \o Sent(countLinee + 1, riga, r)
    BY <1>5 DEF Resume, Reader
  <2>2. r = <<>> => w \o Sent(countLinee + 1, riga, r) = w
    BY ConcatEmptySeq DEF Sent
  <2>. QED
    BY <1>4, <2>1, <2>2
<1>. QED
  BY <1>1, <1>2, <1>3, <1>6, <1>7, <1>8, <1>9 DEF r

LEMMA ItemsOnWay ==
  ASSUME TypeOK
  PROVE  c2s \in Seq(Items)
BY DEF TypeOK, Items, Headers

LEMMA SendingGoesOn ==
  ASSUME Conn, Sending
  PROVE  ~Gone /\ \E o, b, w \in Seq(Chars), e \in 0..pos : Working(o, b, e, w)
BY DEF Conn, Sending

\* A character more is a step more for the reader.
LEMMA ConnSendChar ==
  ASSUME IInv, SendChar
  PROVE  Conn'
<1>1. TypeOK /\ ClientInv /\ Conn /\ Sending /\ cpc = "send"
  BY DEF IInv, SendChar, Goto, Sending
<1>2. PICK o, b, w \in Seq(Chars), e \in 0..pos : Working(o, b, e, w)
  BY <1>1, SendingGoesOn
<1>. DEFINE c == file[pos + 1]
            r == SubSeq(file, e + 1, pos)
<1>3. /\ pos' = pos + 1 /\ c2s' = Append(c2s, c)
      /\ countLinee' = IF c = Newline THEN countLinee + 1 ELSE countLinee
      /\ cpc' = IF c # Newline THEN "send"
                ELSE IF kind = "select" THEN "poll"
                ELSE IF countLinee' # riga THEN "recv" ELSE "send"
      /\ UNCHANGED <<kind, asked, file, riga, out, tmp, kidVars, s2c, stray>>
  BY DEF SendChar, Goto
<1>4. UNCHANGED <<kind, file, riga, out, kid, header, got, lineCounter, buff, s2c, stray>>
  BY <1>3 DEF kidVars
<1>5. /\ pos \in 0..(Len(file) - 1) /\ pos \in Nat /\ e \in Nat /\ e <= pos /\ file \in Seq(Chars)
      /\ c \in Chars /\ pos < Len(file) /\ Len(file) \in Nat /\ riga \in Int /\ countLinee \in Nat
      /\ pos + 1 \in Nat
  <2>1. pos \in 0..Len(file) /\ riga \in Int /\ countLinee \in Nat
    BY <1>1, ThereType
  <2>2. pos < Len(file) /\ file \in Seq(Chars)
    BY <1>1 DEF SendChar, TypeOK
  <2>. QED
    BY <2>1, <2>2
<1>6. r \in Seq(Chars) /\ SubSeq(file, e + 1, pos + 1) = Append(r, c)
  BY <1>5, StretchMore
<1>7. There(e, w) \in Readers
      /\ There(e, w) = Reader("data", riga, Len(file) - pos, countLinee, r, w)
  BY <1>1, <1>5, ThereType
<1>. HIDE DEF c, r
<1>8. Len(file) - pos > 0 /\ Len(file) - (pos + 1) = (Len(file) - pos) - 1
  BY <1>5
<1>9. /\ There(e, w).at = "data" /\ There(e, w).left = Len(file) - pos
      /\ There(e, w).riga = riga /\ There(e, w).lines = countLinee
      /\ There(e, w).buff = r /\ There(e, w).out = w
  BY <1>7 DEF Reader
<1>10. <<There(e, w), c, AfterChar(There(e, w), c)>> \in Steps
  BY <1>5, <1>7, <1>8, <1>9, CharSteps
<1>11. /\ Link(o, b) /\ Unended(file, e + 1, pos) /\ Leads(Steps, Here(o), c2s, There(e, w))
       /\ ~stray => w = b \o Kept(file, riga, e)
       /\ ~stray /\ kind = "lockstep" => out = Kept(file, riga, e)
  BY <1>1, <1>2 DEF Working
<1>12. Leads(Steps, Here(o)', c2s', AfterChar(There(e, w), c))
  <2>1. c2s \in Seq(Items) /\ c \in Items
    BY <1>1, <1>5, ItemsOnWay DEF Items
  <2>2. Leads(Steps, Here(o), Append(c2s, c), AfterChar(There(e, w), c))
    BY <1>10, <1>11, <2>1, LeadsAppend
  <2>3. Here(o)' = Here(o)
    BY <1>4 DEF Here
  <2>. QED
    BY <1>3, <2>2, <2>3
<1>13. Link(o, b)'
  BY <1>4, <1>11 DEF Link
<1>14. ~Gone' /\ Sending'
  BY <1>1, <1>3, <1>4, SendingGoesOn DEF Gone, Sending
<1>15. CASE c # Newline
  <2>1. AfterChar(There(e, w), c) = There(e, w)'
    <3>1. AfterChar(There(e, w), c)
            = Resume(riga, (Len(file) - pos) - 1, countLinee, Append(r, c), w)
      BY <1>9, <1>15 DEF AfterChar
    <3>2. There(e, w)'
            = Resume(riga, Len(file) - (pos + 1), countLinee, SubSeq(file, e + 1, pos + 1), w)
      BY <1>3, <1>4, <1>15 DEF There
    <3>. QED
      BY <1>6, <1>8, <3>1, <3>2
  <2>2. Unended(file, e + 1, pos + 1)
    <3>1. \A i \in (e + 1)..(pos + 1) : i \in (e + 1)..pos \/ i = pos + 1
      BY <1>5
    <3>. QED
      BY <1>11, <1>15, <3>1 DEF Unended, c
  <2>3. cpc' = "send"
    BY <1>3, <1>15
  <2>4. Working(o, b, e, w)'
    BY <1>3, <1>4, <1>11, <1>12, <1>13, <2>1, <2>2, <2>3 DEF Working
  <2>5. e \in 0..pos'
    BY <1>3, <1>5
  <2>. QED
    BY <1>14, <2>4, <2>5 DEF Conn, Sending
<1>16. CASE c = Newline
  <2>. DEFINE d == Sent(countLinee + 1, riga, Append(r, c))
  <2>1. d \in Seq(Chars) /\ w \o d \in Seq(Chars)
    <3>1. Append(r, c) \in Seq(Chars)
      BY <1>5, <1>6
    <3>2. d \in Seq(Chars)
      BY <3>1, SentType
    <3>. QED
      BY <3>2, Joined
  <2>2. PICK z \in Nat : z = pos + 1
    BY <1>5
  <2>3. PICK v \in Seq(Chars) : v = w \o d
    BY <2>1
  <2>. HIDE DEF d
  <2>4. SubSeq(file, z + 1, z) = <<>> /\ Unended(file, z + 1, z)
    <3>1. z + 1 \in Int /\ z \in Int /\ z < z + 1 /\ (z + 1)..z = {}
      OBVIOUS
    <3>. QED
      BY <1>5, <3>1, SubSeqEmpty DEF Unended
  <2>5. pos' = z /\ countLinee' = countLinee + 1 /\ riga' = riga /\ file' = file
    BY <1>3, <1>4, <1>16, <2>2
  <2>6. AfterChar(There(e, w), c) = There(z, v)'
    <3>1. AfterChar(There(e, w), c)
            = Resume(riga, (Len(file) - pos) - 1, countLinee + 1, <<>>, v)
      BY <1>9, <1>16, <2>3 DEF AfterChar, d
    <3>2. There(z, v)' = Resume(riga', Len(file') - pos', countLinee',
                                SubSeq(file', z + 1, pos'), v)
      BY DEF There
    <3>3. Len(file) - z = (Len(file) - pos) - 1
      BY <1>8, <2>2
    <3>. QED
      BY <2>4, <2>5, <3>1, <3>2, <3>3
  <2>7. Kept(file, riga, z) = Kept(file, riga, e) \o d
    <3>1. z \in 0..Len(file) /\ e \in 0..z /\ z - 1 = pos
      BY <1>5, <2>2
    <3>2. Kept(file, riga, z) = Kept(file, riga, e)
             \o Sent(Cardinality(Ends(file, e)) + 1, riga, SubSeq(file, e + 1, z))
      BY <1>5, <1>11, <3>1, KeptMore
    <3>3. Ends(file, pos) = Ends(file, e)
      BY <1>5, <1>11, EndsSame
    <3>4. countLinee = Cardinality(Ends(file, e))
      BY <1>1, <3>3 DEF ClientInv
    <3>. QED
      BY <1>6, <2>2, <3>2, <3>4 DEF d
  <2>8. Kept(file, riga, e) \in Seq(Chars)
    <3>1. e \in 0..Len(file)
      BY <1>5
    <3>. QED
      BY <1>5, <3>1, KeptType
  <2>9. ~stray => v = b \o Kept(file, riga, z)
    <3>1. PICK k \in Seq(Chars) : k = Kept(file, riga, e)
      BY <2>8
    <3>2. Regroups(b, k, d)
      BY <2>1, Associative
    <3>. QED
      BY <1>11, <2>3, <2>7, <3>1, <3>2 DEF Regroups
  <2>10. ASSUME ~stray, kind = "lockstep"
         PROVE  IF cpc' = "recv" THEN Awaited(o, b)' ELSE out = Kept(file, riga, z)
    <3>1. CASE countLinee + 1 # riga
      <4>1. cpc' = "recv"
        BY <1>3, <1>16, <2>10, <3>1
      <4>2. There(e, w).out = b \o out
        BY <1>9, <1>11, <2>10
      <4>3. PICK s \in Seq(Items), item \in Items : s = c2s /\ item = c
        BY <1>1, <1>5, ItemsOnWay DEF Items
      <4>4. PICK m : m = There(e, w)
        OBVIOUS
      <4>5. c2s' = Append(s, item) /\ Leads(Steps, Here(o)', s, m) /\ m.out = b \o out'
        <5>1. Here(o)' = Here(o)
          BY <1>4 DEF Here
        <5>. QED
          BY <1>3, <1>4, <1>11, <4>2, <4>3, <4>4, <5>1
      <4>6. Awaited(o, b)'
        BY <4>5 DEF Awaited
      <4>. QED
        BY <4>1, <4>6
    <3>2. CASE countLinee + 1 = riga
      <4>1. cpc' = "send" /\ d = <<>>
        BY <1>3, <1>16, <2>10, <3>2 DEF d, Sent
      <4>2. Kept(file, riga, e) \o <<>> = Kept(file, riga, e)
        BY <2>8, ConcatEmptySeq
      <4>. QED
        BY <1>11, <2>7, <2>10, <4>1, <4>2
    <3>. QED
      BY <3>1, <3>2
  <2>11. Working(o, b, z, v)'
    BY <1>3, <1>4, <1>12, <1>13, <2>4, <2>5, <2>6, <2>9, <2>10 DEF Working
  <2>12. z \in 0..pos'
    BY <2>2, <2>5
  <2>. QED
    BY <1>14, <2>11, <2>12 DEF Conn, Sending
<1>. QED
  BY <1>15, <1>16

\* A header takes a reader that has nothing left to the file it announces.
LEMMA ConnAsk ==
  ASSUME IInv, Ask
  PROVE  Conn'
<1>1. TypeOK /\ Conn /\ cpc = "prompt" /\ cpc' = "send"
  BY DEF IInv, Ask, Goto
<1>2. PICK o, b \in Seq(Chars) : \E q : Resting(o, b, q)
  BY <1>1 DEF Conn
<1>3. PICK q : Resting(o, b, q)
  BY <1>2
<1>4. /\ Link(o, b) /\ Leads(Steps, Here(o), c2s, q) /\ q.at = "name"
      /\ ~stray => q.out = b \o out
  BY <1>3 DEF Resting
<1>. DEFINE h == [riga |-> riga', dim |-> Len(file)]
<1>5. /\ c2s' = Append(c2s, h) /\ riga' \in Rows
      /\ pos' = 0 /\ countLinee' = 0 /\ out' = <<>>
      /\ stray' = (stray \/ (kind = "lockstep" /\ LastLineOpen(file, riga')))
      /\ UNCHANGED <<kind, file, tmp, kidVars, s2c>>
  BY DEF Ask
<1>6. UNCHANGED <<kind, file, kid, header, got, lineCounter, buff, s2c>>
  BY <1>5 DEF kidVars
<1>7. /\ h \in Headers /\ h.riga = riga' /\ h.dim = Len(file) /\ file \in Seq(Chars)
      /\ out \in Seq(Chars) /\ s2c \in Seq(Chars)
  BY <1>1, <1>5 DEF Headers, TypeOK
<1>. HIDE DEF h
<1>8. Here(o) \in Readers /\ c2s \in Seq(Items) /\ h \in Items
  BY <1>1, <1>7, HereType, ItemsOnWay DEF Items
<1>9. q \in Readers
  BY <1>4, <1>8, PathGrows
<1>10. PICK w \in Seq(Chars) : w = q.out
  BY <1>9 DEF Readers
<1>11. PICK v \in Seq(Chars) : v = b \o out
  BY <1>7, Joined
<1>12. Leads(Steps, Here(o)', c2s', There(0, w)')
  <2>1. <<q, h, AfterHeader(q, h)>> \in Steps
    BY <1>4, <1>7, <1>9, HeaderSteps
  <2>2. Leads(Steps, Here(o), Append(c2s, h), AfterHeader(q, h))
    BY <1>4, <1>8, <2>1, LeadsAppend
  <2>3. Here(o)' = Here(o)
    BY <1>6 DEF Here
  <2>4. AfterHeader(q, h) = Resume(riga', Len(file), 0, <<>>, w)
    BY <1>7, <1>10 DEF AfterHeader
  <2>5. There(0, w)' = Resume(riga', Len(file') - pos', countLinee', SubSeq(file', 0 + 1, pos'), w)
    BY DEF There
  <2>6. Len(file) - 0 = Len(file) /\ SubSeq(file, 0 + 1, 0) = <<>>
    BY <1>7, SubSeqEmpty
  <2>. QED
    BY <1>5, <1>6, <2>2, <2>3, <2>4, <2>5, <2>6
<1>13. /\ Link(o, v)'
       /\ ~stray' => w = v /\ w = v \o Kept(file, riga', 0) /\ out' = Kept(file, riga', 0)
  <2>1. v \o <<>> = v
    BY ConcatEmptySeq
  <2>2. Kept(file, riga', 0) = <<>>
    BY KeptNone
  <2>3. ~stray' => o = (v \o <<>>) \o s2c
    BY <1>4, <1>5, <1>11, <2>1 DEF Link
  <2>. QED
    BY <1>4, <1>5, <1>6, <1>10, <1>11, <2>1, <2>2, <2>3 DEF Link
<1>14. Unended(file, 0 + 1, 0)
  BY DEF Unended
<1>15. Working(o, v, 0, w)'
  BY <1>1, <1>5, <1>6, <1>12, <1>13, <1>14 DEF Working
<1>16. ~Gone' /\ 0 \in 0..pos'
  BY <1>1, <1>5, <1>6 DEF Conn, Gone
<1>. QED
  BY <1>1, <1>15, <1>16 DEF Conn, Sending

\* What clientTCP receives is all that it waits for.
LEMMA AnswerComplete ==
  ASSUME TypeOK, ClientInv, cpc = "recv", s2c # <<>>, ~stray, NEW o \in Seq(Chars),
         NEW b \in Seq(Chars), NEW e \in 0..pos, NEW w \in Seq(Chars), Working(o, b, e, w),
         kind = "lockstep"
  PROVE  out \o s2c = Kept(file, riga, e)
<1>1. /\ o = (b \o out) \o s2c /\ Unended(file, e + 1, pos) /\ w = b \o Kept(file, riga, e)
      /\ Leads(Steps, Here(o), c2s, There(e, w)) /\ Awaited(o, b)
  BY DEF Working, Link
<1>2. out \in Seq(Chars) /\ s2c \in Seq(Chars) /\ file \in Seq(Chars)
  BY DEF TypeOK
<1>3. /\ Here(o) \in Readers /\ Len(o) <= Len(Here(o).out) /\ Here(o).buff = buff
      /\ kid # "data" => Here(o).out = o
  BY HereType
<1>4. c2s = <<>>
  <2>. SUFFICES ASSUME c2s # <<>> PROVE FALSE
    OBVIOUS
  <2>1. PICK s \in Seq(Items), item \in Items :
          \E m : c2s = Append(s, item) /\ Leads(Steps, Here(o), s, m) /\ m.out = b \o out
    BY <1>1 DEF Awaited
  <2>2. PICK m : Leads(Steps, Here(o), s, m) /\ m.out = b \o out
    BY <2>1
  <2>3. Len(Here(o).out) <= Len(b \o out) /\ Len(Here(o).out) \in Nat
    BY <1>3, <2>2, PathGrows DEF Readers
  <2>4. b \o out \in Seq(Chars)
    BY <1>2, Joined
  <2>5. Len(o) = Len(b \o out) + Len(s2c) /\ Len(b \o out) \in Nat
    BY <1>1, <1>2, <2>4, Joined
  <2>6. Len(s2c) \in Nat /\ Len(s2c) # 0
    BY <1>2, EmptySeq
  <2>. QED
    BY <1>3, <2>3, <2>5, <2>6
<1>5. Here(o) = There(e, w)
  BY <1>1, <1>4, LeadsEmpty
<1>6. e = pos
  <2>1. pos \in Nat /\ file[pos] = Newline
    BY DEF ClientInv
  <2>2. e # pos => pos \in (e + 1)..pos
    BY <2>1
  <2>. QED
    BY <1>1, <2>1, <2>2 DEF Unended
<1>7. There(e, w).buff = <<>> /\ There(e, w).out = w
  BY <1>6, ThereType DEF Sending
<1>8. Here(o).out = o
  <2>1. buff = <<>>
    BY <1>3, <1>5, <1>7
  <2>2. Resume(header.riga, header.dim - got, lineCounter, <<>>, o).out = o
    BY ConcatEmptySeq DEF Resume, Reader, Sent
  <2>3. kid = "data" => Here(o) = Resume(header.riga, header.dim - got, lineCounter, <<>>, o)
    BY <2>1 DEF Here
  <2>. QED
    BY <1>3, <2>2, <2>3, Zenon
<1>9. b \o (out \o s2c) = b \o Kept(file, riga, e)
  <2>1. Regroups(b, out, s2c)
    BY <1>2, Associative
  <2>. QED
    BY <1>1, <1>5, <1>7, <1>8, <2>1 DEF Regroups
<1>10. Kept(file, riga, e) \in Seq(Chars) /\ out \o s2c \in Seq(Chars)
  <2>1. e \in 0..Len(file)
    BY ThereType DEF Sending
  <2>. QED
    BY <1>2, <2>1, KeptType, Joined
<1>. QED
  BY <1>9, <1>10, Cancel

LEMMA ConnReceive ==
  ASSUME IInv, NEW from \in {"recv", "poll", "drain"}, NEW to \in {"send", "drain"},
         Receive(from, to), to = "drain" <=> from = "drain"
  PROVE  Conn'
<1>1. TypeOK /\ ClientInv /\ Conn /\ Sending /\ cpc = from /\ cpc' = to /\ Sending'
  BY DEF IInv, Receive, Goto, Sending
<1>2. PICK o, b, w \in Seq(Chars), e \in 0..pos : Working(o, b, e, w)
  BY <1>1, SendingGoesOn
<1>3. /\ s2c # <<>> /\ out' = out \o s2c /\ s2c' = <<>>
      /\ UNCHANGED <<kind, file, riga, pos, countLinee, kid, header, got, lineCounter, buff,
                     c2s, stray>>
  BY DEF Receive, kidVars
<1>4. /\ Link(o, b) /\ Unended(file, e + 1, pos) /\ Leads(Steps, Here(o), c2s, There(e, w))
      /\ ~stray => w = b \o Kept(file, riga, e)
  BY <1>2 DEF Working
<1>5. Link(o, b)'
  <2>1. out \in Seq(Chars) /\ s2c \in Seq(Chars)
    BY <1>1 DEF TypeOK
  <2>2. Regroups(b, out, s2c)
    BY <2>1, Associative
  <2>3. b \o (out \o s2c) \in Seq(Chars)
    BY <2>1, Joined
  <2>4. (b \o (out \o s2c)) \o <<>> = b \o (out \o s2c)
    BY <2>3, ConcatEmptySeq
  <2>5. ~stray => o = (b \o out') \o s2c'
    BY <1>3, <1>4, <2>2, <2>4 DEF Link, Regroups
  <2>. QED
    BY <1>3, <2>5 DEF Link
<1>6. Here(o)' = Here(o) /\ There(e, w)' = There(e, w)
  BY <1>3 DEF Here, There
<1>7. ASSUME ~stray, kind = "lockstep"
      PROVE  cpc' # "recv" /\ out' = Kept(file, riga, e)
  <2>1. cpc = "recv" /\ cpc' = "send"
    BY <1>1, <1>7 DEF ClientInv
  <2>. QED
    BY <1>1, <1>2, <1>3, <1>7, <2>1, AnswerComplete
<1>8. Working(o, b, e, w)'
  BY <1>3, <1>4, <1>5, <1>6, <1>7 DEF Working
<1>9. ~Gone' /\ e \in 0..pos'
  BY <1>1, <1>3, SendingGoesOn DEF Gone
<1>. QED
  BY <1>1, <1>8, <1>9 DEF Conn, Sending

\* A select that finds nothing, and the end of sending.
LEMMA ConnWaits ==
  ASSUME IInv, PollMisses \/ StartDrain
  PROVE  Conn'
<1>1. /\ TypeOK /\ ClientInv /\ Conn /\ Sending /\ Sending'
      /\ kind = "select"
      /\ UNCHANGED <<kind, file, riga, pos, countLinee, out, kid, header, got, lineCounter, buff,
                     c2s, s2c, stray>>
  BY DEF IInv, ClientInv, PollMisses, StartDrain, Goto, Sending, sendVars, kidVars
<1>2. PICK o, b, w \in Seq(Chars), e \in 0..pos : Working(o, b, e, w)
  BY <1>1, SendingGoesOn
<1>3. Here(o)' = Here(o) /\ There(e, w)' = There(e, w)
  BY <1>1 DEF Here, There
<1>4. Working(o, b, e, w)'
  BY <1>1, <1>2, <1>3 DEF Working, Link
<1>5. ~Gone' /\ e \in 0..pos'
  BY <1>1, SendingGoesOn DEF Gone
<1>. QED
  BY <1>1, <1>4, <1>5 DEF Conn, Sending

-------------------------------------------------------------------------------
(***************************************************************************)
(* The end of a request.                                                   *)
(***************************************************************************)
LEMMA AllKept ==
  ASSUME TypeOK, ClientInv, Sending, pos = Len(file), NEW e \in 0..pos, Unended(file, e + 1, pos)
  PROVE  /\ Kept(file, riga, e) \in Seq(Chars)
         /\ Filtered(file, riga) = Kept(file, riga, e)
               \o Sent(countLinee + 1, riga, SubSeq(file, e + 1, pos))
<1>1. file \in Seq(Chars) /\ pos \in Nat /\ riga \in Int /\ Len(file) \in Nat /\ e \in Nat
  <2>1. riga \in Int /\ pos \in Nat
    BY ThereType, <<>> \in Seq(Chars) DEF ClientInv
  <2>. QED
    BY <2>1 DEF TypeOK
<1>2. Unended(file, e + 1, pos - 1)
  <2>1. \A i \in (e + 1)..(pos - 1) : i \in (e + 1)..pos
    BY <1>1
  <2>. QED
    BY <2>1 DEF Unended
<1>3. Ends(file, pos) = Ends(file, e)
  BY <1>1, EndsSame
<1>4. countLinee = Cardinality(Ends(file, e))
  BY <1>3 DEF ClientInv
<1>5. pos \in 0..Len(file) /\ e \in 0..Len(file)
  BY <1>1
<1>6. Kept(file, riga, pos) = Kept(file, riga, e)
        \o Sent(Cardinality(Ends(file, e)) + 1, riga, SubSeq(file, e + 1, pos))
  BY <1>1, <1>2, <1>5, KeptMore
<1>7. Kept(file, riga, pos) = Filtered(file, riga)
  BY <1>1, KeptAll
<1>. QED
  BY <1>1, <1>4, <1>5, <1>6, <1>7, KeptType

\* clientTCP waits for all lines, unless the last one has no end.
LEMMA NothingOpen ==
  ASSUME TypeOK, ClientInv, Sending, pos = Len(file), NEW e \in 0..pos, Unended(file, e + 1, pos),
         ~LastLineOpen(file, riga)
  PROVE  Sent(countLinee + 1, riga, SubSeq(file, e + 1, pos)) = <<>>
<1>1. file \in Seq(Chars) /\ pos \in Nat /\ Len(file) \in Nat /\ e \in Nat
  BY DEF TypeOK, ClientInv
<1>2. CASE e = pos
  <2>1. SubSeq(file, e + 1, pos) = <<>>
    BY <1>1, <1>2, SubSeqEmpty
  <2>. QED
    BY <2>1 DEF Sent
<1>3. CASE e # pos
  <2>1. pos \in (e + 1)..pos /\ file # <<>>
    BY <1>1, <1>3
  <2>2. Last(file) # Newline
    BY <2>1 DEF Unended, Last
  <2>3. riga = 1 + Cardinality({i \in DOMAIN file : file[i] = Newline})
    BY <2>1, <2>2 DEF LastLineOpen
  <2>4. DOMAIN file = 1..pos
    BY <1>1
  <2>5. riga = 1 + countLinee
    BY <2>3, <2>4 DEF ClientInv, Ends
  <2>6. countLinee \in Nat
    BY <1>1, EndsMore DEF ClientInv
  <2>. QED
    BY <2>5, <2>6 DEF Sent
<1>. QED
  BY <1>2, <1>3

LEMMA LockstepExact ==
  ASSUME IInv, FinishLockstep, ~stray
  PROVE  out = Filtered(file, riga)
<1>1. /\ TypeOK /\ ClientInv /\ Conn /\ Sending /\ cpc = "send" /\ kind = "lockstep"
      /\ pos = Len(file)
  BY DEF IInv, FinishLockstep, Goto, Sending
<1>2. PICK o, b, w \in Seq(Chars), e \in 0..pos : Working(o, b, e, w)
  BY <1>1, SendingGoesOn
<1>3. out = Kept(file, riga, e) /\ Unended(file, e + 1, pos)
  BY <1>1, <1>2 DEF Working
<1>4. Sent(countLinee + 1, riga, SubSeq(file, e + 1, pos)) = <<>>
  <2>1. ~LastLineOpen(file, riga)
    BY <1>1 DEF ClientInv
  <2>. QED
    BY <1>1, <1>3, <2>1, NothingOpen
<1>5. /\ Filtered(file, riga) = Kept(file, riga, e) \o <<>>
      /\ Kept(file, riga, e) \in Seq(Chars)
  BY <1>1, <1>3, <1>4, AllKept
<1>. QED
  BY <1>3, <1>5, ConcatEmptySeq

LEMMA SelectExact ==
  ASSUME IInv, FinishSelect, ~stray'
  PROVE  out = Filtered(file, riga)
<1>1. /\ TypeOK /\ ClientInv /\ Conn /\ Sending /\ cpc = "drain" /\ pos = Len(file)
      /\ ~stray /\ ~Outstanding
  BY DEF IInv, ClientInv, FinishSelect, Goto, Sending
<1>2. PICK o, b, w \in Seq(Chars), e \in 0..pos : Working(o, b, e, w)
  BY <1>1, SendingGoesOn
<1>3. c2s = <<>> /\ s2c = <<>> /\ kid = "name"
  BY <1>1 DEF Outstanding
<1>4. /\ o = (b \o out) \o s2c /\ Unended(file, e + 1, pos) /\ w = b \o Kept(file, riga, e)
      /\ Leads(Steps, Here(o), c2s, There(e, w))
  BY <1>1, <1>2 DEF Working, Link
<1>. DEFINE k == Kept(file, riga, e)
            d == Sent(countLinee + 1, riga, SubSeq(file, e + 1, pos))
<1>5. /\ There(e, w).out = w \o d /\ d \in Seq(Chars)
      /\ k \in Seq(Chars) /\ Filtered(file, riga) = k \o d
  BY <1>1, <1>4, ThereType, AllKept, SentType
<1>. HIDE DEF k, d
<1>6. Here(o) = There(e, w)
  BY <1>3, <1>4, LeadsEmpty
<1>7. Here(o).out = o
  BY <1>1, <1>3, HereType
<1>8. o = b \o out /\ out \in Seq(Chars)
  <2>1. out \in Seq(Chars)
    BY <1>1 DEF TypeOK
  <2>2. b \o out \in Seq(Chars)
    BY <2>1, Joined
  <2>. QED
    BY <1>3, <1>4, <2>1, <2>2, ConcatEmptySeq, Zenon
<1>9. b \o out = b \o (k \o d) /\ k \o d \in Seq(Chars)
  <2>1. Regroups(b, k, d)
    BY <1>5, Associative
  <2>2. k \o d \in Seq(Chars)
    BY <1>5, Joined
  <2>. QED
    BY <1>4, <1>5, <1>6, <1>7, <1>8, <2>1, <2>2 DEF k, Regroups
<1>. QED
  BY <1>5, <1>8, <1>9, Cancel

\* The client is where it was, with a file of its own or not.
LEMMA ConnFinish ==
  ASSUME IInv, FinishLockstep \/ FinishSelect
  PROVE  Conn'
<1>1. /\ TypeOK /\ ClientInv /\ Conn /\ Sending /\ pos = Len(file) /\ cpc' = "prompt"
      /\ ~stray' => ~stray
      /\ UNCHANGED <<out, kid, header, got, lineCounter, buff, c2s, s2c>>
  <2>1. TypeOK /\ ClientInv /\ Conn
    BY DEF IInv
  <2>2. CASE FinishLockstep
    BY <2>1, <2>2 DEF FinishLockstep, Goto, Sending, kidVars
  <2>3. CASE FinishSelect
    <3>1. ~stray' => ~stray
      BY <2>3, Zenon DEF FinishSelect
    <3>2. cpc = "drain" /\ cpc' = "prompt"
      BY <2>3 DEF FinishSelect, Goto
    <3>3. UNCHANGED <<out, kid, header, got, lineCounter, buff, c2s, s2c>>
      BY <2>3 DEF FinishSelect, kidVars
    <3>. QED
      BY <2>1, <3>1, <3>2, <3>3 DEF ClientInv, Sending
  <2>. QED
    BY <2>2, <2>3
<1>2. PICK o, b, w \in Seq(Chars), e \in 0..pos : Working(o, b, e, w)
  BY <1>1, SendingGoesOn
<1>3. /\ Link(o, b) /\ Unended(file, e + 1, pos) /\ Leads(Steps, Here(o), c2s, There(e, w))
      /\ ~stray => w = b \o Kept(file, riga, e)
  BY <1>2 DEF Working
<1>4. PICK q : q = There(e, w)
  OBVIOUS
<1>5. /\ q.at = "name"
      /\ q.out = w \o Sent(countLinee + 1, riga, SubSeq(file, e + 1, pos))
      /\ SubSeq(file, e + 1, pos) \in Seq(Chars)
  BY <1>1, <1>4, ThereType
<1>6. ~stray' => q.out = b \o out
  <2>. SUFFICES ASSUME ~stray' PROVE q.out = b \o out
    OBVIOUS
  <2>. DEFINE k == Kept(file, riga, e)
              d == Sent(countLinee + 1, riga, SubSeq(file, e + 1, pos))
  <2>1. /\ d \in Seq(Chars) /\ k \in Seq(Chars) /\ Filtered(file, riga) = k \o d
    BY <1>1, <1>3, <1>5, AllKept, SentType
  <2>2. out = Filtered(file, riga)
    BY <1>1, LockstepExact, SelectExact
  <2>. HIDE DEF k, d
  <2>3. Regroups(b, k, d)
    BY <2>1, Associative
  <2>. QED
    BY <1>1, <1>3, <1>5, <2>1, <2>2, <2>3, Zenon DEF k, d, Regroups
<1>7. Link(o, b)' /\ Here(o)' = Here(o)
  BY <1>1, <1>3 DEF Link, Here
<1>8. Resting(o, b, q)'
  BY <1>1, <1>3, <1>4, <1>5, <1>6, <1>7 DEF Resting
<1>9. ~Gone'
  BY <1>1, SendingGoesOn DEF Gone
<1>. QED
  BY <1>1, <1>8, <1>9 DEF Conn, Sending

-------------------------------------------------------------------------------
(***************************************************************************)
(* The end of a client, and the next one.                                  *)
(***************************************************************************)
LEMMA StillReads ==
  ASSUME Conn, ~Gone, TypeOK
  PROVE  Read
<1>1. cpc \in {"prompt", "done"} \/ Sending
  BY DEF TypeOK, Sending
<1>2. CASE cpc = "prompt"
  <2>1. PICK o, b \in Seq(Chars) : \E q : Resting(o, b, q)
    BY <1>2 DEF Conn
  <2>. QED
    BY <2>1 DEF Resting, Read
<1>3. CASE cpc = "done"
  BY <1>3 DEF Conn
<1>4. CASE Sending
  <2>1. PICK o, b, w \in Seq(Chars), e \in 0..pos : Working(o, b, e, w)
    BY <1>4, SendingGoesOn
  <2>. QED
    BY <2>1 DEF Working, Read
<1>. QED
  BY <1>1, <1>2, <1>3, <1>4

LEMMA ConnClientEnds ==
  ASSUME IInv, ClientEnds
  PROVE  Conn'
<1>1. /\ TypeOK /\ Conn /\ cpc # "done" /\ cpc' = "done"
      /\ UNCHANGED <<kid, header, got, lineCounter, buff>>
  BY DEF IInv, ClientEnds, kidVars
<1>2. Read
  BY <1>1, StillReads DEF Conn
<1>3. PICK o \in Seq(Chars) : \E q : Leads(Steps, Here(o), c2s, q)
  BY <1>2 DEF Read
<1>4. PICK q : Leads(Steps, Here(o), c2s, q)
  BY <1>3
<1>5. PICK k \in 0..Len(c2s) : c2s' = SubSeq(c2s, 1, k)
  BY DEF ClientEnds
<1>6. \E p : Leads(Steps, Here(o), SubSeq(c2s, 1, k), p)
  BY <1>1, <1>4, ItemsOnWay, LeadsPrefix
<1>7. Here(o)' = Here(o)
  BY <1>1 DEF Here
<1>8. Read'
  BY <1>5, <1>6, <1>7 DEF Read
<1>. QED
  BY <1>1, <1>8 DEF Conn, Sending

\* A connection at its beginning.
Fresh == cpc = "prompt" /\ kid = "none" /\ c2s = <<>> /\ s2c = <<>> /\ out = <<>>

LEMMA ConnFresh ==
  Fresh => Conn
<1>. SUFFICES ASSUME Fresh PROVE Conn
  OBVIOUS
<1>1. <<>> \in Seq(Chars) /\ <<>> \o <<>> = <<>>
  OBVIOUS
<1>2. PICK q : q = Here(<<>>)
  OBVIOUS
<1>3. q.at = "name" /\ q.out = <<>>
  BY <1>2 DEF Here, Reader, Fresh
<1>4. Leads(Steps, Here(<<>>), c2s, q)
  BY <1>2, LeadsEmpty DEF Fresh
<1>5. Resting(<<>>, <<>>, q)
  BY <1>1, <1>3, <1>4 DEF Resting, Link, Fresh
<1>. QED
  BY <1>1, <1>5 DEF Conn, Gone, Sending, Fresh

LEMMA ConnRelaunch ==
  ASSUME Relaunch
  PROVE  Conn'
<1>1. Fresh'
  BY DEF Relaunch, Fresh
<1>. QED
  BY <1>1, ConnFresh, PTL

-------------------------------------------------------------------------------
(***************************************************************************)
(* The child.                                                              *)
(***************************************************************************)
\* The child, which has sent o, sends d more: nothing is read, or the next item.
Forward(o, v, d) ==
  /\ v = o \o d
  /\ cpc # "done" => s2c' = s2c \o d
  /\ \/ c2s' = c2s /\ Here(v)' = Here(o)
     \/ /\ c2s # <<>> /\ c2s' = Tail(c2s)
        /\ \A p : <<Here(o), Head(c2s), p>> \in Steps => p = Here(v)'

LEMMA ForwardNothing ==
  ASSUME TypeOK, NEW o \in Seq(Chars), s2c' = s2c,
         \/ c2s' = c2s /\ Here(o)' = Here(o)
         \/ /\ c2s # <<>> /\ c2s' = Tail(c2s)
            /\ \A p : <<Here(o), Head(c2s), p>> \in Steps => p = Here(o)'
  PROVE  \E v, d \in Seq(Chars) : Forward(o, v, d)
<1>1. o \o <<>> = o /\ s2c \o <<>> = s2c /\ <<>> \in Seq(Chars)
  BY ConcatEmptySeq DEF TypeOK
<1>2. Forward(o, o, <<>>)
  BY <1>1 DEF Forward
<1>. QED
  BY <1>1, <1>2

LEMMA ForwardStays ==
  ASSUME TypeOK, Accept \/ LookupFails, NEW o \in Seq(Chars)
  PROVE  \E v, d \in Seq(Chars) : Forward(o, v, d)
<1>1. /\ kid = "none" /\ kid' \in {"name", "lost"} /\ s2c' = s2c /\ c2s' = c2s
      /\ UNCHANGED <<header, got, lineCounter, buff>>
  BY DEF Accept, LookupFails, KidGoto
<1>2. Here(o)' = Here(o)
  BY <1>1 DEF Here
<1>. QED
  BY <1>1, <1>2, ForwardNothing

LEMMA ForwardHeader ==
  ASSUME TypeOK, ReadHeader, NEW o \in Seq(Chars)
  PROVE  \E v, d \in Seq(Chars) : Forward(o, v, d)
<1>1. /\ kid = "name" /\ kid' = "data" /\ c2s # <<>> /\ c2s' = Tail(c2s) /\ s2c' = s2c
      /\ header' = Head(c2s) /\ got' = 0 /\ lineCounter' = 0 /\ buff' = <<>>
  BY DEF ReadHeader, KidGoto
<1>2. Here(o).at = "name" /\ Here(o).out = o
  BY <1>1, HereType
<1>3. ASSUME NEW p, <<Here(o), Head(c2s), p>> \in Steps
      PROVE  p = Here(o)'
  <2>1. Head(c2s) \in Headers /\ p = AfterHeader(Here(o), Head(c2s))
    BY <1>2, <1>3, StepIs
  <2>2. p = Resume(header'.riga, header'.dim, 0, <<>>, o)
    BY <1>1, <1>2, <2>1 DEF AfterHeader
  <2>3. Here(o)' = Resume(header'.riga, header'.dim - 0, 0, <<>>, o)
    BY <1>1 DEF Here
  <2>4. header'.dim \in Nat
    BY <1>1, <2>1 DEF Headers
  <2>. QED
    BY <2>2, <2>3, <2>4
<1>. QED
  BY <1>1, <1>3, ForwardNothing

LEMMA ForwardEnd ==
  ASSUME TypeOK, EndFile, NEW o \in Seq(Chars)
  PROVE  \E v, d \in Seq(Chars) : Forward(o, v, d)
<1>1. /\ kid = "data" /\ kid' = "name" /\ got = header.dim /\ c2s' = c2s
      /\ lineCounter' = lineCounter + 1
      /\ UNCHANGED <<header, got, buff>>
  BY DEF EndFile, KidGoto
<1>2. PICK d : d = Sent(lineCounter + 1, header.riga, buff)
  OBVIOUS
<1>3. d \in Seq(Chars) /\ s2c \o <<>> = s2c
  BY <1>2, SentType, ConcatEmptySeq DEF TypeOK
<1>4. PICK v \in Seq(Chars) : v = o \o d
  BY <1>3, Joined
<1>5. cpc # "done" => s2c' = s2c \o d
  <2>1. IF lineCounter' # header.riga THEN SendLine(buff) ELSE UNCHANGED s2c
    BY DEF EndFile
  <2>. QED
    BY <1>1, <1>2, <1>3, <2>1 DEF SendLine, Sent
<1>6. Here(v)' = Here(o)
  <2>1. header.dim - got = 0
    <3>1. header.dim \in Nat
      BY DEF TypeOK
    <3>. QED
      BY <1>1, <3>1
  <2>2. Here(o) = Reader("name", header.riga, 0, lineCounter + 1, buff, v)
    BY <1>1, <1>2, <1>4, <2>1 DEF Here, Resume
  <2>3. Here(v)' = Reader("name", header'.riga, header'.dim - got', lineCounter', buff', v)
    BY <1>1 DEF Here
  <2>. QED
    BY <1>1, <2>1, <2>2, <2>3
<1>7. Forward(o, v, d)
  BY <1>1, <1>4, <1>5, <1>6 DEF Forward
<1>. QED
  BY <1>3, <1>7

LEMMA ForwardChar ==
  ASSUME TypeOK, ReadChar, NEW o \in Seq(Chars)
  PROVE  \E v, d \in Seq(Chars) : Forward(o, v, d)
<1>1. /\ kid = "data" /\ kid' = "data" /\ got < header.dim /\ c2s # <<>> /\ c2s' = Tail(c2s)
      /\ got' = got + 1 /\ header' = header
  BY DEF ReadChar
<1>2. /\ Here(o) = Reader("data", header.riga, header.dim - got, lineCounter, buff, o)
  BY <1>1, HereType
<1>3. /\ Here(o).at = "data" /\ Here(o).riga = header.riga /\ Here(o).left = header.dim - got
      /\ Here(o).lines = lineCounter /\ Here(o).buff = buff /\ Here(o).out = o
  BY <1>2 DEF Reader
<1>4. header.dim - got' = (header.dim - got) - 1
  <2>1. header.dim \in Nat /\ got \in 0..header.dim
    BY DEF TypeOK
  <2>. QED
    BY <1>1, <2>1
<1>5. ASSUME NEW v \in Seq(Chars), NEW p, <<Here(o), Head(c2s), p>> \in Steps
      PROVE  /\ Head(c2s) \in Chars
             /\ p = AfterChar(Here(o), Head(c2s))
             /\ Here(v)' = Resume(header.riga, (header.dim - got) - 1, lineCounter', buff', v)
  BY <1>1, <1>3, <1>4, <1>5, StepIs DEF Here
<1>6. CASE Head(c2s) # Newline
  <2>1. buff' = Append(buff, Head(c2s)) /\ lineCounter' = lineCounter /\ s2c' = s2c
    BY <1>6 DEF ReadChar
  <2>2. ASSUME NEW p, <<Here(o), Head(c2s), p>> \in Steps
        PROVE  p = Here(o)'
    BY <1>3, <1>5, <1>6, <2>1, <2>2 DEF AfterChar
  <2>. QED
    BY <1>1, <2>1, <2>2, ForwardNothing
<1>7. CASE Head(c2s) = Newline
  <2>1. /\ buff' = <<>> /\ lineCounter' = lineCounter + 1
        /\ IF lineCounter' # header.riga THEN SendLine(Append(buff, Newline)) ELSE UNCHANGED s2c
    BY <1>7 DEF ReadChar
  <2>2. PICK d : d = Sent(lineCounter + 1, header.riga, Append(buff, Newline))
    OBVIOUS
  <2>3. d \in Seq(Chars) /\ s2c \o <<>> = s2c
    <3>1. Append(buff, Newline) \in Seq(Chars)
      BY DEF TypeOK, Chars
    <3>. QED
      BY <2>2, <3>1, SentType, ConcatEmptySeq DEF TypeOK
  <2>4. PICK v \in Seq(Chars) : v = o \o d
    BY <2>3, Joined
  <2>5. cpc # "done" => s2c' = s2c \o d
    BY <2>1, <2>2, <2>3 DEF SendLine, Sent
  <2>6. ASSUME NEW p, <<Here(o), Head(c2s), p>> \in Steps
        PROVE  p = Here(v)'
    BY <1>3, <1>5, <1>7, <2>1, <2>2, <2>4, <2>6 DEF AfterChar
  <2>7. Forward(o, v, d)
    BY <1>1, <2>4, <2>5, <2>6 DEF Forward
  <2>. QED
    BY <2>3, <2>7
<1>. QED
  BY <1>6, <1>7

LEMMA KidForward ==
  ASSUME TypeOK, ReadHeader \/ ReadChar \/ EndFile \/ Accept \/ LookupFails, NEW o \in Seq(Chars)
  PROVE  \E v, d \in Seq(Chars) : Forward(o, v, d)
BY ForwardStays, ForwardHeader, ForwardEnd, ForwardChar

\* What has been read so far is no longer on the way.
LEMMA ForwardLeads ==
  ASSUME NEW o, NEW v, NEW d, Forward(o, v, d), NEW q, Leads(Steps, Here(o), c2s, q),
         c2s \in Seq(Items)
  PROVE  Leads(Steps, Here(v)', c2s', q)
<1>1. CASE c2s' = c2s /\ Here(v)' = Here(o)
  BY <1>1
<1>2. CASE /\ c2s # <<>> /\ c2s' = Tail(c2s)
           /\ \A p : <<Here(o), Head(c2s), p>> \in Steps => p = Here(v)'
  <2>1. PICK p : <<Here(o), Head(c2s), p>> \in Steps /\ Leads(Steps, p, Tail(c2s), q)
    BY <1>2, LeadsTail
  <2>. QED
    BY <1>2, <2>1
<1>. QED
  BY <1>1, <1>2 DEF Forward

LEMMA ForwardAwaited ==
  ASSUME NEW o, NEW v, NEW d, Forward(o, v, d), NEW b, Awaited(o, b), c2s \in Seq(Items),
         out' = out
  PROVE  Awaited(v, b)'
<1>1. CASE c2s = <<>>
  BY <1>1 DEF Forward, Awaited
<1>2. CASE c2s # <<>>
  <2>1. PICK s \in Seq(Items), item \in Items :
          \E m : c2s = Append(s, item) /\ Leads(Steps, Here(o), s, m) /\ m.out = b \o out
    BY <1>2 DEF Awaited
  <2>2. PICK m : c2s = Append(s, item) /\ Leads(Steps, Here(o), s, m) /\ m.out = b \o out
    BY <2>1
  <2>3. CASE c2s' = c2s /\ Here(v)' = Here(o)
    BY <2>2, <2>3 DEF Awaited
  <2>4. CASE /\ c2s # <<>> /\ c2s' = Tail(c2s)
             /\ \A p : <<Here(o), Head(c2s), p>> \in Steps => p = Here(v)'
    <3>1. CASE s = <<>>
      <4>1. Tail(c2s) = <<>>
        BY <2>2, <3>1, HeadTailAppend
      <4>. QED
        BY <2>4, <4>1 DEF Awaited
    <3>2. CASE s # <<>>
      <4>1. Head(c2s) = Head(s) /\ Tail(c2s) = Append(Tail(s), item)
        BY <2>2, <3>2, HeadTailAppend
      <4>2. PICK p : <<Here(o), Head(s), p>> \in Steps /\ Leads(Steps, p, Tail(s), m)
        BY <2>2, <3>2, LeadsTail
      <4>3. p = Here(v)'
        BY <2>4, <4>1, <4>2
      <4>4. PICK u \in Seq(Items) : u = Tail(s)
        BY <3>2, HeadTailProperties
      <4>5. c2s' = Append(u, item) /\ Leads(Steps, Here(v)', u, m) /\ m.out = b \o out'
        BY <2>2, <2>4, <4>1, <4>2, <4>3, <4>4
      <4>. QED
        BY <4>5 DEF Awaited
    <3>. QED
      BY <3>1, <3>2
  <2>. QED
    BY <2>3, <2>4 DEF Forward
<1>. QED
  BY <1>1, <1>2

LEMMA ForwardLink ==
  ASSUME NEW o \in Seq(Chars), NEW v \in Seq(Chars), NEW d \in Seq(Chars), Forward(o, v, d),
         NEW b \in Seq(Chars), Link(o, b), TypeOK, cpc # "done", out' = out, stray' = stray
  PROVE  Link(v, b)'
<1>1. out \in Seq(Chars) /\ s2c \in Seq(Chars) /\ b \o out \in Seq(Chars)
  BY Joined DEF TypeOK
<1>2. ((b \o out) \o s2c) \o d = (b \o out) \o (s2c \o d)
  <2>1. PICK x \in Seq(Chars) : x = b \o out
    BY <1>1
  <2>2. Regroups(x, s2c, d)
    BY <1>1, Associative
  <2>. QED
    BY <2>1, <2>2 DEF Regroups
<1>3. v = o \o d /\ s2c' = s2c \o d
  BY DEF Forward
<1>4. ~stray => v = (b \o out') \o s2c'
  BY <1>2, <1>3 DEF Link
<1>. QED
  BY <1>4 DEF Link

LEMMA ConnKid ==
  ASSUME IInv, ReadHeader \/ ReadChar \/ EndFile \/ Accept \/ LookupFails
  PROVE  Conn'
<1>1. TypeOK /\ ClientInv /\ Conn /\ c2s \in Seq(Items)
  BY ItemsOnWay DEF IInv
<1>2. UNCHANGED <<kind, cpc, file, riga, pos, countLinee, out, stray>>
  BY DEF ReadHeader, ReadChar, EndFile, Accept, LookupFails, clientVars, sendVars
<1>3. ~Gone /\ ~Gone'
  BY DEF ReadHeader, ReadChar, EndFile, Accept, LookupFails, KidGoto, Gone
<1>4. CASE cpc = "done"
  <2>1. PICK o \in Seq(Chars) : \E q : Leads(Steps, Here(o), c2s, q)
    BY <1>1, <1>3, <1>4 DEF Conn, Read
  <2>2. PICK q : Leads(Steps, Here(o), c2s, q)
    BY <2>1
  <2>3. PICK v, d \in Seq(Chars) : Forward(o, v, d)
    BY <1>1, KidForward
  <2>4. Leads(Steps, Here(v)', c2s', q)
    BY <1>1, <2>2, <2>3, ForwardLeads
  <2>5. Read'
    BY <2>4 DEF Read
  <2>. QED
    BY <1>2, <1>4, <2>5 DEF Conn, Sending
<1>5. CASE cpc = "prompt"
  <2>1. PICK o, b \in Seq(Chars) : \E q : Resting(o, b, q)
    BY <1>1, <1>5 DEF Conn
  <2>2. PICK q : Resting(o, b, q)
    BY <2>1
  <2>3. PICK v, d \in Seq(Chars) : Forward(o, v, d)
    BY <1>1, KidForward
  <2>4. Leads(Steps, Here(v)', c2s', q)
    BY <1>1, <2>2, <2>3, ForwardLeads DEF Resting
  <2>5. Link(v, b)'
    BY <1>1, <1>2, <1>5, <2>2, <2>3, ForwardLink DEF Resting
  <2>6. Resting(v, b, q)'
    BY <1>2, <2>2, <2>4, <2>5 DEF Resting
  <2>. QED
    BY <1>2, <1>3, <1>5, <2>6 DEF Conn, Sending
<1>6. CASE Sending
  <2>1. PICK o, b, w \in Seq(Chars), e \in 0..pos : Working(o, b, e, w)
    BY <1>1, <1>6, SendingGoesOn
  <2>2. PICK v, d \in Seq(Chars) : Forward(o, v, d)
    BY <1>1, KidForward
  <2>3. There(e, w)' = There(e, w)
    BY <1>2 DEF There
  <2>4. Leads(Steps, Here(v)', c2s', There(e, w))
    BY <1>1, <2>1, <2>2, ForwardLeads DEF Working
  <2>5. Link(v, b)'
    BY <1>1, <1>2, <1>6, <2>1, <2>2, ForwardLink DEF Working, Sending
  <2>6. Awaited(o, b) => Awaited(v, b)'
    BY <1>1, <1>2, <2>2, ForwardAwaited
  <2>7. Working(v, b, e, w)'
    BY <1>2, <2>1, <2>3, <2>4, <2>5, <2>6 DEF Working
  <2>8. Sending' /\ e \in 0..pos'
    BY <1>2, <1>6 DEF Sending
  <2>. QED
    BY <1>3, <2>7, <2>8 DEF Conn, Sending
<1>. QED
  BY <1>1, <1>4, <1>5, <1>6 DEF TypeOK, Sending

\* A child that ends has lost its client.
LEMMA ConnKidEnds ==
  ASSUME KidExits \/ RunsAway \/ KidKilled
  PROVE  Conn'
<1>1. cpc = "done" /\ cpc' = cpc /\ Gone'
  BY DEF KidExits, RunsAway, KidKilled, KidEnds, AtEnd, clientVars, Gone
<1>. QED
  BY <1>1 DEF Conn, Sending

LEMMA ConnStutter ==
  ASSUME Conn, UNCHANGED vars
  PROVE  Conn'
<1>1. UNCHANGED <<kind, cpc, file, riga, pos, countLinee, out, c2s, s2c, kid, header, got,
                  lineCounter, buff, stray>>
  BY DEF vars, clientVars, kidVars, sendVars
<1>2. \A o : Here(o)' = Here(o)
  BY <1>1 DEF Here
<1>3. \A e, w : There(e, w)' = There(e, w)
  BY <1>1 DEF There
<1>4. \A o, b : (Link(o, b)' <=> Link(o, b)) /\ (Awaited(o, b)' <=> Awaited(o, b))
  BY <1>1, <1>2 DEF Link, Awaited
<1>5. \A o, b, q : Resting(o, b, q)' <=> Resting(o, b, q)
  BY <1>1, <1>2, <1>4 DEF Resting
<1>6. \A o, b, e, w : Working(o, b, e, w)' <=> Working(o, b, e, w)
  BY <1>1, <1>2, <1>3, <1>4 DEF Working
<1>7. (Read' <=> Read) /\ (Gone' <=> Gone) /\ (Sending' <=> Sending)
  BY <1>1, <1>2 DEF Read, Gone, Sending
<1>. QED
  BY <1>1, <1>5, <1>6, <1>7 DEF Conn

LEMMA ConnStep ==
  ASSUME IInv, [Next]_vars
  PROVE  Conn'
<1>1. CASE UNCHANGED vars
  BY <1>1, ConnStutter DEF IInv
<1>2. CASE Ask
  BY <1>2, ConnAsk
<1>3. CASE ClientEnds
  BY <1>3, ConnClientEnds
<1>4. CASE Relaunch
  BY <1>4, ConnRelaunch
<1>5. CASE Client
  <2>1. CASE Receive("recv", "send") \/ Receive("poll", "send") \/ Receive("drain", "drain")
    BY <2>1, ConnReceive
  <2>. QED
    BY <1>5, <2>1, ConnSendChar, ConnWaits, ConnFinish DEF Client
<1>6. CASE Server
  BY <1>6, ConnKid DEF Server
<1>7. CASE Kid \/ KidKilled
  BY <1>7, ConnKid, ConnKidEnds DEF Kid
<1>. QED
  BY <1>1, <1>2, <1>3, <1>4, <1>5, <1>6, <1>7 DEF Next

-------------------------------------------------------------------------------
(***************************************************************************)
(* Types and counts.                                                       *)
(***************************************************************************)
Counts == TypeOK /\ ClientInv /\ KidInv

LEMMA CountsAsk ==
  ASSUME Counts, Ask
  PROVE  Counts'
<1>1. TypeOK /\ KidInv
  BY DEF Counts
<1>2. /\ cpc' = "send" /\ asked < MaxAsked /\ asked' = asked + 1 /\ riga' \in Rows
      /\ pos' = 0 /\ countLinee' = 0 /\ out' = <<>>
      /\ c2s' = Append(c2s, [riga |-> riga', dim |-> Len(file)])
      /\ stray' = (stray \/ (kind = "lockstep" /\ LastLineOpen(file, riga')))
      /\ UNCHANGED <<kind, file, tmp, s2c, kid, header, got, lineCounter, buff>>
  BY DEF Ask, Goto, kidVars
<1>3. stray' \in BOOLEAN /\ (kind = "lockstep" /\ ~stray' => ~LastLineOpen(file, riga'))
  BY <1>2, Zenon
<1>4. asked' \in 0..MaxAsked
  BY <1>1, <1>2, TextsAssumption DEF TextsAssumption, TypeOK
<1>5. c2s' \in Seq(Chars \cup [riga : Rows, dim : Nat])
  <2>1. [riga |-> riga', dim |-> Len(file)] \in [riga : Rows, dim : Nat]
    BY <1>1, <1>2 DEF TypeOK
  <2>2. c2s \in Seq(Chars \cup [riga : Rows, dim : Nat])
    BY <1>1 DEF TypeOK
  <2>. QED
    BY <1>2, <2>1, <2>2
<1>6. pos' \in 0..Len(file') /\ countLinee' \in 0..pos' /\ pos' \in Nat
  BY <1>1, <1>2 DEF TypeOK
<1>7. TypeOK'
  BY <1>1, <1>2, <1>3, <1>4, <1>5, <1>6 DEF TypeOK
<1>8. Cardinality(Ends(file', pos')) = 0
  BY <1>2, EndsNone
<1>9. (~LastLineOpen(file, riga))' <=> ~LastLineOpen(file, riga')
  BY <1>2 DEF LastLineOpen
<1>10. ClientInv'
  BY <1>2, <1>3, <1>6, <1>8, <1>9 DEF ClientInv, Sending
<1>11. KidInv'
  BY <1>1, <1>2 DEF KidInv
<1>. QED
  BY <1>7, <1>10, <1>11 DEF Counts

LEMMA CountsSendChar ==
  ASSUME Counts, SendChar
  PROVE  Counts'
<1>1. TypeOK /\ KidInv /\ ClientInv
  BY DEF Counts
<1>. DEFINE c == file[pos + 1]
<1>2. /\ cpc = "send" /\ pos < Len(file) /\ pos' = pos + 1 /\ c2s' = Append(c2s, c)
      /\ countLinee' = IF c = Newline THEN countLinee + 1 ELSE countLinee
      /\ cpc' = IF c # Newline THEN "send"
                ELSE IF kind = "select" THEN "poll"
                ELSE IF countLinee' # riga THEN "recv" ELSE "send"
      /\ UNCHANGED <<kind, asked, file, riga, out, tmp, s2c, stray, kid, header, got,
                     lineCounter, buff>>
  BY DEF SendChar, Goto, kidVars
<1>3. pos \in 0..Len(file) /\ file \in Seq(Chars) /\ Len(file) \in Nat /\ pos \in Nat
  BY <1>1, <1>2 DEF TypeOK, ClientInv
<1>4. c \in Chars
  BY <1>2, <1>3
<1>5. /\ Cardinality(Ends(file, pos)) \in 0..pos
      /\ Cardinality(Ends(file, pos + 1)) =
           IF c = Newline THEN Cardinality(Ends(file, pos)) + 1 ELSE Cardinality(Ends(file, pos))
  BY <1>3, EndsMore
<1>6. countLinee = Cardinality(Ends(file, pos))
  BY <1>1, <1>2 DEF ClientInv, Sending
<1>7. countLinee' = Cardinality(Ends(file', pos')) /\ countLinee' \in 0..pos'
  BY <1>2, <1>3, <1>5, <1>6
<1>8. pos' \in 0..Len(file') /\ pos' \in Nat /\ pos' # 0 /\ c = file'[pos']
  BY <1>2, <1>3
<1>9. c2s' \in Seq(Chars \cup [riga : Rows, dim : Nat])
  BY <1>1, <1>2, <1>4 DEF TypeOK
<1>. HIDE DEF c
<1>10. TypeOK'
  BY <1>1, <1>2, <1>7, <1>8, <1>9 DEF TypeOK
<1>11. Sending /\ Sending' /\ cpc' # "drain"
  BY <1>2 DEF Sending
<1>12. LastLineOpen(file, riga)' <=> LastLineOpen(file, riga)
  BY <1>2 DEF LastLineOpen
<1>13. ClientInv'
  BY <1>1, <1>2, <1>7, <1>8, <1>11, <1>12 DEF ClientInv
<1>14. KidInv'
  BY <1>1, <1>2 DEF KidInv
<1>. QED
  BY <1>10, <1>13, <1>14 DEF Counts

LEMMA CountsMoves ==
  ASSUME Counts, PollMisses \/ StartDrain \/ Receive("recv", "send") \/ Receive("poll", "send")
                   \/ Receive("drain", "drain")
  PROVE  Counts'
<1>1. TypeOK /\ KidInv /\ ClientInv
  BY DEF Counts
<1>2. /\ Sending /\ cpc' \in {"send", "drain"}
      /\ cpc' = "drain" => pos = Len(file) /\ kind = "select"
      /\ UNCHANGED <<kind, asked, file, riga, pos, countLinee, tmp, c2s, stray,
                     kid, header, got, lineCounter, buff>>
  BY <1>1 DEF PollMisses, StartDrain, Receive, Goto, kidVars, sendVars, Sending, ClientInv
<1>3. out' \in Seq(Chars) /\ s2c' \in Seq(Chars)
  <2>1. out \in Seq(Chars) /\ s2c \in Seq(Chars) /\ out \o s2c \in Seq(Chars)
    BY <1>1, Joined DEF TypeOK
  <2>2. (out' = out \/ out' = out \o s2c) /\ (s2c' = s2c \/ s2c' = <<>>)
    BY DEF PollMisses, StartDrain, Receive, sendVars
  <2>3. <<>> \in Seq(Chars)
    OBVIOUS
  <2>. QED
    BY <2>1, <2>2, <2>3, Zenon
<1>4. pos \in 0..Len(file)
  BY <1>1, <1>2 DEF TypeOK, Sending
<1>5. TypeOK'
  BY <1>1, <1>2, <1>3, <1>4 DEF TypeOK
<1>6. LastLineOpen(file, riga)' <=> LastLineOpen(file, riga)
  BY <1>2 DEF LastLineOpen
<1>7. ClientInv'
  BY <1>1, <1>2, <1>6 DEF ClientInv, Sending
<1>8. KidInv'
  BY <1>1, <1>2 DEF KidInv
<1>. QED
  BY <1>5, <1>7, <1>8 DEF Counts

LEMMA WrittenType ==
  ASSUME out \in Seq(Chars), tmp \in Seq(Chars)
  PROVE  Written \in Seq(Chars)
<1>1. Len(out) \in Nat /\ Len(tmp) \in Nat
  OBVIOUS
<1>2. SubSeq(tmp, Len(out) + 1, Len(tmp)) \in Seq(Chars)
  BY <1>1
<1>. QED
  BY <1>2, Joined DEF Written

LEMMA CountsFinish ==
  ASSUME Counts, FinishLockstep \/ FinishSelect
  PROVE  Counts'
<1>1. TypeOK /\ KidInv /\ ClientInv
  BY DEF Counts
<1>2. /\ cpc' = "prompt" /\ Replace
      /\ UNCHANGED <<kind, asked, riga, pos, countLinee, out, c2s, s2c,
                     kid, header, got, lineCounter, buff>>
  BY DEF FinishLockstep, FinishSelect, Goto, kidVars
<1>3. stray' \in BOOLEAN
  <2>1. stray \in BOOLEAN
    BY <1>1 DEF TypeOK
  <2>2. CASE FinishLockstep
    BY <2>1, <2>2 DEF FinishLockstep
  <2>3. CASE FinishSelect
    <3>1. stray' = (stray \/ Outstanding)
      BY <2>3 DEF FinishSelect
    <3>. QED
      BY <3>1, Zenon
  <2>. QED
    BY <2>2, <2>3
<1>4. file' \in Seq(Chars) /\ tmp' \in Seq(Chars)
  <2>1. file \in Seq(Chars) /\ Written \in Seq(Chars) /\ <<>> \in Seq(Chars)
    BY <1>1, WrittenType DEF TypeOK
  <2>2. (file' = Written /\ tmp' = <<>>) \/ (tmp' = Written /\ file' = file)
    BY <1>2 DEF Replace
  <2>. QED
    BY <2>1, <2>2
<1>5. TypeOK'
  BY <1>1, <1>2, <1>3, <1>4 DEF TypeOK
<1>6. ClientInv'
  BY <1>1, <1>2 DEF ClientInv, Sending
<1>7. KidInv'
  BY <1>1, <1>2 DEF KidInv
<1>. QED
  BY <1>5, <1>6, <1>7 DEF Counts

LEMMA CountsClientEnds ==
  ASSUME Counts, ClientEnds
  PROVE  Counts'
<1>1. TypeOK /\ KidInv /\ ClientInv
  BY DEF Counts
<1>2. /\ cpc' = "done" /\ s2c' = <<>>
      /\ UNCHANGED <<kind, asked, file, riga, pos, countLinee, out, tmp, stray,
                     kid, header, got, lineCounter, buff>>
  BY DEF ClientEnds, kidVars, sendVars
<1>3. c2s' \in Seq(Chars \cup [riga : Rows, dim : Nat])
  <2>1. PICK k \in 0..Len(c2s) : c2s' = SubSeq(c2s, 1, k)
    BY DEF ClientEnds
  <2>2. c2s \in Seq(Chars \cup [riga : Rows, dim : Nat])
    BY <1>1 DEF TypeOK
  <2>. QED
    BY <2>1, <2>2
<1>4. TypeOK'
  BY <1>1, <1>2, <1>3 DEF TypeOK
<1>5. ClientInv' /\ KidInv'
  BY <1>1, <1>2 DEF ClientInv, KidInv, Sending
<1>. QED
  BY <1>4, <1>5 DEF Counts

LEMMA CountsInit ==
  Init => Counts
<1>. SUFFICES ASSUME Init PROVE Counts
  OBVIOUS
<1>1. file \in Seq(Chars) /\ 0 \in 0..MaxAsked
  BY TextsAssumption DEF TextsAssumption, Init
<1>2. NoHeader \in [riga : Rows \cup {0}, dim : Nat] /\ NoHeader.dim = 0
  BY DEF NoHeader
<1>3. TypeOK
  <2>1. /\ <<>> \in Seq(Chars) /\ <<>> \in Seq(Chars \cup [riga : Rows, dim : Nat])
        /\ 0 \in 0..0 /\ 0 \in 0..(0 + 1) /\ FALSE \in BOOLEAN
    OBVIOUS
  <2>2. /\ kind \in {"lockstep", "select"} /\ cpc = "prompt" /\ asked = 0 /\ stray = FALSE
        /\ riga = 0 /\ pos = 0 /\ countLinee = 0 /\ out = <<>> /\ tmp = <<>>
        /\ c2s = <<>> /\ s2c = <<>> /\ kid = "none" /\ header = NoHeader /\ got = 0
        /\ lineCounter = 0 /\ buff = <<>>
    BY DEF Init
  <2>3. countLinee \in 0..pos /\ got \in 0..header.dim /\ lineCounter \in 0..(got + 1)
    BY <1>2, <2>1, <2>2
  <2>. QED
    BY <1>1, <1>2, <2>1, <2>2, <2>3 DEF TypeOK
<1>4. ClientInv /\ KidInv
  BY DEF Init, ClientInv, KidInv, Sending
<1>. QED
  BY <1>3, <1>4 DEF Counts

LEMMA RelaunchInit ==
  ASSUME Relaunch
  PROVE  Init'
BY DEF Relaunch, Init

LEMMA CountsRelaunch ==
  ASSUME Relaunch
  PROVE  Counts'
BY RelaunchInit, CountsInit, PTL

\* What the child takes is a header for a header and a character for a character.
LEMMA NextItem ==
  ASSUME TypeOK, Conn, ~Gone, c2s # <<>>
  PROVE  /\ kid # "data" => Head(c2s) \in Headers
         /\ kid = "data" /\ got < header.dim => Head(c2s) \in Chars
<1>1. PICK o \in Seq(Chars) : \E q : Leads(Steps, Here(o), c2s, q)
  BY StillReads DEF Read
<1>2. PICK q : Leads(Steps, Here(o), c2s, q)
  BY <1>1
<1>3. PICK p : <<Here(o), Head(c2s), p>> \in Steps
  BY <1>2, ItemsOnWay, LeadsTail
<1>4. kid # "data" => Here(o).at = "name"
  BY HereType
<1>5. kid = "data" /\ got < header.dim => Here(o).at = "data"
  <2>1. kid = "data" /\ got < header.dim =>
          Here(o) = Reader("data", header.riga, header.dim - got, lineCounter, buff, o)
    BY HereType
  <2>. QED
    BY <2>1 DEF Reader
<1>. QED
  BY <1>3, <1>4, <1>5, StepIs

LEMMA ClientStays ==
  ASSUME ClientInv, UNCHANGED clientVars
  PROVE  ClientInv'
<1>1. UNCHANGED <<kind, cpc, file, riga, pos, countLinee, stray>>
  BY DEF clientVars, sendVars
<1>2. LastLineOpen(file, riga)' <=> LastLineOpen(file, riga)
  BY <1>1 DEF LastLineOpen
<1>. QED
  BY <1>1, <1>2 DEF ClientInv, Sending

LEMMA CountsReads ==
  ASSUME Counts, Conn, ReadHeader \/ ReadChar
  PROVE  Counts'
<1>1. TypeOK /\ KidInv /\ ClientInv
  BY DEF Counts
<1>2. /\ c2s # <<>> /\ c2s' = Tail(c2s) /\ UNCHANGED clientVars
  BY DEF ReadHeader, ReadChar
<1>3. UNCHANGED <<kind, cpc, asked, file, riga, pos, countLinee, out, tmp, stray>>
  BY <1>2 DEF clientVars, sendVars
<1>4. c2s' \in Seq(Chars \cup [riga : Rows, dim : Nat])
  <2>1. c2s \in Seq(Chars \cup [riga : Rows, dim : Nat])
    BY <1>1 DEF TypeOK
  <2>. QED
    BY <1>2, <2>1
<1>5. ~Gone
  BY DEF ReadHeader, ReadChar, KidGoto, Gone
<1>6. CASE ReadHeader
  <2>1. /\ kid = "name" /\ kid' = "data" /\ header' = Head(c2s) /\ s2c' = s2c
        /\ got' = 0 /\ lineCounter' = 0 /\ buff' = <<>>
    BY <1>6 DEF ReadHeader, KidGoto
  <2>2. header' \in [riga : Rows \cup {0}, dim : Nat] /\ header'.dim \in Nat
    <3>1. header' \in Headers
      BY <1>1, <1>2, <1>5, <2>1, NextItem
    <3>. QED
      BY <3>1 DEF Headers
  <2>3. got' \in 0..header'.dim /\ lineCounter' \in 0..(got' + 1)
    BY <2>1, <2>2
  <2>4. TypeOK'
    BY <1>1, <1>3, <1>4, <2>1, <2>2, <2>3 DEF TypeOK
  <2>5. KidInv'
    BY <2>1 DEF KidInv
  <2>. QED
    BY <1>1, <1>2, <2>4, <2>5, ClientStays DEF Counts
<1>7. CASE ReadChar
  <2>1. /\ kid = "data" /\ kid' = kid /\ got < header.dim /\ got' = got + 1 /\ header' = header
    BY <1>7 DEF ReadChar
  <2>2. Head(c2s) \in Chars
    BY <1>1, <1>2, <1>5, <2>1, NextItem
  <2>3. /\ got \in Nat /\ header.dim \in Nat /\ lineCounter \in Nat /\ lineCounter <= got
        /\ buff \in Seq(Chars) /\ s2c \in Seq(Chars)
    <3>1. header.dim \in Nat /\ got \in 0..header.dim /\ lineCounter \in 0..(got + 1)
      BY <1>1 DEF TypeOK
    <3>2. got \in Nat /\ lineCounter \in Nat
      BY <3>1
    <3>. QED
      BY <1>1, <2>1, <3>1, <3>2 DEF TypeOK, KidInv
  <2>4. /\ buff' \in Seq(Chars) /\ s2c' \in Seq(Chars)
        /\ lineCounter' \in Nat /\ lineCounter' <= got'
    <3>1. CASE Head(c2s) = Newline
      <4>1. /\ buff' = <<>> /\ lineCounter' = lineCounter + 1
            /\ s2c' = s2c \/ s2c' = s2c \o Append(buff, Newline)
        BY <1>7, <3>1 DEF ReadChar, SendLine
      <4>2. Append(buff, Newline) \in Seq(Chars)
        BY <2>3 DEF Chars
      <4>3. s2c \o Append(buff, Newline) \in Seq(Chars) /\ <<>> \in Seq(Chars)
        BY <2>3, <4>2, Joined
      <4>4. buff' \in Seq(Chars) /\ s2c' \in Seq(Chars)
        BY <2>3, <4>1, <4>3, Zenon
      <4>. QED
        BY <2>1, <2>3, <4>1, <4>4
    <3>2. CASE Head(c2s) # Newline
      <4>1. buff' = Append(buff, Head(c2s)) /\ lineCounter' = lineCounter /\ s2c' = s2c
        BY <1>7, <3>2 DEF ReadChar
      <4>. QED
        BY <2>1, <2>2, <2>3, <4>1
    <3>. QED
      BY <3>1, <3>2
  <2>5. got' \in 0..header'.dim /\ lineCounter' \in 0..(got' + 1)
    <3>1. PICK n \in Nat : n = header.dim
      BY <2>3
    <3>. QED
      BY <2>1, <2>3, <2>4, <3>1
  <2>6. TypeOK'
    BY <1>1, <1>3, <1>4, <2>1, <2>4, <2>5 DEF TypeOK
  <2>7. KidInv'
    BY <2>4 DEF KidInv
  <2>. QED
    BY <1>1, <1>2, <2>6, <2>7, ClientStays DEF Counts
<1>. QED
  BY <1>6, <1>7

LEMMA CountsEndFile ==
  ASSUME Counts, EndFile
  PROVE  Counts'
<1>1. TypeOK /\ KidInv /\ ClientInv
  BY DEF Counts
<1>2. /\ kid = "data" /\ kid' = "name" /\ lineCounter' = lineCounter + 1
      /\ s2c' = s2c \/ s2c' = s2c \o buff
      /\ UNCHANGED <<header, got, buff, c2s>> /\ UNCHANGED clientVars
  BY DEF EndFile, KidGoto, SendLine
<1>3. UNCHANGED <<kind, cpc, asked, file, riga, pos, countLinee, out, tmp, stray>>
  BY <1>2 DEF clientVars, sendVars
<1>4. s2c' \in Seq(Chars)
  <2>1. s2c \in Seq(Chars) /\ buff \in Seq(Chars) /\ s2c \o buff \in Seq(Chars)
    BY <1>1, Joined DEF TypeOK
  <2>. QED
    BY <1>2, <2>1
<1>5. lineCounter' \in 0..(got' + 1)
  <2>1. PICK n \in Nat : n = header.dim
    BY <1>1 DEF TypeOK
  <2>2. got \in 0..n /\ lineCounter \in 0..(got + 1)
    BY <1>1, <2>1 DEF TypeOK
  <2>. QED
    BY <1>1, <1>2, <2>2 DEF KidInv
<1>6. TypeOK'
  BY <1>1, <1>2, <1>3, <1>4, <1>5 DEF TypeOK
<1>7. KidInv'
  BY <1>2 DEF KidInv
<1>. QED
  BY <1>1, <1>2, <1>6, <1>7, ClientStays DEF Counts

\* The child begins or ends.
LEMMA CountsKidGoes ==
  ASSUME Counts, Accept \/ LookupFails \/ KidExits \/ RunsAway \/ KidKilled
  PROVE  Counts'
<1>1. TypeOK /\ ClientInv
  BY DEF Counts
<1>2. /\ kid' \in {"name", "lost", "exited", "crashed"}
      /\ UNCHANGED <<header, got, lineCounter, buff, c2s, s2c>> /\ UNCHANGED clientVars
  BY DEF Accept, LookupFails, KidExits, RunsAway, KidKilled, KidGoto, KidEnds
<1>3. UNCHANGED <<kind, cpc, asked, file, riga, pos, countLinee, out, tmp, stray>>
  BY <1>2 DEF clientVars, sendVars
<1>4. TypeOK'
  BY <1>1, <1>2, <1>3 DEF TypeOK
<1>5. KidInv'
  BY <1>2 DEF KidInv
<1>. QED
  BY <1>1, <1>2, <1>4, <1>5, ClientStays DEF Counts

LEMMA CountsStep ==
  ASSUME Counts, Conn, [Next]_vars
  PROVE  Counts'
<1>1. CASE UNCHANGED vars
  <2>1. UNCHANGED clientVars /\ UNCHANGED <<kid, header, got, lineCounter, buff, c2s, s2c>>
    BY <1>1 DEF vars, kidVars
  <2>2. UNCHANGED <<kind, cpc, asked, file, riga, pos, countLinee, out, tmp, stray>>
    BY <2>1 DEF clientVars, sendVars
  <2>3. TypeOK'
    BY <2>1, <2>2 DEF Counts, TypeOK
  <2>4. KidInv'
    BY <2>1 DEF Counts, KidInv
  <2>. QED
    BY <2>1, <2>3, <2>4, ClientStays DEF Counts
<1>2. CASE Ask
  BY <1>2, CountsAsk
<1>3. CASE ClientEnds
  BY <1>3, CountsClientEnds
<1>4. CASE Relaunch
  BY <1>4, CountsRelaunch
<1>5. CASE Client
  BY <1>5, CountsSendChar, CountsMoves, CountsFinish DEF Client
<1>6. CASE Server
  BY <1>6, CountsKidGoes DEF Server
<1>7. CASE Kid \/ KidKilled
  BY <1>7, CountsReads, CountsEndFile, CountsKidGoes DEF Kid
<1>. QED
  BY <1>1, <1>2, <1>3, <1>4, <1>5, <1>6, <1>7 DEF Next

-------------------------------------------------------------------------------
(***************************************************************************)
(* The theorems.                                                           *)
(***************************************************************************)
LEMMA InvInit ==
  Init => IInv
<1>. SUFFICES ASSUME Init PROVE IInv
  OBVIOUS
<1>1. Fresh
  BY DEF Init, Fresh
<1>. QED
  BY <1>1, ConnFresh, CountsInit DEF IInv, Counts

LEMMA InvStep ==
  IInv /\ [Next]_vars => IInv'
<1>. SUFFICES ASSUME IInv, [Next]_vars PROVE IInv'
  OBVIOUS
<1>1. Counts /\ Conn
  BY DEF IInv, Counts
<1>. QED
  BY <1>1, ConnStep, CountsStep DEF IInv, Counts

\* The inductive invariant: types and counts, and that reading what is on its way
\* takes the child to where its client is.
THEOREM Invariance == Spec => []IInv
BY InvInit, InvStep, PTL DEF Spec

\* The variables of client and child keep their types: what the child reads as a
\* header is one, it never counts more characters than announced or more lines
\* than it has read.
THEOREM TypeCorrect == Spec => []TypeOK
<1>1. IInv => TypeOK
  BY DEF IInv
<1>. QED
  BY <1>1, Invariance, PTL

ExactStep ==
  Finishes /\ ~stray' /\ tmp = <<>> => (file' = Filtered(file, riga) \/ tmp' = Filtered(file, riga))

LEMMA FinishesExact ==
  IInv /\ [Next]_vars => ExactStep
<1>. SUFFICES ASSUME IInv, [Next]_vars, Finishes, ~stray', tmp = <<>>
              PROVE  file' = Filtered(file, riga) \/ tmp' = Filtered(file, riga)
  BY DEF ExactStep
<1>1. TypeOK
  BY DEF IInv
<1>2. FinishLockstep \/ FinishSelect
  BY DEF Finishes, Next, vars, clientVars, kidVars, Ask, ClientEnds, Relaunch, Client, Server, Kid,
         KidKilled, SendChar, Receive, PollMisses, StartDrain, Goto, Accept, LookupFails,
         ReadHeader, ReadChar, EndFile, KidExits, RunsAway, KidEnds
<1>3. out = Filtered(file, riga)
  BY <1>2, LockstepExact, SelectExact DEF FinishLockstep
<1>4. Written = out
  <2>1. out \in Seq(Chars) /\ Len(out) \in Nat
    BY <1>1 DEF TypeOK
  <2>2. SubSeq(<<>>, Len(out) + 1, Len(<<>>)) = <<>>
    BY <2>1
  <2>. QED
    BY <2>1, <2>2, ConcatEmptySeq DEF Written
<1>5. Replace
  BY <1>2 DEF FinishLockstep, FinishSelect
<1>. QED
  BY <1>3, <1>4, <1>5 DEF Replace

\* A file is replaced by itself without the line asked for, unless something was
\* left unread on the connection or the temporary file had a content before: for
\* any files, lines and sequence of requests, with either client, however
\* characters and lines are delayed.
THEOREM FilterIsExact == Spec => ExactUnlessStray
<1>1. IInv /\ [Next]_vars => [ExactStep]_vars
  BY FinishesExact
<1>2. Spec => [][ExactStep]_vars
  BY <1>1, Invariance, PTL DEF Spec
<1>. QED
  BY <1>2 DEF ExactUnlessStray, ExactStep
===============================================================================
