-------------------------- MODULE SelectServerProofs --------------------------
(***************************************************************************)
(* Proofs about SelectServer.  The service of the words, for every text    *)
(* and all words, and though the server may stop at any moment: the file   *)
(* only loses words, and the count is right.  The TCP service, for every   *)
(* set of clients, every directory and any length of names: a client and   *)
(* its child are in step until the client takes a pause for the end.       *)
(***************************************************************************)
EXTENDS SelectServer, DataLemmas
-------------------------------------------------------------------------------
(***************************************************************************)
(* The loop over a text is a fold.  FoldLeft chooses a function on sets of *)
(* positions; there is one, and on the first k positions it is what the    *)
(* loop has after k characters.                                            *)
(***************************************************************************)
Chars == Letters \cup Separators

ReadingStates == [buf : Texts, out : Texts, found : Nat]

\* What the loop has after the whole of text.
ReadAll(text, word) == FoldLeft(LAMBDA s, c : ReadChar(s, c, word), Reading, text)

\* The equation that the fold's function solves, on the sets of positions up to n.
IsFold(f, text, word, n) ==
  f = [t \in SUBSET (1..n) |->
         IF t = {} THEN Reading ELSE ReadChar(f[t \ {Max(t)}], text[Max(t)], word)]

LEMMA LastPosition ==
  ASSUME NEW n \in Nat, NEW t, t \subseteq 1..n, t # {}
  PROVE  /\ Max(t) \in t /\ \A i \in t : i <= Max(t)
         /\ Max(t) \in 1..n /\ t \ {Max(t)} \subseteq 1..(Max(t) - 1)
<1>1. \E i \in t : \A j \in t : i >= j
  <2>. DEFINE U == {d \in 0..n : n - d \in t}
  <2>1. U \subseteq Nat /\ U # {}
    <3>1. PICK i \in t : TRUE
      OBVIOUS
    <3>2. i \in 1..n /\ n - i \in 0..n /\ n - (n - i) = i
      BY <3>1
    <3>3. n - i \in U
      BY <3>1, <3>2
    <3>4. \A e \in U : e \in Nat
      OBVIOUS
    <3>. HIDE DEF U
    <3>. QED
      BY <3>3, <3>4
  <2>. HIDE DEF U
  <2>2. PICK d \in U : \A e \in U : d <= e
    BY <2>1, SmallestElement
  <2>. USE DEF U
  <2>3. ASSUME NEW j \in t PROVE n - d >= j
    <3>1. j \in 1..n /\ n - j \in 0..n /\ n - (n - j) = j
      OBVIOUS
    <3>2. d <= n - j
      BY <2>2, <3>1
    <3>. QED
      BY <2>2, <3>1, <3>2
  <2>. QED
    BY <2>2, <2>3
<1>2. Max(t) \in t /\ \A j \in t : Max(t) >= j
  BY <1>1 DEF Max
<1>3. \A j \in t : j \in 1..n
  OBVIOUS
<1>4. Max(t) \in 1..n /\ \A i \in t : i <= Max(t)
  BY <1>2, <1>3
<1>5. ASSUME NEW j \in t \ {Max(t)} PROVE j \in 1..(Max(t) - 1)
  BY <1>3, <1>4, <1>5
<1>. QED
  BY <1>2, <1>4, <1>5

LEMMA ReadCharType ==
  ASSUME NEW s \in ReadingStates, NEW c \in Chars, NEW word
  PROVE  ReadChar(s, c, word) \in ReadingStates
<1>1. /\ Append(s.buf, c) \in Texts /\ Append(s.out, c) \in Texts
      /\ s.out \o Append(s.buf, c) \in Texts /\ <<>> \in Texts
  BY DEF ReadingStates, Texts, Chars
<1>2. s.found + 1 \in Nat
  BY DEF ReadingStates
<1>. QED
  BY <1>1, <1>2 DEF ReadChar, ReadingStates

LEMMA ReadingType == Reading \in ReadingStates
BY DEF Reading, ReadingStates, Texts

LEMMA FoldStep ==
  ASSUME NEW text \in Texts, NEW word, NEW n \in Nat, n + 1 <= Len(text),
         NEW f, f \in [SUBSET (1..n) -> ReadingStates], IsFold(f, text, word, n)
  PROVE  \E g \in [SUBSET (1..(n + 1)) -> ReadingStates] : IsFold(g, text, word, n + 1)
<1>. DEFINE step(h, t) ==
       IF t = {} THEN Reading ELSE ReadChar(h[t \ {Max(t)}], text[Max(t)], word)
<1>. DEFINE g == [t \in SUBSET (1..(n + 1)) |-> step(f, t)]
<1>1. \A t \in SUBSET (1..n) : f[t] = step(f, t)
  BY DEF IsFold
<1>2. ASSUME NEW t \in SUBSET (1..(n + 1)), t # {}
      PROVE  /\ Max(t) \in 1..(n + 1) /\ text[Max(t)] \in Chars
             /\ t \ {Max(t)} \in SUBSET (1..n)
  <2>1. /\ Max(t) \in 1..(n + 1) /\ t \ {Max(t)} \subseteq 1..(Max(t) - 1)
    <3>1. n + 1 \in Nat /\ t \subseteq 1..(n + 1)
      OBVIOUS
    <3>. QED
      BY <1>2, <3>1, LastPosition
  <2>2. 1..(Max(t) - 1) \subseteq 1..n
    BY <2>1
  <2>3. Len(text) \in Nat
    BY DEF Texts
  <2>4. Max(t) \in 1..Len(text)
    BY <2>1, <2>3
  <2>5. text[Max(t)] \in Chars
    BY <2>4 DEF Texts, Chars
  <2>. QED
    BY <2>1, <2>2, <2>5
<1>3. ASSUME NEW t \in SUBSET (1..(n + 1)) PROVE step(f, t) \in ReadingStates
  <2>1. CASE t = {}
    BY <2>1, ReadingType
  <2>2. CASE t # {}
    <3>1. f[t \ {Max(t)}] \in ReadingStates /\ text[Max(t)] \in Chars
      BY <1>2, <2>2
    <3>. QED
      BY <2>2, <3>1, ReadCharType
  <2>. QED
    BY <2>1, <2>2
<1>4. g \in [SUBSET (1..(n + 1)) -> ReadingStates]
  BY <1>3
<1>5. ASSUME NEW t \in SUBSET (1..n) PROVE g[t] = f[t]
  <2>1. t \in SUBSET (1..(n + 1))
    <3>1. 1..n \subseteq 1..(n + 1)
      OBVIOUS
    <3>. QED
      BY <3>1
  <2>. QED
    BY <1>1, <2>1
<1>6. ASSUME NEW t \in SUBSET (1..(n + 1)) PROVE step(f, t) = step(g, t)
  BY <1>2, <1>5
<1>7. g = [t \in SUBSET (1..(n + 1)) |-> step(g, t)]
  BY <1>6
<1>8. IsFold(g, text, word, n + 1)
  BY <1>7 DEF IsFold
<1>. QED
  BY <1>4, <1>8

LEMMA FoldExists ==
  ASSUME NEW text \in Texts, NEW word
  PROVE  \E f \in [SUBSET (1..Len(text)) -> ReadingStates] : IsFold(f, text, word, Len(text))
<1>. DEFINE T == {n \in 0..Len(text) :
                    \E f \in [SUBSET (1..n) -> ReadingStates] : IsFold(f, text, word, n)}
<1>1. Len(text) \in Nat
  BY DEF Texts
<1>2. 0 \in T
  <2>. DEFINE f == [t \in SUBSET (1..0) |-> Reading]
  <2>1. SUBSET (1..0) = {{}}
    OBVIOUS
  <2>2. f \in [SUBSET (1..0) -> ReadingStates]
    BY ReadingType
  <2>3. IsFold(f, text, word, 0)
    BY <2>1 DEF IsFold
  <2>. HIDE DEF f
  <2>4. \E h \in [SUBSET (1..0) -> ReadingStates] : IsFold(h, text, word, 0)
    BY <2>2, <2>3
  <2>5. 0 \in 0..Len(text)
    BY <1>1
  <2>. QED
    BY <2>4, <2>5
<1>3. ASSUME NEW n \in 0..(Len(text) - 1), n \in T PROVE n + 1 \in T
  <2>. HIDE DEF T
  <2>1. n \in Nat /\ n + 1 <= Len(text) /\ n + 1 \in 0..Len(text)
    BY <1>1
  <2>2. PICK f \in [SUBSET (1..n) -> ReadingStates] : IsFold(f, text, word, n)
    BY <1>3 DEF T
  <2>3. \E g \in [SUBSET (1..(n + 1)) -> ReadingStates] : IsFold(g, text, word, n + 1)
    BY <2>1, <2>2, FoldStep
  <2>. QED
    BY <2>1, <2>3 DEF T
<1>. HIDE DEF T
<1>4. \A n \in 0..Len(text) : n \in T
  BY <1>1, <1>2, <1>3, InductionUpTo
<1>5. Len(text) \in T
  BY <1>1, <1>4
<1>. QED
  BY <1>5 DEF T

\* What FoldLeft chooses.
LEMMA FoldOf ==
  ASSUME NEW text \in Texts, NEW word
  PROVE  \E f : IsFold(f, text, word, Len(text)) /\ ReadAll(text, word) = f[1..Len(text)]
<1>. DEFINE F == CHOOSE f : IsFold(f, text, word, Len(text))
<1>1. DOMAIN text = 1..Len(text)
  BY DEF Texts
<1>2. ReadAll(text, word) =
        (CHOOSE f : f = [t \in SUBSET (DOMAIN text) |->
           IF t = {} THEN Reading
           ELSE ReadChar(f[t \ {Max(t)}], text[Max(t)], word)])[DOMAIN text]
  BY DEF ReadAll, FoldLeft, MapThenFoldSet
<1>3. ReadAll(text, word) = F[1..Len(text)]
  BY <1>1, <1>2 DEF IsFold
<1>4. \E f : IsFold(f, text, word, Len(text))
  BY FoldExists
<1>5. IsFold(F, text, word, Len(text))
  BY <1>4
<1>. QED
  BY <1>3, <1>5

LEMMA LastOfPrefix ==
  ASSUME NEW k \in Nat
  PROVE  Max(1..(k + 1)) = k + 1 /\ (1..(k + 1)) \ {k + 1} = 1..k /\ 1..(k + 1) # {}
<1>. DEFINE t == 1..(k + 1)
<1>1. k + 1 \in Nat /\ t \subseteq 1..(k + 1) /\ t # {} /\ k + 1 \in t /\ t \ {k + 1} = 1..k
  OBVIOUS
<1>. HIDE DEF t
<1>2. Max(t) \in 1..(k + 1) /\ \A i \in t : i <= Max(t)
  BY <1>1, LastPosition
<1>3. Max(t) = k + 1
  BY <1>1, <1>2
<1>. QED
  BY <1>1, <1>3 DEF t

LEMMA FoldAt ==
  ASSUME NEW text, NEW word, NEW n \in Nat, NEW f, IsFold(f, text, word, n)
  PROVE  \A k \in 0..(n - 1) : f[1..(k + 1)] = ReadChar(f[1..k], text[k + 1], word)
<1>. SUFFICES ASSUME NEW k \in 0..(n - 1)
              PROVE  f[1..(k + 1)] = ReadChar(f[1..k], text[k + 1], word)
  OBVIOUS
<1>. DEFINE t == 1..(k + 1)
<1>1. t \in SUBSET (1..n) /\ t # {} /\ Max(t) = k + 1 /\ t \ {k + 1} = 1..k
  <2>1. k \in Nat /\ \A i \in 1..(k + 1) : i \in 1..n
    OBVIOUS
  <2>. QED
    BY <2>1, LastOfPrefix
<1>. HIDE DEF t
<1>2. f[t] = ReadChar(f[t \ {Max(t)}], text[Max(t)], word)
  BY <1>1 DEF IsFold
<1>3. f[t] = ReadChar(f[1..k], text[k + 1], word)
  BY <1>1, <1>2
<1>. QED
  BY <1>3 DEF t

SameStart(text, other, n) == \A i \in 1..n : other[i] = text[i]

\* On the first positions only their characters count.
LEMMA FoldPrefix ==
  ASSUME NEW text \in Texts, NEW other \in Texts, NEW word, NEW n \in Nat,
         n <= Len(text), n <= Len(other), SameStart(text, other, n),
         NEW f, IsFold(f, text, word, Len(text)),
         NEW g, IsFold(g, other, word, Len(other))
  PROVE  \A k \in 0..n : f[1..k] \in ReadingStates /\ f[1..k] = g[1..k]
<1>. DEFINE T == {k \in 0..n : f[1..k] \in ReadingStates /\ f[1..k] = g[1..k]}
<1>1. Len(text) \in Nat /\ Len(other) \in Nat
  BY DEF Texts
<1>2. \A k \in 0..(Len(text) - 1) : f[1..(k + 1)] = ReadChar(f[1..k], text[k + 1], word)
  BY <1>1, FoldAt
<1>3. \A k \in 0..(Len(other) - 1) : g[1..(k + 1)] = ReadChar(g[1..k], other[k + 1], word)
  BY <1>1, FoldAt
<1>4. 0 \in T
  <2>1. 1..0 = {} /\ {} \in SUBSET (1..Len(text)) /\ {} \in SUBSET (1..Len(other))
    OBVIOUS
  <2>2. f[{}] = Reading
    BY <2>1 DEF IsFold
  <2>3. g[{}] = Reading
    BY <2>1 DEF IsFold
  <2>. QED
    BY <2>1, <2>2, <2>3, ReadingType
<1>. HIDE DEF T
<1>5. ASSUME NEW k \in 0..(n - 1), k \in T PROVE k + 1 \in T
  <2>1. k \in 0..(Len(text) - 1) /\ k \in 0..(Len(other) - 1) /\ k + 1 \in 1..n
    BY <1>1
  <2>2. f[1..(k + 1)] = ReadChar(f[1..k], text[k + 1], word)
    BY <1>2, <2>1
  <2>3. g[1..(k + 1)] = ReadChar(g[1..k], other[k + 1], word)
    BY <1>3, <2>1
  <2>4. text[k + 1] \in Chars /\ other[k + 1] = text[k + 1]
    BY <1>1, <2>1 DEF Texts, Chars, SameStart
  <2>5. f[1..k] \in ReadingStates /\ f[1..k] = g[1..k]
    BY <1>5 DEF T
  <2>6. ReadChar(f[1..k], text[k + 1], word) \in ReadingStates
    BY <2>4, <2>5, ReadCharType
  <2>. QED
    BY <2>1, <2>2, <2>3, <2>4, <2>5, <2>6 DEF T
<1>6. \A k \in 0..n : k \in T
  BY <1>4, <1>5, InductionUpTo
<1>. QED
  BY <1>6 DEF T

\* The loop starts with nothing and takes a text character by character.
LEMMA ReadNone ==
  ASSUME NEW word
  PROVE  ReadAll(<<>>, word) = Reading
<1>1. <<>> \in Texts /\ Len(<<>>) = 0
  BY DEF Texts
<1>2. PICK f : IsFold(f, <<>>, word, 0) /\ ReadAll(<<>>, word) = f[1..0]
  BY <1>1, FoldOf
<1>3. 1..0 = {}
  OBVIOUS
<1>. QED
  BY <1>2, <1>3 DEF IsFold

LEMMA ReadOneMore ==
  ASSUME NEW text \in Texts, NEW c \in Chars, NEW word
  PROVE  /\ ReadAll(text, word) \in ReadingStates
         /\ ReadAll(Append(text, c), word) = ReadChar(ReadAll(text, word), c, word)
<1>. DEFINE n == Len(text)
<1>. DEFINE more == Append(text, c)
<1>1. /\ n \in Nat /\ more \in Texts /\ Len(more) = n + 1 /\ more[n + 1] = c
      /\ \A i \in 1..n : more[i] = text[i]
  BY AppendProperties DEF Texts, Chars
<1>2. PICK f : IsFold(f, text, word, n) /\ ReadAll(text, word) = f[1..n]
  BY FoldOf
<1>3. PICK g : IsFold(g, more, word, n + 1) /\ ReadAll(more, word) = g[1..(n + 1)]
  BY <1>1, FoldOf
<1>. HIDE DEF more, n
<1>4. /\ n <= Len(text) /\ n <= Len(more) /\ SameStart(text, more, n)
      /\ IsFold(f, text, word, Len(text)) /\ IsFold(g, more, word, Len(more))
      /\ n \in Nat /\ more \in Texts
  BY <1>1, <1>2, <1>3 DEF n, SameStart
<1>5. \A k \in 0..n : f[1..k] \in ReadingStates /\ f[1..k] = g[1..k]
  BY <1>4, FoldPrefix
<1>6. f[1..n] \in ReadingStates /\ f[1..n] = g[1..n]
  BY <1>1, <1>5
<1>7. g[1..(n + 1)] = ReadChar(g[1..n], more[n + 1], word)
  <2>1. n + 1 \in Nat /\ n \in 0..((n + 1) - 1)
    BY <1>1
  <2>2. \A k \in 0..((n + 1) - 1) : g[1..(k + 1)] = ReadChar(g[1..k], more[k + 1], word)
    BY <1>3, <2>1, FoldAt
  <2>. QED
    BY <2>1, <2>2
<1>. QED
  BY <1>1, <1>2, <1>3, <1>6, <1>7 DEF more

-------------------------------------------------------------------------------
(***************************************************************************)
(* A text without some of its characters.                                  *)
(***************************************************************************)
Removed(text, words) ==
  {j \in DOMAIN text : \E w \in words : \E i \in Occurrences(text, w) :
     j \in i..(i + Len(w) - 1)}

Kept(text, words) == DOMAIN text \ Removed(text, words)

LEMMA WithoutIsPick ==
  ASSUME NEW text, NEW words
  PROVE  Without(text, words) = Pick(text, Kept(text, words))
BY DEF Without, Pick, Kept, Removed, RankIn

-------------------------------------------------------------------------------
(***************************************************************************)
(* Where words stand.                                                      *)
(***************************************************************************)
ProperWords == Seq(Letters) \ {<<>>}

BeginsAt(text, s) == s = 1 \/ text[s - 1] \in Separators

EndsAt(text, e) == e = Len(text) \/ text[e + 1] \in Separators

NoSeparator(text, s, e) == \A j \in s..e : text[j] \notin Separators

LEMMA TextLength ==
  ASSUME NEW text \in Texts
  PROVE  Len(text) \in Nat /\ DOMAIN text = 1..Len(text) /\ \A i \in 1..Len(text) : text[i] \in Chars
BY DEF Texts, Chars

LEMMA OccurrenceIs ==
  ASSUME NEW text \in Texts, NEW w \in ProperWords, NEW o \in Occurrences(text, w)
  PROVE  /\ Len(w) \in Nat \ {0} /\ o \in 1..Len(text) /\ o + Len(w) - 1 \in o..Len(text)
         /\ SubSeq(text, o, o + Len(w) - 1) = w
         /\ BeginsAt(text, o) /\ EndsAt(text, o + Len(w) - 1)
         /\ NoSeparator(text, o, o + Len(w) - 1)
<1>. DEFINE last == o + Len(w) - 1
<1>1. Len(w) \in Nat \ {0} /\ w \in Seq(Letters) /\ \A i \in 1..Len(w) : w[i] \in Letters
  BY EmptySeq DEF ProperWords
<1>2. /\ o \in 1..Len(text) /\ last <= Len(text) /\ SubSeq(text, o, last) = w
      /\ BeginsAt(text, o) /\ EndsAt(text, last)
  BY TextLength DEF Occurrences, BeginsAt, EndsAt
<1>3. last \in o..Len(text) /\ last - o + 1 = Len(w)
  BY <1>1, <1>2, TextLength
<1>4. ASSUME NEW j \in o..last PROVE text[j] \notin Separators
  <2>1. /\ o \in Int /\ last \in Int /\ j - o + 1 \in 1..(last - o + 1)
        /\ o + (j - o + 1) - 1 = j
    BY <1>2, <1>3, TextLength
  <2>2. \A i \in o..last : text[i] \in Chars
    BY <1>2, <1>3, TextLength
  <2>3. \A i \in 1..(last - o + 1) : SubSeq(text, o, last)[i] = text[o + i - 1]
    BY <2>1, <2>2, SubSeqProperties
  <2>4. text[j] = w[j - o + 1]
    BY <1>2, <2>1, <2>3
  <2>. QED
    BY <1>1, <1>3, <2>1, <2>4, CharsAssumption
<1>. QED
  BY <1>1, <1>2, <1>3, <1>4 DEF NoSeparator

\* Between two separators, or an end of the text, there is one word.
LEMMA WordBetween ==
  ASSUME NEW text \in Texts, NEW w \in ProperWords,
         NEW s \in 1..Len(text), NEW e \in s..Len(text),
         BeginsAt(text, s), EndsAt(text, e), NoSeparator(text, s, e)
  PROVE  /\ \A o \in Occurrences(text, w) : \A j \in s..e :
              j \in o..(o + Len(w) - 1) =>
                o = s /\ o + Len(w) - 1 = e /\ w = SubSeq(text, s, e)
         /\ w = SubSeq(text, s, e) =>
              s \in Occurrences(text, w) /\ s + Len(w) - 1 = e
<1>1. Len(text) \in Nat
  BY TextLength
<1>2. ASSUME NEW o \in Occurrences(text, w), NEW j \in s..e, j \in o..(o + Len(w) - 1)
      PROVE  o = s /\ o + Len(w) - 1 = e /\ w = SubSeq(text, s, e)
  <2>. DEFINE last == o + Len(w) - 1
  <2>1. /\ o \in 1..Len(text) /\ last \in o..Len(text) /\ SubSeq(text, o, last) = w
        /\ BeginsAt(text, o) /\ EndsAt(text, last) /\ NoSeparator(text, o, last)
    BY OccurrenceIs
  <2>2. j \in o..last
    BY <1>2
  <2>. HIDE DEF last
  <2>3. o <= s
    <3>1. ASSUME s < o PROVE FALSE
      <4>1. o - 1 \in s..e /\ o # 1
        BY <1>1, <2>1, <2>2, <3>1
      <4>. QED
        BY <2>1, <4>1 DEF BeginsAt, NoSeparator
    <3>. QED
      BY <1>1, <2>1, <3>1
  <2>4. s <= o
    <3>1. ASSUME o < s PROVE FALSE
      <4>1. s - 1 \in o..last /\ s # 1
        BY <1>1, <2>1, <2>2, <3>1
      <4>. QED
        BY <2>1, <4>1 DEF BeginsAt, NoSeparator
    <3>. QED
      BY <1>1, <2>1, <3>1
  <2>5. last <= e
    <3>1. ASSUME e < last PROVE FALSE
      <4>1. e + 1 \in o..last /\ e # Len(text)
        BY <1>1, <2>1, <2>2, <3>1
      <4>. QED
        BY <2>1, <4>1 DEF EndsAt, NoSeparator
    <3>. QED
      BY <1>1, <2>1, <3>1
  <2>6. e <= last
    <3>1. ASSUME last < e PROVE FALSE
      <4>1. last + 1 \in s..e /\ last # Len(text)
        BY <1>1, <2>1, <2>2, <3>1
      <4>. QED
        BY <2>1, <4>1 DEF EndsAt, NoSeparator
    <3>. QED
      BY <1>1, <2>1, <3>1
  <2>7. o = s /\ last = e
    BY <1>1, <2>1, <2>3, <2>4, <2>5, <2>6
  <2>. QED
    BY <2>1, <2>7 DEF last
<1>3. ASSUME w = SubSeq(text, s, e)
      PROVE  s \in Occurrences(text, w) /\ s + Len(w) - 1 = e
  <2>1. s \in Int /\ e \in Int /\ s <= e /\ \A i \in s..e : text[i] \in Chars
    BY <1>1, TextLength
  <2>2. Len(w) = e - s + 1
    BY <1>3, <2>1, SubSeqProperties
  <2>3. s + Len(w) - 1 = e
    BY <2>1, <2>2
  <2>4. s \in DOMAIN text /\ e <= Len(text)
    BY <1>1, TextLength
  <2>. QED
    BY <1>3, <2>3, <2>4 DEF Occurrences, BeginsAt, EndsAt
<1>. QED
  BY <1>2, <1>3

\* What is removed is removed from separator to separator.
LEMMA RemovedTogether ==
  ASSUME NEW text \in Texts, NEW ws, ws \subseteq ProperWords, NEW j \in 1..Len(text)
  PROVE  /\ j \in Removed(text, ws) => text[j] \notin Separators
         /\ j + 1 \in 1..Len(text) /\ text[j] \notin Separators /\ text[j + 1] \notin Separators =>
              (j \in Removed(text, ws) <=> j + 1 \in Removed(text, ws))
<1>1. Len(text) \in Nat /\ DOMAIN text = 1..Len(text)
  BY TextLength
<1>2. ASSUME j \in Removed(text, ws) PROVE text[j] \notin Separators
  <2>1. PICK w \in ws : \E o \in Occurrences(text, w) : j \in o..(o + Len(w) - 1)
    BY <1>2 DEF Removed
  <2>2. PICK o \in Occurrences(text, w) : j \in o..(o + Len(w) - 1)
    BY <2>1
  <2>3. NoSeparator(text, o, o + Len(w) - 1)
    BY OccurrenceIs
  <2>. QED
    BY <2>2, <2>3 DEF NoSeparator
<1>3. ASSUME j + 1 \in 1..Len(text), text[j + 1] \notin Separators, j \in Removed(text, ws)
      PROVE  j + 1 \in Removed(text, ws)
  <2>1. PICK w \in ws : \E o \in Occurrences(text, w) : j \in o..(o + Len(w) - 1)
    BY <1>3 DEF Removed
  <2>2. PICK o \in Occurrences(text, w) : j \in o..(o + Len(w) - 1)
    BY <2>1
  <2>3. o \in 1..Len(text) /\ o + Len(w) - 1 \in o..Len(text) /\ EndsAt(text, o + Len(w) - 1)
    BY OccurrenceIs
  <2>4. j # o + Len(w) - 1
    BY <1>1, <1>3, <2>3 DEF EndsAt
  <2>5. j + 1 \in o..(o + Len(w) - 1)
    BY <1>1, <2>2, <2>3, <2>4
  <2>. QED
    BY <1>1, <1>3, <2>5 DEF Removed
<1>4. ASSUME j + 1 \in 1..Len(text), text[j] \notin Separators, j + 1 \in Removed(text, ws)
      PROVE  j \in Removed(text, ws)
  <2>1. PICK w \in ws : \E o \in Occurrences(text, w) : j + 1 \in o..(o + Len(w) - 1)
    BY <1>4 DEF Removed
  <2>2. PICK o \in Occurrences(text, w) : j + 1 \in o..(o + Len(w) - 1)
    BY <2>1
  <2>3. o \in 1..Len(text) /\ o + Len(w) - 1 \in o..Len(text) /\ BeginsAt(text, o)
    BY OccurrenceIs
  <2>4. j + 1 # o
    BY <1>1, <1>4, <2>3 DEF BeginsAt
  <2>5. j \in o..(o + Len(w) - 1)
    BY <1>1, <2>2, <2>3, <2>4
  <2>. QED
    BY <1>1, <2>5 DEF Removed
<1>. QED
  BY <1>2, <1>3, <1>4

\* A whole word is removed if it is one of those to be removed, and only then.
LEMMA RemovedWord ==
  ASSUME NEW text \in Texts, NEW w \in ProperWords,
         NEW s \in 1..Len(text), NEW e \in s..Len(text),
         BeginsAt(text, s), EndsAt(text, e), NoSeparator(text, s, e)
  PROVE  /\ w = SubSeq(text, s, e) => s..e \subseteq Removed(text, {w})
         /\ w # SubSeq(text, s, e) => (s..e) \cap Removed(text, {w}) = {}
<1>1. Len(text) \in Nat /\ DOMAIN text = 1..Len(text)
  BY TextLength
<1>2. /\ \A o \in Occurrences(text, w) : \A j \in s..e :
           j \in o..(o + Len(w) - 1) => w = SubSeq(text, s, e)
      /\ w = SubSeq(text, s, e) => s \in Occurrences(text, w) /\ s + Len(w) - 1 = e
  BY WordBetween
<1>3. ASSUME w = SubSeq(text, s, e) PROVE s..e \subseteq Removed(text, {w})
  <2>1. \A j \in s..e : j \in DOMAIN text
    BY <1>1
  <2>. QED
    BY <1>2, <1>3, <2>1 DEF Removed
<1>4. ASSUME NEW j \in s..e, j \in Removed(text, {w}) PROVE w = SubSeq(text, s, e)
  <2>1. PICK o \in Occurrences(text, w) : j \in o..(o + Len(w) - 1)
    BY <1>4 DEF Removed
  <2>. QED
    BY <1>2, <2>1
<1>. QED
  BY <1>3, <1>4

LEMMA RemovedUnion ==
  ASSUME NEW text, NEW ws, NEW w
  PROVE  Removed(text, ws \cup {w}) = Removed(text, ws) \cup Removed(text, {w})
BY DEF Removed

-------------------------------------------------------------------------------
(***************************************************************************)
(* What the loop has after the first i characters of text, when some words *)
(* have been removed from it before: it is in the word that begins at s.   *)
(***************************************************************************)
InWord(text, ws, w, i, s, st) ==
  /\ BeginsAt(text, s)
  /\ \A j \in s..i : text[j] \notin Separators /\ (j \in Removed(text, ws) <=> s \in Removed(text, ws))
  /\ st.out = Pick(text, Kept(text, ws \cup {w}) \cap 1..(s - 1))
  /\ st.buf = IF s <= i /\ s \in Removed(text, ws) THEN <<>> ELSE SubSeq(text, s, i)
  /\ ws = {} => st.found = Cardinality(Occurrences(text, w) \cap 1..(s - 1))

\* What it has once the word is compared.
Compared(text, ws, w, i, st) ==
  /\ (IF st.buf = w THEN st.out ELSE st.out \o st.buf) =
       Pick(text, Kept(text, ws \cup {w}) \cap 1..i)
  /\ ws = {} => (IF st.buf = w THEN st.found + 1 ELSE st.found) =
                  Cardinality(Occurrences(text, w) \cap 1..i)

LEMMA KeptFinite ==
  ASSUME NEW text \in Texts, NEW ws, NEW n \in 0..Len(text)
  PROVE  /\ Kept(text, ws) \cap 1..n \subseteq 1..n
         /\ Kept(text, ws) \cap 1..n \subseteq DOMAIN text
         /\ Pick(text, Kept(text, ws) \cap 1..n) \in Texts
BY PickType DEF Kept, Texts

\* Between two words.
LEMMA CompareNothing ==
  ASSUME NEW text \in Texts, NEW ws, NEW w \in ProperWords, NEW i \in 0..Len(text),
         NEW st, InWord(text, ws, w, i, i + 1, st)
  PROVE  Compared(text, ws, w, i, st)
<1>1. i \in Int /\ (i + 1) - 1 = i /\ ~ (i + 1 <= i)
  BY TextLength
<1>2. SubSeq(text, i + 1, i) = <<>>
  BY <1>1, SubSeqEmpty
<1>3. st.buf = <<>> /\ st.buf # w
  BY <1>1, <1>2 DEF InWord, ProperWords
<1>4. st.out = Pick(text, Kept(text, ws \cup {w}) \cap 1..i)
  BY <1>1 DEF InWord
<1>5. st.out \o <<>> = st.out
  BY <1>4, KeptFinite, ConcatEmptySeq DEF Texts
<1>6. ws = {} => st.found = Cardinality(Occurrences(text, w) \cap 1..i)
  BY <1>1 DEF InWord
<1>. QED
  BY <1>3, <1>4, <1>5, <1>6 DEF Compared

\* At the end of a word that has been removed before.
LEMMA CompareRemoved ==
  ASSUME NEW text \in Texts, NEW ws, ws \subseteq ProperWords, NEW w \in ProperWords,
         NEW i \in 0..Len(text), NEW s \in 1..i, NEW st,
         InWord(text, ws, w, i, s, st), s \in Removed(text, ws)
  PROVE  Compared(text, ws, w, i, st)
<1>1. st.buf = <<>> /\ st.buf # w
  BY DEF InWord, ProperWords
<1>2. s..i \subseteq Removed(text, ws \cup {w})
  <2>1. Removed(text, ws \cup {w}) = Removed(text, ws) \cup Removed(text, {w})
    BY RemovedUnion
  <2>2. s..i \subseteq Removed(text, ws)
    BY DEF InWord
  <2>. QED
    BY <2>1, <2>2
<1>3. Kept(text, ws \cup {w}) \cap 1..i = Kept(text, ws \cup {w}) \cap 1..(s - 1)
  <2>1. ASSUME NEW j \in Kept(text, ws \cup {w}) \cap 1..i PROVE j \in 1..(s - 1)
    <3>1. j \notin s..i
      BY <1>2 DEF Kept
    <3>. QED
      BY <3>1, TextLength
  <2>2. 1..(s - 1) \subseteq 1..i
    BY TextLength
  <2>. QED
    BY <2>1, <2>2
<1>4. st.out = Pick(text, Kept(text, ws \cup {w}) \cap 1..i)
  BY <1>3 DEF InWord
<1>5. st.out \o <<>> = st.out
  BY <1>4, KeptFinite, ConcatEmptySeq DEF Texts
<1>6. ws # {}
  BY DEF Removed
<1>. QED
  BY <1>1, <1>4, <1>5, <1>6 DEF Compared

\* At the end of a word that is there.
LEMMA CompareWord ==
  ASSUME NEW text \in Texts, NEW ws, ws \subseteq ProperWords, NEW w \in ProperWords,
         NEW i \in 0..Len(text), NEW s \in 1..i, NEW st,
         InWord(text, ws, w, i, s, st), s \notin Removed(text, ws), EndsAt(text, i)
  PROVE  Compared(text, ws, w, i, st)
<1>. DEFINE K == Kept(text, ws \cup {w})
<1>. DEFINE O == Occurrences(text, w)
<1>1. /\ Len(text) \in Nat /\ DOMAIN text = 1..Len(text)
      /\ s \in 1..Len(text) /\ i \in s..Len(text) /\ i \in Nat /\ s \in Nat
  BY TextLength
<1>2. /\ st.buf = SubSeq(text, s, i) /\ st.out = Pick(text, K \cap 1..(s - 1))
      /\ BeginsAt(text, s) /\ NoSeparator(text, s, i)
      /\ \A j \in s..i : j \notin Removed(text, ws)
      /\ ws = {} => st.found = Cardinality(O \cap 1..(s - 1))
  BY DEF InWord, NoSeparator
<1>3. /\ w = SubSeq(text, s, i) => s..i \subseteq Removed(text, {w})
      /\ w # SubSeq(text, s, i) => (s..i) \cap Removed(text, {w}) = {}
  BY <1>1, <1>2, RemovedWord
<1>4. /\ \A o \in O : \A j \in s..i : j \in o..(o + Len(w) - 1) => o = s /\ w = SubSeq(text, s, i)
      /\ w = SubSeq(text, s, i) => s \in O
  BY <1>1, <1>2, WordBetween
<1>5. \A o \in O : o \in 1..Len(text) /\ o \in o..(o + Len(w) - 1)
  <2>1. ASSUME NEW o \in O PROVE o \in 1..Len(text) /\ o \in o..(o + Len(w) - 1)
    <3>1. Len(w) \in Nat \ {0} /\ o \in 1..Len(text)
      BY OccurrenceIs
    <3>. QED
      BY <1>1, <3>1
  <2>. QED
    BY <2>1
<1>6. Removed(text, ws \cup {w}) = Removed(text, ws) \cup Removed(text, {w})
  BY RemovedUnion
<1>7. \A j \in 1..i : j \in 1..(s - 1) \/ j \in s..i
  BY <1>1
<1>8. CASE w = SubSeq(text, s, i)
  <2>1. K \cap 1..i = K \cap 1..(s - 1)
    <3>1. \A j \in s..i : j \notin K
      BY <1>3, <1>8, <1>6 DEF Kept
    <3>2. 1..(s - 1) \subseteq 1..i
      BY <1>1
    <3>. QED
      BY <1>7, <3>1, <3>2
  <2>2. Cardinality(O \cap 1..i) = Cardinality(O \cap 1..(s - 1)) + 1
    <3>1. \A o \in O : o \in s..i => o = s
      BY <1>4, <1>5
    <3>2. 1..(s - 1) \subseteq 1..i /\ s \in 1..i /\ s \notin 1..(s - 1)
      BY <1>1
    <3>3. O \cap 1..i = (O \cap 1..(s - 1)) \cup {s}
      BY <1>4, <1>7, <1>8, <3>1, <3>2
    <3>4. s - 1 \in Nat /\ O \cap 1..(s - 1) \subseteq 1..(s - 1)
      BY <1>1
    <3>5. IsFiniteSet(O \cap 1..(s - 1))
      BY <3>4, PlacesFinite
    <3>. QED
      BY <3>2, <3>3, <3>5, FS_AddElement
  <2>. QED
    BY <1>2, <1>8, <2>1, <2>2 DEF Compared
<1>9. CASE w # SubSeq(text, s, i)
  <2>1. K \cap 1..i = (K \cap 1..(s - 1)) \cup (s..i)
    <3>1. \A j \in s..i : j \in K
      <4>1. \A j \in s..i : j \in DOMAIN text
        BY <1>1
      <4>. QED
        BY <1>2, <1>3, <1>9, <1>6, <4>1 DEF Kept
    <3>2. 1..(s - 1) \subseteq 1..i /\ s..i \subseteq 1..i
      BY <1>1
    <3>. QED
      BY <1>7, <3>1, <3>2
  <2>2. Pick(text, (K \cap 1..(s - 1)) \cup (s..i)) = st.out \o SubSeq(text, s, i)
    <3>1. /\ s \in 1..(Len(text) + 1) /\ i \in (s - 1)..Len(text)
          /\ K \cap 1..(s - 1) \subseteq 1..(s - 1)
      BY <1>1
    <3>. HIDE DEF K
    <3>2. Pick(text, (K \cap 1..(s - 1)) \cup (s..i)) = Pick(text, K \cap 1..(s - 1)) \o SubSeq(text, s, i)
      BY <3>1, PickStretch DEF Texts
    <3>. QED
      BY <1>2, <3>2
  <2>3. O \cap 1..i = O \cap 1..(s - 1)
    <3>1. \A o \in O : o \notin s..i
      BY <1>4, <1>5, <1>9
    <3>2. 1..(s - 1) \subseteq 1..i
      BY <1>1
    <3>. QED
      BY <1>7, <3>1, <3>2
  <2>. QED
    BY <1>2, <1>9, <2>1, <2>2, <2>3 DEF Compared
<1>. QED
  BY <1>8, <1>9

LEMMA CompareAtEnd ==
  ASSUME NEW text \in Texts, NEW ws, ws \subseteq ProperWords, NEW w \in ProperWords,
         NEW i \in 0..Len(text), EndsAt(text, i), NEW s \in 1..(i + 1), NEW st,
         InWord(text, ws, w, i, s, st)
  PROVE  Compared(text, ws, w, i, st)
<1>1. s = i + 1 \/ s \in 1..i
  BY TextLength
<1>. QED
  BY <1>1, CompareNothing, CompareRemoved, CompareWord

\* A character that has been removed before is not in the text the loop reads.
LEMMA StepRemoved ==
  ASSUME NEW text \in Texts, NEW ws, ws \subseteq ProperWords, NEW w \in ProperWords,
         NEW i \in 0..(Len(text) - 1), NEW s \in 1..(i + 1), NEW st,
         InWord(text, ws, w, i, s, st), i + 1 \in Removed(text, ws)
  PROVE  InWord(text, ws, w, i + 1, s, st)
<1>1. /\ Len(text) \in Nat /\ i + 1 \in 1..Len(text) /\ i \in Nat /\ s \in Nat
      /\ \A j \in s..(i + 1) : j \in s..i \/ j = i + 1
  BY TextLength
<1>2. text[i + 1] \notin Separators
  BY <1>1, RemovedTogether
<1>3. s \in Removed(text, ws)
  <2>1. CASE s = i + 1
    BY <2>1
  <2>2. CASE s # i + 1
    <3>1. i \in s..i /\ i \in 1..Len(text)
      BY <1>1, <2>2
    <3>2. i \in Removed(text, ws) <=> i + 1 \in Removed(text, ws)
      BY <1>1, <1>2, <3>1, RemovedTogether DEF InWord
    <3>. QED
      BY <3>1, <3>2 DEF InWord
  <2>. QED
    BY <2>1, <2>2
<1>4. st.buf = <<>>
  <2>1. CASE s = i + 1
    <3>1. SubSeq(text, s, i) = <<>> /\ ~ (s <= i)
      BY <1>1, <2>1, SubSeqEmpty
    <3>. QED
      BY <3>1 DEF InWord
  <2>2. CASE s # i + 1
    <3>1. s <= i
      BY <1>1, <2>2
    <3>. QED
      BY <1>3, <3>1 DEF InWord
  <2>. QED
    BY <2>1, <2>2
<1>5. s <= i + 1
  BY <1>1
<1>. QED
  BY <1>1, <1>2, <1>3, <1>4, <1>5 DEF InWord

\* One that is no separator goes into the buffer.
LEMMA StepLetter ==
  ASSUME NEW text \in Texts, NEW ws, ws \subseteq ProperWords, NEW w \in ProperWords,
         NEW i \in 0..(Len(text) - 1), NEW s \in 1..(i + 1), NEW st \in ReadingStates,
         InWord(text, ws, w, i, s, st), i + 1 \notin Removed(text, ws),
         text[i + 1] \notin Separators
  PROVE  InWord(text, ws, w, i + 1, s, ReadChar(st, text[i + 1], w))
<1>. DEFINE next == ReadChar(st, text[i + 1], w)
<1>1. /\ Len(text) \in Nat /\ i + 1 \in 1..Len(text) /\ i \in Nat /\ s \in Nat
      /\ \A j \in s..(i + 1) : j \in s..i \/ j = i + 1
  BY TextLength
<1>2. next.buf = Append(st.buf, text[i + 1]) /\ next.out = st.out /\ next.found = st.found
  BY DEF ReadChar, ReadingStates
<1>. HIDE DEF next
<1>3. s \notin Removed(text, ws)
  <2>1. CASE s = i + 1
    BY <2>1
  <2>2. CASE s # i + 1
    <3>1. i \in s..i /\ i \in 1..Len(text)
      BY <1>1, <2>2
    <3>2. i \in Removed(text, ws) <=> i + 1 \in Removed(text, ws)
      BY <1>1, <3>1, RemovedTogether DEF InWord
    <3>. QED
      BY <3>1, <3>2 DEF InWord
  <2>. QED
    BY <2>1, <2>2
<1>4. st.buf = SubSeq(text, s, i)
  BY <1>3 DEF InWord
<1>5. Append(SubSeq(text, s, i), text[i + 1]) = SubSeq(text, s, i + 1)
  <2>1. SubSeq(text, s, i + 1) = SubSeq(text, s, (i + 1) - 1) \o <<text[i + 1]>>
    <3>1. s \in 1..Len(text) /\ i + 1 \in s..Len(text)
      BY <1>1
    <3>. QED
      BY <3>1, SubSeqRecursiveSecond DEF Texts
  <2>2. (i + 1) - 1 = i /\ SubSeq(text, s, i) \in Texts /\ text[i + 1] \in Chars
    BY <1>1, TextLength DEF Texts
  <2>3. \A q \in Texts : Append(q, text[i + 1]) = q \o <<text[i + 1]>>
    BY <2>2 DEF Texts, Chars
  <2>4. Append(SubSeq(text, s, i), text[i + 1]) = SubSeq(text, s, i) \o <<text[i + 1]>>
    BY <2>2, <2>3
  <2>. QED
    BY <2>1, <2>2, <2>4
<1>6. InWord(text, ws, w, i + 1, s, next)
  BY <1>1, <1>2, <1>3, <1>4, <1>5 DEF InWord
<1>. QED
  BY <1>6 DEF next

\* At a separator the word is compared, and the next one begins behind it.
LEMMA StepSeparator ==
  ASSUME NEW text \in Texts, NEW ws, ws \subseteq ProperWords, NEW w \in ProperWords,
         NEW i \in 0..(Len(text) - 1), NEW s \in 1..(i + 1), NEW st \in ReadingStates,
         InWord(text, ws, w, i, s, st), text[i + 1] \in Separators
  PROVE  InWord(text, ws, w, i + 1, i + 2, ReadChar(st, text[i + 1], w))
<1>. DEFINE next == ReadChar(st, text[i + 1], w)
<1>. DEFINE kept == IF st.buf = w THEN st.out ELSE st.out \o st.buf
<1>. DEFINE K == Kept(text, ws \cup {w})
<1>. DEFINE O == Occurrences(text, w)
<1>1. /\ Len(text) \in Nat /\ DOMAIN text = 1..Len(text) /\ i + 1 \in 1..Len(text) /\ i \in Nat
      /\ i \in 0..Len(text) /\ (i + 2) - 1 = i + 1 /\ text[i + 1] \in Chars
      /\ 1..(i + 1) = (1..i) \cup {i + 1} /\ i + 1 \notin 1..i /\ ~ (i + 2 <= i + 1)
  BY TextLength
<1>2. Compared(text, ws, w, i, st)
  BY <1>1, CompareAtEnd DEF EndsAt
<1>3. st.buf \in Texts /\ st.out \in Texts /\ st.found \in Nat
  BY DEF ReadingStates
<1>4. next.buf = <<>> /\ next.out = Append(kept, text[i + 1])
  <2>1. CASE st.buf = w
    BY <2>1 DEF ReadChar, ReadingStates
  <2>2. CASE st.buf # w
    <3>1. next.buf = <<>> /\ next.out = st.out \o Append(st.buf, text[i + 1])
      BY <2>2 DEF ReadChar, ReadingStates
    <3>2. \A q, r \in Texts : q \o Append(r, text[i + 1]) = Append(q \o r, text[i + 1])
      BY <1>1 DEF Texts, Chars
    <3>. QED
      BY <1>3, <2>2, <3>1, <3>2
  <2>. QED
    BY <2>1, <2>2
<1>5. next.found = IF st.buf = w THEN st.found + 1 ELSE st.found
  BY DEF ReadChar, ReadingStates
<1>. HIDE DEF next
<1>6. kept = Pick(text, K \cap 1..i)
  BY <1>2 DEF Compared
<1>. HIDE DEF kept
<1>7. i + 1 \in K
  <2>1. i + 1 \notin Removed(text, ws \cup {w})
    <3>1. ws \cup {w} \subseteq ProperWords
      OBVIOUS
    <3>. QED
      BY <1>1, <3>1, RemovedTogether
  <2>. QED
    BY <1>1, <2>1 DEF Kept
<1>8. next.out = Pick(text, K \cap 1..(i + 1))
  <2>1. K \cap 1..(i + 1) = (K \cap 1..i) \cup {i + 1}
    BY <1>1, <1>7
  <2>. HIDE DEF K
  <2>2. K \cap 1..i \subseteq 1..i
    OBVIOUS
  <2>3. Pick(text, (K \cap 1..i) \cup {i + 1}) = Append(Pick(text, K \cap 1..i), text[i + 1])
    BY <1>1, <2>2, PickOneMore DEF Texts
  <2>. QED
    BY <1>4, <1>6, <2>1, <2>3
<1>9. O \cap 1..(i + 1) = O \cap 1..i
  <2>1. i + 1 \notin O
    <3>1. ASSUME i + 1 \in O PROVE FALSE
      <4>1. Len(w) \in Nat \ {0} /\ NoSeparator(text, i + 1, (i + 1) + Len(w) - 1)
        BY <3>1, OccurrenceIs
      <4>2. i + 1 \in (i + 1)..((i + 1) + Len(w) - 1)
        BY <1>1, <4>1
      <4>. QED
        BY <4>1, <4>2 DEF NoSeparator
    <3>. QED
      BY <3>1
  <2>. QED
    BY <1>1, <2>1
<1>10. ws = {} => next.found = Cardinality(O \cap 1..(i + 1))
  BY <1>2, <1>5, <1>9 DEF Compared
<1>11. SubSeq(text, i + 2, i + 1) = <<>>
  BY <1>1, SubSeqEmpty
<1>12. InWord(text, ws, w, i + 1, i + 2, next)
  <2>1. BeginsAt(text, i + 2) /\ (i + 2)..(i + 1) = {}
    BY <1>1 DEF BeginsAt
  <2>. QED
    BY <1>1, <1>4, <1>8, <1>10, <1>11, <2>1 DEF InWord
<1>. QED
  BY <1>12 DEF next

-------------------------------------------------------------------------------
(***************************************************************************)
(* The whole of a text from which some words have been removed before.     *)
(***************************************************************************)
LEMMA LoopInWord ==
  ASSUME NEW text \in Texts, NEW ws, ws \subseteq ProperWords, NEW w \in ProperWords
  PROVE  \A i \in 0..Len(text) :
           LET st == ReadAll(Pick(text, Kept(text, ws) \cap 1..i), w)
           IN  st \in ReadingStates /\ \E s \in 1..(i + 1) : InWord(text, ws, w, i, s, st)
<1>. DEFINE K == Kept(text, ws)
<1>. DEFINE read(i) == Pick(text, K \cap 1..i)
<1>. DEFINE st(i) == ReadAll(read(i), w)
<1>. DEFINE T == {i \in 0..Len(text) :
                    st(i) \in ReadingStates /\ \E s \in 1..(i + 1) : InWord(text, ws, w, i, s, st(i))}
<1>1. Len(text) \in Nat /\ DOMAIN text = 1..Len(text)
  BY TextLength
<1>2. 0 \in T
  <2>1. 1..0 = {} /\ K \cap {} = {} /\ Cardinality({}) = 0
    BY FS_EmptySet
  <2>2. \A f : Pick(text, {}) = <<>>
    BY <2>1 DEF Pick
  <2>3. st(0) = Reading
    BY <2>1, <2>2, ReadNone
  <2>4. InWord(text, ws, w, 0, 1, Reading)
    <3>1. 1 - 1 = 0 /\ ~ (1 <= 0) /\ 1..0 = {} /\ SubSeq(text, 1, 0) = <<>>
      BY SubSeqEmpty
    <3>2. \A S : S \cap {} = {}
      OBVIOUS
    <3>3. Reading.out = Pick(text, {}) /\ Reading.buf = <<>> /\ Reading.found = 0
      BY <2>2 DEF Reading
    <3>. QED
      BY <2>1, <3>1, <3>2, <3>3 DEF InWord, BeginsAt
  <2>5. 0 \in 0..Len(text) /\ 1 \in 1..(0 + 1)
    BY <1>1
  <2>. QED
    BY <2>3, <2>4, <2>5, ReadingType
<1>3. ASSUME NEW i \in 0..(Len(text) - 1), i \in T PROVE i + 1 \in T
  <2>1. /\ i \in Nat /\ i + 1 \in 0..Len(text) /\ i + 1 \in DOMAIN text /\ i + 1 \in 1..Len(text)
        /\ 1..(i + 1) = (1..i) \cup {i + 1} /\ text[i + 1] \in Chars
        /\ i \in 0..Len(text)
    BY <1>1, TextLength
  <2>2. st(i) \in ReadingStates /\ \E s \in 1..(i + 1) : InWord(text, ws, w, i, s, st(i))
    BY <1>3
  <2>3. PICK s \in 1..(i + 1) : InWord(text, ws, w, i, s, st(i))
    BY <2>2
  <2>4. s \in 1..((i + 1) + 1) /\ i + 2 \in 1..((i + 1) + 1)
    BY <2>1
  <2>5. CASE i + 1 \in Removed(text, ws)
    <3>1. K \cap 1..(i + 1) = K \cap 1..i
      BY <2>1, <2>5 DEF Kept
    <3>2. st(i + 1) = st(i)
      BY <3>1
    <3>. HIDE DEF st
    <3>3. InWord(text, ws, w, i + 1, s, st(i))
      BY <2>3, <2>5, StepRemoved
    <3>. QED
      BY <2>1, <2>2, <2>4, <3>2, <3>3
  <2>6. CASE i + 1 \notin Removed(text, ws)
    <3>1. K \cap 1..(i + 1) = (K \cap 1..i) \cup {i + 1}
      BY <2>1, <2>6 DEF Kept
    <3>2. read(i) \in Texts
      BY <2>1, KeptFinite
    <3>. HIDE DEF K
    <3>3. read(i + 1) = Append(read(i), text[i + 1])
      <4>1. K \cap 1..i \subseteq 1..i
        OBVIOUS
      <4>2. Pick(text, (K \cap 1..i) \cup {i + 1}) = Append(Pick(text, K \cap 1..i), text[i + 1])
        BY <2>1, <4>1, PickOneMore DEF Texts
      <4>. QED
        BY <3>1, <4>2
    <3>. HIDE DEF read
    <3>4. st(i + 1) = ReadChar(st(i), text[i + 1], w)
      BY <2>1, <3>2, <3>3, ReadOneMore
    <3>. HIDE DEF st
    <3>5. st(i + 1) \in ReadingStates
      BY <2>1, <2>2, <3>4, ReadCharType
    <3>6. CASE text[i + 1] \notin Separators
      <4>1. InWord(text, ws, w, i + 1, s, st(i + 1))
        BY <2>2, <2>3, <2>6, <3>4, <3>6, StepLetter
      <4>. QED
        BY <2>1, <2>4, <3>5, <4>1
    <3>7. CASE text[i + 1] \in Separators
      <4>1. InWord(text, ws, w, i + 1, i + 2, st(i + 1))
        BY <2>2, <2>3, <3>4, <3>7, StepSeparator
      <4>. QED
        BY <2>1, <2>4, <3>5, <4>1
    <3>. QED
      BY <3>6, <3>7
  <2>. QED
    BY <2>5, <2>6
<1>. HIDE DEF T
<1>4. \A i \in 0..Len(text) : i \in T
  BY <1>1, <1>2, <1>3, InductionUpTo
<1>. QED
  BY <1>4 DEF T

LEMMA WithoutNothing ==
  ASSUME NEW text \in Texts
  PROVE  Without(text, {}) = text
<1>1. Len(text) \in Nat /\ DOMAIN text = 1..Len(text)
  BY TextLength
<1>2. Kept(text, {}) = {} \cup (1..Len(text))
  BY <1>1 DEF Kept, Removed
<1>3. Pick(text, {} \cup (1..Len(text))) = Pick(text, {}) \o SubSeq(text, 1, Len(text))
  <2>1. 1 \in 1..(Len(text) + 1) /\ Len(text) \in (1 - 1)..Len(text) /\ {} \subseteq 1..(1 - 1)
    BY <1>1
  <2>. QED
    BY <2>1, PickStretch DEF Texts
<1>4. Pick(text, {}) = <<>>
  BY FS_EmptySet DEF Pick
<1>5. SubSeq(text, 1, Len(text)) = text /\ <<>> \o text = text
  BY SubSeqFull, ConcatEmptySeq DEF Texts
<1>. QED
  BY <1>2, <1>3, <1>4, <1>5, WithoutIsPick

LEMMA WithoutType ==
  ASSUME NEW text \in Texts, NEW ws
  PROVE  Without(text, ws) \in Texts
BY WithoutIsPick, PickType DEF Kept, Texts

\* What the loop leaves of a text is of its type.
LEMMA RemovalType ==
  ASSUME NEW text \in Texts, NEW w
  PROVE  Removal(text, w).out \in Texts /\ Removal(text, w).found \in Nat
<1>. DEFINE st == ReadAll(text, w)
<1>1. st \in ReadingStates
  <2>1. CASE Letters \cup Separators = {}
    <3>1. text = <<>>
      BY <2>1 DEF Texts
    <3>. QED
      BY <3>1, ReadNone, ReadingType
  <2>2. CASE Letters \cup Separators # {}
    BY <2>2, ReadOneMore DEF Chars
  <2>. QED
    BY <2>1, <2>2
<1>2. Removal(text, w) = Flush(st, w)
  BY DEF Removal, ReadAll
<1>. HIDE DEF st
<1>3. st.out \o st.buf \in Texts
  BY <1>1 DEF ReadingStates, Texts
<1>. QED
  BY <1>1, <1>2, <1>3 DEF Flush, ReadingStates

\* The service's loop, with the word at the end of the file that has no separator
\* behind it, removes one more word from a text without some.
LEMMA RemovesOneMore ==
  ASSUME NEW text \in Texts, NEW ws, ws \subseteq ProperWords, NEW w \in ProperWords
  PROVE  /\ Removal(Without(text, ws), w).out = Without(text, ws \cup {w})
         /\ ws = {} => Removal(Without(text, ws), w).found = Cardinality(Occurrences(text, w))
<1>. DEFINE n == Len(text)
<1>. DEFINE st == ReadAll(Without(text, ws), w)
<1>1. n \in Nat /\ DOMAIN text = 1..n /\ n \in 0..n
  BY TextLength
<1>2. /\ Kept(text, ws) \cap 1..n = Kept(text, ws)
      /\ Kept(text, ws \cup {w}) \cap 1..n = Kept(text, ws \cup {w})
      /\ Occurrences(text, w) \cap 1..n = Occurrences(text, w)
  BY <1>1 DEF Kept, Occurrences
<1>3. st = ReadAll(Pick(text, Kept(text, ws) \cap 1..n), w)
  BY <1>2, WithoutIsPick
<1>4. st \in ReadingStates /\ \E s \in 1..(n + 1) : InWord(text, ws, w, n, s, st)
  BY <1>1, <1>3, LoopInWord
<1>5. Removal(Without(text, ws), w) = Flush(st, w)
  BY DEF Removal, ReadAll
<1>. HIDE DEF st
<1>6. PICK s \in 1..(n + 1) : InWord(text, ws, w, n, s, st)
  BY <1>4
<1>7. Compared(text, ws, w, n, st)
  <2>1. EndsAt(text, n)
    BY DEF EndsAt
  <2>. QED
    BY <1>1, <1>6, <2>1, CompareAtEnd
<1>8. /\ Flush(st, w).out = IF st.buf = w THEN st.out ELSE st.out \o st.buf
      /\ Flush(st, w).found = IF st.buf = w THEN st.found + 1 ELSE st.found
  BY <1>4 DEF Flush, ReadingStates
<1>. HIDE DEF n
<1>9. Flush(st, w).out = Pick(text, Kept(text, ws \cup {w}))
  BY <1>2, <1>7, <1>8 DEF Compared
<1>10. ws = {} => Flush(st, w).found = Cardinality(Occurrences(text, w))
  BY <1>2, <1>7, <1>8 DEF Compared
<1>. QED
  BY <1>5, <1>9, <1>10, WithoutIsPick

-------------------------------------------------------------------------------
(***************************************************************************)
(* The inductive invariant.                                                *)
(***************************************************************************)
FieldsOK ==
  /\ cpc \in [Clients -> ClientLabels]
  /\ requests \in [Clients -> Seq(Dirs)]
  /\ s2c \in [Clients -> Seq(Units)]
  /\ kid \in [Clients -> KidLabels]
  /\ early \subseteq Clients

\* Nothing is on its way, in no direction, and nothing will be.
Quiet(c) == s2c[c] = <<>> /\ requests[c] = <<>> /\ kid[c] # "list"

Parts == Seq({"part"})

\* The request is on its way, or its answer is, or its answer and the first names.
Answering(c) ==
  \/ Len(requests[c]) = 1 /\ s2c[c] = <<>> /\ kid[c] # "list"
  \/ requests[c] = <<>> /\ s2c[c] = <<"error">> /\ kid[c] # "list"
  \/ requests[c] = <<>> /\ s2c[c] # <<>> /\ Head(s2c[c]) = "ok" /\ Tail(s2c[c]) \in Parts

\* A client that has stopped early is put in step again only by being run again.
InPhase(c) ==
  /\ cpc[c] = "done" => s2c[c] = <<>>
  /\ cpc[c] = "start" => Quiet(c)
  /\ c \notin early =>
       /\ cpc[c] = "prompt" => Quiet(c)
       /\ cpc[c] = "result" => Answering(c)
       /\ cpc[c] = "names" => requests[c] = <<>> /\ s2c[c] \in Parts

ListingInv == FieldsOK /\ \A c \in Clients : InPhase(c)

LEMMA InvInStep == ListingInv => InStepUnlessEarly
<1>. SUFFICES ASSUME ListingInv, NEW c \in Clients \ early
              PROVE  /\ cpc[c] = "result" /\ s2c[c] # <<>> => Head(s2c[c]) \in {"ok", "error"}
                     /\ cpc[c] = "names" => ToSet(s2c[c]) \subseteq {"part"} /\ requests[c] = <<>>
                     /\ cpc[c] = "prompt" => ~Outstanding(c)
  BY DEF InStepUnlessEarly
<1>1. InPhase(c)
  BY DEF ListingInv
<1>2. cpc[c] = "result" /\ s2c[c] # <<>> => Head(s2c[c]) \in {"ok", "error"}
  BY <1>1 DEF InPhase, Answering
<1>3. cpc[c] = "names" => ToSet(s2c[c]) \subseteq {"part"} /\ requests[c] = <<>>
  BY <1>1 DEF InPhase, Parts, ToSet
<1>4. cpc[c] = "prompt" => ~Outstanding(c)
  BY <1>1 DEF InPhase, Quiet, Outstanding
<1>. QED
  BY <1>2, <1>3, <1>4

\* What is written of a name.
LEMMA NameIsParts ==
  /\ [i \in 1..NameUnits |-> "part"] \in Parts
  /\ [i \in 1..NameUnits |-> "part"] \in Seq(Units)
BY UnitAssumption DEF Parts, Units

LEMMA PartsAreUnits ==
  ASSUME NEW s \in Parts, NEW r \in Parts
  PROVE  s \o r \in Parts
BY ConcatProperties DEF Parts

\* A name behind what is already on its way.
LEMMA NameBehind ==
  ASSUME NEW s \in Seq(Units), s # <<>>, Head(s) = "ok", Tail(s) \in Parts, NEW r \in Parts
  PROVE  s \o r # <<>> /\ Head(s \o r) = "ok" /\ Tail(s \o r) \in Parts
<1>. DEFINE w == s \o r
<1>1. r \in Seq(Units) /\ Len(r) \in Nat /\ \A i \in 1..Len(r) : r[i] = "part"
  BY DEF Parts, Units
<1>2. Len(s) \in Nat \ {0} /\ \A i \in 2..Len(s) : s[i] = "part"
  <2>1. Len(s) \in Nat \ {0} /\ Len(Tail(s)) = Len(s) - 1
    BY EmptySeq, HeadTailProperties
  <2>2. \A i \in 1..(Len(s) - 1) : Tail(s)[i] = s[i + 1] /\ Tail(s)[i] = "part"
    BY <2>1, HeadTailProperties DEF Parts
  <2>3. \A i \in 2..Len(s) : i - 1 \in 1..(Len(s) - 1) /\ (i - 1) + 1 = i
    BY <2>1
  <2>. QED
    BY <2>1, <2>2, <2>3
<1>3. /\ w \in Seq(Units) /\ Len(w) = Len(s) + Len(r)
      /\ w[1] = "ok" /\ \A i \in 2..Len(w) : w[i] = "part"
  BY <1>1, <1>2, ConcatProperties
<1>. HIDE DEF w
<1>4. w # <<>> /\ Head(w) = "ok"
  BY <1>1, <1>2, <1>3
<1>5. /\ Tail(w) \in Seq(Units) /\ Len(Tail(w)) = Len(w) - 1
      /\ \A i \in 1..(Len(w) - 1) : Tail(w)[i] = w[i + 1]
  BY <1>3, <1>4, HeadTailProperties
<1>6. \A i \in 1..Len(Tail(w)) : Tail(w)[i] = "part"
  BY <1>1, <1>2, <1>3, <1>5
<1>7. Tail(w) \in Parts
  BY <1>5, <1>6 DEF Parts
<1>. QED
  BY <1>4, <1>7 DEF w

-------------------------------------------------------------------------------
(***************************************************************************)
(* A step is one of one connection; it leaves the others alone.            *)
(***************************************************************************)
OnlyAt(c) ==
  \A d \in Clients \ {c} :
    /\ cpc'[d] = cpc[d] /\ requests'[d] = requests[d] /\ s2c'[d] = s2c[d] /\ kid'[d] = kid[d]
    /\ d \in early' <=> d \in early

LEMMA OneConnection ==
  ASSUME ListingInv, NEW c \in Clients, FieldsOK', OnlyAt(c), InPhase(c)'
  PROVE  ListingInv'
<1>1. ASSUME NEW d \in Clients \ {c} PROVE InPhase(d)'
  BY <1>1 DEF ListingInv, InPhase, Quiet, Answering, OnlyAt
<1>. QED
  BY <1>1 DEF ListingInv

LEMMA InitListing == Init => ListingInv
BY DEF Init, ListingInit, ListingInv, FieldsOK, ClientLabels, KidLabels, InPhase, Quiet

LEMMA AskStep ==
  ASSUME ListingInv, NEW c \in Clients, Ask(c)
  PROVE  ListingInv'
<1>1. FieldsOK /\ InPhase(c) /\ cpc[c] = "prompt"
  BY DEF ListingInv, Ask, ClientGoto
<1>2. PICK d \in Dirs : requests' = [requests EXCEPT ![c] = Append(@, d)]
  BY DEF Ask
<1>3. /\ cpc' = [cpc EXCEPT ![c] = "result"]
      /\ early' = early /\ kid' = kid /\ s2c' = s2c
  BY DEF Ask, ClientGoto, kidVars
<1>4. /\ Append(requests[c], d) \in Seq(Dirs)
      /\ requests[c] = <<>> => Len(Append(requests[c], d)) = 1
  BY <1>1, AppendProperties DEF FieldsOK
<1>5. FieldsOK' /\ OnlyAt(c)
  BY <1>1, <1>2, <1>3, <1>4 DEF FieldsOK, OnlyAt, ClientLabels
<1>6. InPhase(c)'
  BY <1>1, <1>2, <1>3, <1>4 DEF FieldsOK, InPhase, Quiet, Answering
<1>. QED
  BY <1>5, <1>6, OneConnection

LEMMA ReadResultStep ==
  ASSUME ListingInv, NEW c \in Clients, ReadResult(c)
  PROVE  ListingInv'
<1>1. FieldsOK /\ InPhase(c) /\ cpc[c] = "result" /\ s2c[c] # <<>>
  BY DEF ListingInv, ReadResult, ClientGoto
<1>2. /\ s2c' = [s2c EXCEPT ![c] = Tail(s2c[c])]
      /\ early' = early /\ kid' = kid /\ requests' = requests
  BY DEF ReadResult, kidVars
<1>3. PICK to \in {"names", "prompt"} :
        /\ cpc' = [cpc EXCEPT ![c] = to]
        /\ Head(s2c[c]) = "ok" => to = "names"
        /\ Head(s2c[c]) = "error" => to = "prompt"
  <2>1. PICK r \in CASE Head(s2c[c]) = "ok" -> {TRUE}
                     [] Head(s2c[c]) = "error" -> {FALSE}
                     [] OTHER -> BOOLEAN :
          cpc' = [cpc EXCEPT ![c] = IF r THEN "names" ELSE "prompt"]
    BY DEF ReadResult, ClientGoto
  <2>2. /\ Head(s2c[c]) = "ok" => r = TRUE
        /\ Head(s2c[c]) = "error" => r = FALSE
    BY <2>1
  <2>. QED
    BY <2>1, <2>2
<1>4. Tail(s2c[c]) \in Seq(Units)
  BY <1>1, HeadTailProperties DEF FieldsOK
<1>5. FieldsOK' /\ OnlyAt(c)
  BY <1>1, <1>2, <1>3, <1>4 DEF FieldsOK, OnlyAt, ClientLabels
<1>6. cpc'[c] = to /\ requests'[c] = requests[c] /\ s2c'[c] = Tail(s2c[c]) /\ kid'[c] = kid[c]
  BY <1>1, <1>2, <1>3 DEF FieldsOK
<1>7. ASSUME c \notin early
      PROVE  /\ to = "prompt" => Quiet(c)'
             /\ to = "names" => requests'[c] = <<>> /\ s2c'[c] \in Parts
  <2>1. CASE s2c[c] = <<"error">> /\ requests[c] = <<>> /\ kid[c] # "list"
    <3>1. Head(s2c[c]) = "error" /\ Tail(s2c[c]) = <<>>
      BY <2>1
    <3>. QED
      BY <1>3, <1>6, <2>1, <3>1 DEF Quiet
  <2>2. CASE requests[c] = <<>> /\ Head(s2c[c]) = "ok" /\ Tail(s2c[c]) \in Parts
    BY <1>3, <1>6, <2>2
  <2>. QED
    BY <1>1, <1>7, <2>1, <2>2 DEF InPhase, Answering
<1>8. InPhase(c)'
  BY <1>2, <1>6, <1>7 DEF InPhase
<1>. QED
  BY <1>5, <1>8, OneConnection

LEMMA ReadNameStep ==
  ASSUME ListingInv, NEW c \in Clients, ReadName(c)
  PROVE  ListingInv'
<1>1. FieldsOK /\ InPhase(c) /\ cpc[c] = "names" /\ Len(s2c[c]) \in Nat
  BY DEF ListingInv, FieldsOK, ReadName
<1>2. PICK n \in 1..NameUnits :
        n <= Len(s2c[c]) /\ s2c' = [s2c EXCEPT ![c] = SubSeq(s2c[c], n + 1, Len(s2c[c]))]
  BY DEF ReadName
<1>3. cpc' = cpc /\ early' = early /\ kid' = kid /\ requests' = requests
  BY DEF ReadName, clientVars, kidVars
<1>4. \A S : s2c[c] \in Seq(S) => SubSeq(s2c[c], n + 1, Len(s2c[c])) \in Seq(S)
  BY <1>1, <1>2, UnitAssumption
<1>5. FieldsOK' /\ OnlyAt(c)
  BY <1>1, <1>2, <1>3, <1>4 DEF FieldsOK, OnlyAt
<1>6. InPhase(c)'
  BY <1>1, <1>2, <1>3, <1>4 DEF FieldsOK, InPhase, Parts
<1>. QED
  BY <1>5, <1>6, OneConnection

LEMMA ExpireStep ==
  ASSUME ListingInv, NEW c \in Clients, Expire(c)
  PROVE  ListingInv'
<1>1. FieldsOK /\ InPhase(c)
  BY DEF ListingInv
<1>2. /\ cpc' = [cpc EXCEPT ![c] = "prompt"]
      /\ early' = IF Outstanding(c) THEN early \cup {c} ELSE early
      /\ kid' = kid /\ requests' = requests /\ s2c' = s2c
  BY DEF Expire, ClientGoto, kidVars
<1>3. FieldsOK' /\ OnlyAt(c)
  BY <1>1, <1>2 DEF FieldsOK, OnlyAt, ClientLabels
<1>4. InPhase(c)'
  BY <1>1, <1>2 DEF FieldsOK, InPhase, Quiet, Outstanding
<1>. QED
  BY <1>3, <1>4, OneConnection

LEMMA ReadEofStep ==
  ASSUME ListingInv, NEW c \in Clients, ReadEof(c)
  PROVE  ListingInv'
<1>1. FieldsOK /\ InPhase(c) /\ s2c[c] = <<>> /\ kid[c] \in Gone
  BY DEF ListingInv, ReadEof
<1>2. PICK to \in {"spin", "prompt"} :
        /\ cpc' = [cpc EXCEPT ![c] = to]
        /\ requests' = [requests EXCEPT ![c] = <<>>]
        /\ early' = early /\ kid' = kid /\ s2c' = s2c
  BY DEF ReadEof, ClientGoto, kidVars
<1>3. FieldsOK' /\ OnlyAt(c)
  <2>1. cpc' \in [Clients -> ClientLabels] /\ requests' \in [Clients -> Seq(Dirs)]
    BY <1>1, <1>2 DEF FieldsOK, ClientLabels
  <2>. QED
    BY <1>1, <1>2, <2>1 DEF FieldsOK, OnlyAt
<1>4. InPhase(c)'
  BY <1>1, <1>2 DEF FieldsOK, InPhase, Quiet, Gone
<1>. QED
  BY <1>3, <1>4, OneConnection

LEMMA ClientEndsStep ==
  ASSUME ListingInv, NEW c \in Clients, ClientEnds(c)
  PROVE  ListingInv'
<1>1. FieldsOK
  BY DEF ListingInv
<1>2. PICK k \in 0..Len(requests[c]) : requests' = [requests EXCEPT ![c] = SubSeq(requests[c], 1, k)]
  BY DEF ClientEnds
<1>3. /\ cpc' = [cpc EXCEPT ![c] = "done"] /\ s2c' = [s2c EXCEPT ![c] = <<>>]
      /\ early' = early /\ kid' = kid
  BY DEF ClientEnds, kidVars
<1>4. SubSeq(requests[c], 1, k) \in Seq(Dirs)
  BY <1>1, <1>2 DEF FieldsOK
<1>5. FieldsOK' /\ OnlyAt(c)
  BY <1>1, <1>2, <1>3, <1>4 DEF FieldsOK, OnlyAt, ClientLabels
<1>6. InPhase(c)'
  BY <1>1, <1>3 DEF FieldsOK, InPhase
<1>. QED
  BY <1>5, <1>6, OneConnection

LEMMA RelaunchStep ==
  ASSUME ListingInv, NEW c \in Clients, Relaunch(c)
  PROVE  ListingInv'
<1>1. FieldsOK /\ InPhase(c) /\ cpc[c] = "done"
  BY DEF ListingInv, Relaunch, ClientGoto
<1>2. /\ cpc' = [cpc EXCEPT ![c] = "start"] /\ kid' = [kid EXCEPT ![c] = "none"]
      /\ requests' = [requests EXCEPT ![c] = <<>>] /\ early' = early \ {c} /\ s2c' = s2c
  BY DEF Relaunch, ClientGoto
<1>3. FieldsOK' /\ OnlyAt(c)
  BY <1>1, <1>2 DEF FieldsOK, OnlyAt, ClientLabels, KidLabels
<1>4. InPhase(c)'
  BY <1>1, <1>2 DEF FieldsOK, InPhase, Quiet
<1>. QED
  BY <1>3, <1>4, OneConnection

LEMMA ConnectStep ==
  ASSUME ListingInv, NEW c \in Clients, Connect(c)
  PROVE  ListingInv'
<1>1. FieldsOK /\ InPhase(c) /\ cpc[c] = "start"
  BY DEF ListingInv, Connect, ClientGoto
<1>2. /\ cpc' = [cpc EXCEPT ![c] = "prompt"]
      /\ early' = early /\ kid' = kid /\ requests' = requests /\ s2c' = s2c
  BY DEF Connect, ClientGoto, kidVars
<1>3. FieldsOK' /\ OnlyAt(c)
  BY <1>1, <1>2 DEF FieldsOK, OnlyAt, ClientLabels
<1>4. InPhase(c)'
  BY <1>1, <1>2 DEF FieldsOK, InPhase, Quiet
<1>. QED
  BY <1>3, <1>4, OneConnection

-------------------------------------------------------------------------------
(***************************************************************************)
(* The child.                                                              *)
(***************************************************************************)
\* It takes a request and answers: "ok", with names to come, or "error".
LEMMA AnswerStep ==
  ASSUME ListingInv, NEW c \in Clients, OpenDir(c) \/ RefuseDir(c)
  PROVE  ListingInv'
<1>1. FieldsOK /\ InPhase(c) /\ requests[c] # <<>> /\ kid[c] = "read"
  BY DEF ListingInv, OpenDir, RefuseDir, KidGoto
<1>2. PICK u \in {"ok", "error"} :
        /\ s2c' = [s2c EXCEPT ![c] = IF cpc[c] = "done" THEN s2c[c] ELSE s2c[c] \o <<u>>]
        /\ kid' = [kid EXCEPT ![c] = IF u = "ok" THEN "list" ELSE "read"]
        /\ requests' = [requests EXCEPT ![c] = Tail(requests[c])]
        /\ cpc' = cpc /\ early' = early
  <2>1. CASE OpenDir(c)
    BY <2>1 DEF OpenDir, Write, KidGoto, clientVars
  <2>2. CASE RefuseDir(c)
    BY <1>1, <2>2 DEF RefuseDir, Write, FieldsOK, clientVars, kidVars
  <2>. QED
    BY <2>1, <2>2
<1>3. s2c[c] \o <<u>> \in Seq(Units)
  BY <1>1, ConcatProperties DEF FieldsOK, Units
<1>4. /\ Tail(requests[c]) \in Seq(Dirs)
      /\ Len(requests[c]) = 1 => Tail(requests[c]) = <<>>
  <2>1. requests[c] \in Seq(Dirs) /\ requests[c] # <<>>
    BY <1>1 DEF FieldsOK
  <2>2. /\ Tail(requests[c]) \in Seq(Dirs)
        /\ Len(Tail(requests[c])) = Len(requests[c]) - 1
    BY <2>1, HeadTailProperties
  <2>3. \A s \in Seq(Dirs) : Len(s) = 0 => s = <<>>
    BY EmptySeq
  <2>4. Len(requests[c]) = 1 => Len(Tail(requests[c])) = 0
    BY <2>2
  <2>. QED
    BY <2>2, <2>3, <2>4
<1>5. FieldsOK' /\ OnlyAt(c)
  BY <1>1, <1>2, <1>3, <1>4 DEF FieldsOK, OnlyAt, KidLabels
<1>6. /\ cpc'[c] = cpc[c] /\ requests'[c] = Tail(requests[c])
      /\ kid'[c] = IF u = "ok" THEN "list" ELSE "read"
      /\ s2c'[c] = IF cpc[c] = "done" THEN s2c[c] ELSE s2c[c] \o <<u>>
  BY <1>1, <1>2 DEF FieldsOK
<1>7. cpc[c] # "start" /\ (c \notin early => cpc[c] \notin {"prompt", "names"})
  BY <1>1 DEF InPhase, Quiet
<1>8. ASSUME cpc[c] = "result", c \notin early
      PROVE  Answering(c)'
  <2>1. Len(requests[c]) = 1 /\ s2c[c] = <<>>
    BY <1>1, <1>8 DEF InPhase, Answering
  <2>2. requests'[c] = <<>> /\ s2c'[c] = <<u>>
    <3>1. s2c[c] \o <<u>> = <<u>>
      BY <2>1
    <3>. QED
      BY <1>4, <1>6, <1>8, <2>1, <3>1
  <2>3. <<u>> # <<>> /\ Head(<<u>>) = u /\ Tail(<<u>>) \in Parts
    BY DEF Parts
  <2>. QED
    BY <1>6, <2>2, <2>3 DEF Answering
<1>9. InPhase(c)'
  BY <1>1, <1>2, <1>6, <1>7, <1>8 DEF InPhase
<1>. QED
  BY <1>5, <1>9, OneConnection

LEMMA SendNameStep ==
  ASSUME ListingInv, NEW c \in Clients, SendName(c)
  PROVE  ListingInv'
<1>. DEFINE name == [i \in 1..NameUnits |-> "part"]
<1>1. FieldsOK /\ InPhase(c) /\ kid[c] = "list"
  BY DEF ListingInv, SendName
<1>2. /\ s2c' = [s2c EXCEPT ![c] = IF cpc[c] = "done" THEN s2c[c] ELSE s2c[c] \o name]
      /\ cpc' = cpc /\ early' = early /\ kid' = kid /\ requests' = requests
  BY DEF SendName, Write, clientVars
<1>3. name \in Parts /\ name \in Seq(Units)
  BY NameIsParts
<1>. HIDE DEF name
<1>4. s2c[c] \o name \in Seq(Units)
  BY <1>1, <1>3, ConcatProperties DEF FieldsOK
<1>5. FieldsOK' /\ OnlyAt(c)
  BY <1>1, <1>2, <1>4 DEF FieldsOK, OnlyAt
<1>6. /\ cpc'[c] = cpc[c] /\ requests'[c] = requests[c] /\ kid'[c] = kid[c]
      /\ s2c'[c] = IF cpc[c] = "done" THEN s2c[c] ELSE s2c[c] \o name
  BY <1>1, <1>2 DEF FieldsOK
<1>7. cpc[c] # "start" /\ (c \notin early => cpc[c] # "prompt")
  BY <1>1 DEF InPhase, Quiet
<1>8. ASSUME cpc[c] = "result", c \notin early
      PROVE  Answering(c)'
  <2>1. requests[c] = <<>> /\ s2c[c] # <<>> /\ Head(s2c[c]) = "ok" /\ Tail(s2c[c]) \in Parts
    BY <1>1, <1>8 DEF InPhase, Answering
  <2>2. s2c[c] \in Seq(Units)
    BY <1>1 DEF FieldsOK
  <2>. QED
    BY <1>3, <1>6, <1>8, <2>1, <2>2, NameBehind DEF Answering
<1>9. ASSUME cpc[c] = "names", c \notin early
      PROVE  requests'[c] = <<>> /\ s2c'[c] \in Parts
  BY <1>1, <1>3, <1>6, <1>9, PartsAreUnits DEF InPhase
<1>10. InPhase(c)'
  BY <1>1, <1>2, <1>6, <1>7, <1>8, <1>9 DEF InPhase
<1>. QED
  BY <1>5, <1>10, OneConnection

\* The child gets, or goes, where it does not list and has nothing to say.
LEMMA KidMoves ==
  ASSUME ListingInv, NEW c \in Clients, NEW to \in KidLabels \ {"list"},
         kid' = [kid EXCEPT ![c] = to], UNCHANGED <<cpc, requests, s2c, early>>
  PROVE  ListingInv'
<1>1. FieldsOK /\ InPhase(c)
  BY DEF ListingInv
<1>2. FieldsOK' /\ OnlyAt(c)
  BY <1>1 DEF FieldsOK, OnlyAt
<1>3. kid'[c] # "list" /\ cpc'[c] = cpc[c] /\ requests'[c] = requests[c] /\ s2c'[c] = s2c[c]
  BY <1>1 DEF FieldsOK
<1>4. InPhase(c)'
  BY <1>1, <1>3 DEF InPhase, Quiet, Answering
<1>. QED
  BY <1>2, <1>4, OneConnection

\* What the properties of the service do not see: the loop of the server, its words.
LEMMA Elsewhere ==
  ASSUME ListingInv, UNCHANGED <<cpc, requests, s2c, kid, early>>
  PROVE  ListingInv'
<1>1. FieldsOK'
  BY DEF ListingInv, FieldsOK
<1>2. ASSUME NEW c \in Clients PROVE InPhase(c)'
  BY <1>2 DEF ListingInv, InPhase, Quiet, Answering
<1>. QED
  BY <1>1, <1>2 DEF ListingInv

LEMMA AcceptStep ==
  ASSUME ListingInv, AcceptForks
  PROVE  ListingInv'
<1>1. /\ kid' = [kid EXCEPT ![Head(backlog)] = "read"]
      /\ UNCHANGED <<cpc, requests, s2c, early>>
  BY DEF AcceptForks, KidGoto, clientVars
<1>2. CASE Head(backlog) \in Clients
  BY <1>1, <1>2, KidMoves DEF KidLabels
<1>3. CASE Head(backlog) \notin Clients
  <2>1. kid' = kid
    BY <1>1, <1>3 DEF ListingInv, FieldsOK
  <2>. QED
    BY <1>1, <2>1, Elsewhere
<1>. QED
  BY <1>2, <1>3

LEMMA KidEndsStep ==
  ASSUME ListingInv, NEW c \in Clients, NEW label \in {"exited", "crashed"}, KidEnds(c, label)
  PROVE  ListingInv'
BY KidMoves DEF KidEnds, KidLabels, clientVars

LEMMA KidAnyStep ==
  ASSUME ListingInv, NEW c \in Clients, KidStep(c) \/ KidKilled(c)
  PROVE  ListingInv'
<1>1. CASE OpenDir(c) \/ RefuseDir(c)
  BY <1>1, AnswerStep
<1>2. CASE OpenSub(c)
  BY <1>2, Elsewhere DEF OpenSub, clientVars
<1>3. CASE OpenSubFails(c) \/ KidExits(c) \/ KidKilled(c)
  BY <1>3, KidEndsStep DEF OpenSubFails, KidExits, KidKilled
<1>4. CASE SendName(c)
  BY <1>4, SendNameStep
<1>5. CASE EndList(c)
  BY <1>5, KidMoves DEF EndList, KidGoto, KidLabels, clientVars
<1>. QED
  BY <1>1, <1>2, <1>3, <1>4, <1>5 DEF KidStep

LEMMA ServerStep ==
  ASSUME ListingInv, Server \/ ServerDies
  PROVE  ListingInv'
<1>1. CASE AcceptForks
  BY <1>1, AcceptStep
<1>2. CASE ~AcceptForks
  <2>1. UNCHANGED listingVars
    BY <1>2 DEF Server, ServerDies, Select, AcceptFails, ForkFails, ReceiveRefused, ReceiveLeaks,
         ReceiveOpens, Copy, Rename, RenameFails, Send
  <2>. QED
    BY <2>1, Elsewhere DEF listingVars, clientVars, kidVars
<1>. QED
  BY <1>1, <1>2

LEMMA NextListing == ListingInv /\ [Next]_vars => ListingInv'
<1>. SUFFICES ASSUME ListingInv, [Next]_vars PROVE ListingInv'
  OBVIOUS
<1>1. CASE UNCHANGED vars
  BY <1>1, Elsewhere DEF vars, listingVars, clientVars, kidVars
<1>2. CASE Server \/ ServerDies
  BY <1>2, ServerStep
<1>3. ASSUME NEW u \in Users, AskWord(u) \/ ReadAnswer(u) PROVE ListingInv'
  BY <1>3, Elsewhere DEF AskWord, ReadAnswer, listingVars, clientVars, kidVars
<1>4. ASSUME NEW c \in Clients, Connect(c) PROVE ListingInv'
  BY <1>4, ConnectStep
<1>5. ASSUME NEW c \in Clients, User(c) PROVE ListingInv'
  BY <1>5, AskStep, ClientEndsStep, RelaunchStep DEF User
<1>6. ASSUME NEW c \in Clients, Client(c) PROVE ListingInv'
  BY <1>6, ReadResultStep, ReadNameStep, ExpireStep DEF Client, ClientReads
<1>7. ASSUME NEW c \in Clients, LoseConnection(c) PROVE ListingInv'
  BY <1>7, ReadEofStep DEF LoseConnection
<1>8. ASSUME NEW c \in Clients, Kid(c) \/ KidSignalled(c) PROVE ListingInv'
  BY <1>8, KidAnyStep DEF Kid, KidSignalled
<1>. QED
  BY <1>1, <1>2, <1>3, <1>4, <1>5, <1>6, <1>7, <1>8 DEF Next

-------------------------------------------------------------------------------
(***************************************************************************)
(* The rest of the listing keeps its types.                                *)
(***************************************************************************)
CountsOK ==
  /\ asked \in [Clients -> 0..MaxAsked]
  /\ res \in [Clients -> BOOLEAN]
  /\ subs \in [Clients -> Seq(Nat)]
  /\ names \in [Clients -> Nat]

countVars == <<asked, res, subs, names>>

LEMMA InitCounts == Init => CountsOK
BY UnitAssumption DEF Init, ListingInit, CountsOK

LEMMA KidCounts ==
  ASSUME FieldsOK, CountsOK, NEW c \in Clients, KidStep(c) \/ KidKilled(c)
  PROVE  CountsOK'
<1>1. CASE OpenDir(c)
  <2>1. requests[c] # <<>> /\ requests[c] \in Seq(Dirs) /\ Tree[Head(requests[c])] # Missing
    BY <1>1 DEF OpenDir, FieldsOK
  <2>2. Head(requests[c]) \in Dirs
    BY <2>1, HeadTailProperties
  <2>3. Tree[Head(requests[c])] \in Seq(Nat)
    BY <2>1, <2>2, TreeAssumption
  <2>. QED
    BY <1>1, <2>3 DEF OpenDir, clientVars, CountsOK
<1>2. CASE RefuseDir(c)
  BY <1>2 DEF RefuseDir, clientVars, kidVars, CountsOK
<1>3. CASE OpenSub(c)
  <2>1. subs[c] \in Seq(Nat) /\ subs[c] # <<>>
    BY <1>3 DEF OpenSub, NextSub, CountsOK
  <2>2. Head(subs[c]) \in Nat /\ Tail(subs[c]) \in Seq(Nat)
    BY <2>1, HeadTailProperties
  <2>. QED
    BY <1>3, <2>2 DEF OpenSub, clientVars, CountsOK
<1>4. CASE OpenSubFails(c) \/ KidExits(c) \/ KidKilled(c)
  <2>1. /\ subs' = [subs EXCEPT ![c] = <<>>] /\ names' = [names EXCEPT ![c] = 0]
        /\ asked' = asked /\ res' = res
    BY <1>4 DEF OpenSubFails, KidExits, KidKilled, KidEnds, clientVars
  <2>. QED
    BY <2>1 DEF CountsOK
<1>5. CASE SendName(c)
  BY <1>5 DEF SendName, clientVars, CountsOK
<1>6. CASE EndList(c)
  BY <1>6 DEF EndList, clientVars, CountsOK
<1>. QED
  BY <1>1, <1>2, <1>3, <1>4, <1>5, <1>6 DEF KidStep

LEMMA ClientCounts ==
  ASSUME CountsOK, NEW c \in Clients,
         Connect(c) \/ User(c) \/ Client(c) \/ LoseConnection(c)
  PROVE  CountsOK'
<1>1. CASE Connect(c)
  BY <1>1 DEF Connect, kidVars, CountsOK
<1>2. CASE Ask(c)
  BY <1>2, UnitAssumption DEF Ask, kidVars, CountsOK
<1>3. CASE ClientEnds(c)
  BY <1>3 DEF ClientEnds, kidVars, CountsOK
<1>4. CASE Relaunch(c)
  BY <1>4, UnitAssumption DEF Relaunch, CountsOK
<1>5. CASE ReadResult(c)
  <2>1. PICK r \in CASE Head(s2c[c]) = "ok" -> {TRUE}
                     [] Head(s2c[c]) = "error" -> {FALSE}
                     [] OTHER -> BOOLEAN : res' = [res EXCEPT ![c] = r]
    BY <1>5 DEF ReadResult
  <2>2. r \in BOOLEAN
    BY <2>1
  <2>. QED
    BY <1>5, <2>1, <2>2 DEF ReadResult, kidVars, CountsOK
<1>6. CASE ReadName(c) \/ Expire(c) \/ ReadEof(c)
  BY <1>6 DEF ReadName, Expire, ReadEof, clientVars, kidVars, CountsOK
<1>. QED
  BY <1>1, <1>2, <1>3, <1>4, <1>5, <1>6 DEF User, Client, ClientReads, LoseConnection

LEMMA NextCounts == FieldsOK /\ CountsOK /\ [Next]_vars => CountsOK'
<1>. SUFFICES ASSUME FieldsOK, CountsOK, [Next]_vars PROVE CountsOK'
  OBVIOUS
<1>1. ASSUME UNCHANGED countVars PROVE CountsOK'
  BY <1>1 DEF countVars, CountsOK
<1>2. CASE UNCHANGED vars
  BY <1>1, <1>2 DEF vars, listingVars, clientVars, kidVars, countVars
<1>3. CASE Server \/ ServerDies
  BY <1>1, <1>3 DEF Server, ServerDies, Select, AcceptFails, AcceptForks, ForkFails, ReceiveRefused,
       ReceiveLeaks, ReceiveOpens, Copy, Rename, RenameFails, Send, listingVars, clientVars, kidVars,
       countVars
<1>4. ASSUME NEW u \in Users, AskWord(u) \/ ReadAnswer(u) PROVE CountsOK'
  BY <1>1, <1>4 DEF AskWord, ReadAnswer, listingVars, clientVars, kidVars, countVars
<1>5. ASSUME NEW c \in Clients, Connect(c) \/ User(c) \/ Client(c) \/ LoseConnection(c)
      PROVE  CountsOK'
  BY <1>5, ClientCounts
<1>6. ASSUME NEW c \in Clients, Kid(c) \/ KidSignalled(c) PROVE CountsOK'
  BY <1>6, KidCounts DEF Kid, KidSignalled
<1>. QED
  BY <1>2, <1>3, <1>4, <1>5, <1>6 DEF Next

-------------------------------------------------------------------------------
(***************************************************************************)
(* The loop of the server and the service of the words.                    *)
(***************************************************************************)
LoopOK ==
  /\ backlog \in Seq(Clients)
  /\ spc \in {"select", "accept", "receive", "copy", "rename", "send", "down"}
  /\ ready \in BOOLEAN
  /\ fds \in 0..MaxFds
  /\ datagrams \in Seq(Requests)

WordsOK ==
  /\ request \in Requests
  /\ result \in Nat \cup {-1}
  /\ fs \in [Files -> Texts \cup {Absent}]
  /\ upc \in [Users -> {"prompt", "await"}]
  /\ answers \in [Users -> Seq(Nat \cup {-1})]

\* The server takes a connection or a datagram only where there is one.
SelectedInv ==
  /\ spc = "accept" => backlog # <<>> /\ (ready => datagrams # <<>>)
  /\ spc = "receive" => datagrams # <<>>

\* What is in tmp.txt while a file is served, unless that is tmp.txt itself: nothing
\* after the opens, whatever a rename that failed had left there; the file without the
\* word after the copy.
TmpInv ==
  /\ spc = "copy" => fs[File] \in Texts /\ fs[TmpFile] = <<>>
  /\ spc = "rename" /\ File # TmpFile =>
       /\ fs[File] \in Texts
       /\ fs[TmpFile] = Removal(fs[File], request.word).out
       /\ result = Removal(fs[File], request.word).found

WordsInv == WordsOK /\ FilesLoseWordsOnly /\ TmpInv

ServiceInv == LoopOK /\ SelectedInv /\ WordsInv

LEMMA InitService == Init => ServiceInv
<1>. SUFFICES ASSUME Init PROVE ServiceInv
  OBVIOUS
<1>1. request \in Requests
  <2>1. Requests # {}
    <3>1. PICK u \in Users, w \in Words : TRUE
      BY UsersAssumption
    <3>2. [user |-> u, file |-> TmpFile, word |-> w] \in Requests
      BY TextAssumption DEF Requests
    <3>. QED
      BY <3>2
  <2>. QED
    BY <2>1 DEF Init
<1>2. LoopOK /\ WordsOK
  <2>1. LoopOK
    <3>1. <<>> \in Seq(Clients) /\ <<>> \in Seq(Requests) /\ 0 \in 0..MaxFds
      BY EmptySeq, FdsAssumption
    <3>. QED
      BY <3>1 DEF Init, LoopOK
  <2>2. WordsOK
    BY <1>1, TextAssumption DEF Init, WordsOK
  <2>. QED
    BY <2>1, <2>2
<1>3. FilesLoseWordsOnly
  <2>. SUFFICES ASSUME NEW f \in Files \ {TmpFile}, Disk[f] # Absent
                PROVE  \E ws \in SUBSET Words : fs[f] = Without(Disk[f], ws)
    BY DEF Init, FilesLoseWordsOnly
  <2>1. Disk[f] \in Texts
    BY TextAssumption
  <2>2. fs[f] = Without(Disk[f], {}) /\ {} \in SUBSET Words
    BY <2>1, WithoutNothing DEF Init
  <2>. QED
    BY <2>2
<1>4. SelectedInv /\ TmpInv
  BY DEF Init, SelectedInv, TmpInv
<1>. QED
  BY <1>2, <1>3, <1>4 DEF ServiceInv, WordsInv

\* What does not change what is said of the words.
LEMMA WordsKept ==
  ASSUME WordsInv, UNCHANGED <<request, result, fs>>, WordsOK',
         spc' \in {"copy", "rename"} => spc' = spc
  PROVE  WordsInv'
BY DEF WordsInv, FilesLoseWordsOnly, TmpInv, File

LEMMA ServiceKept ==
  ASSUME ServiceInv, UNCHANGED <<loopVars, wordVars>>
  PROVE  ServiceInv'
<1>1. LoopOK' /\ SelectedInv' /\ WordsOK'
  BY DEF ServiceInv, WordsInv, LoopOK, SelectedInv, WordsOK, loopVars, wordVars, userVars
<1>2. WordsInv'
  BY <1>1, WordsKept DEF ServiceInv, loopVars, wordVars
<1>. QED
  BY <1>1, <1>2 DEF ServiceInv

\* A datagram is in the queue, and is of a user, for a file, with a word.
LEMMA FirstDatagram ==
  ASSUME LoopOK, datagrams # <<>>
  PROVE  /\ Head(datagrams) \in Requests /\ Tail(datagrams) \in Seq(Requests)
         /\ Head(datagrams).file \in Files
<1>1. Head(datagrams) \in Requests /\ Tail(datagrams) \in Seq(Requests)
  BY HeadTailProperties DEF LoopOK
<1>. QED
  BY <1>1 DEF Requests

LEMMA SelectService ==
  ASSUME ServiceInv, Select
  PROVE  ServiceInv'
<1>1. /\ spc' = IF backlog # <<>> THEN "accept" ELSE "receive"
      /\ ready' = (datagrams # <<>>)
      /\ backlog # <<>> \/ datagrams # <<>>
      /\ UNCHANGED <<backlog, fds, datagrams, request, result, fs, upc, answers>>
  BY DEF Select, Goto, wordVars, userVars
<1>2. LoopOK' /\ SelectedInv' /\ WordsOK'
  BY <1>1 DEF ServiceInv, WordsInv, LoopOK, SelectedInv, WordsOK
<1>3. WordsInv'
  BY <1>1, <1>2, WordsKept DEF ServiceInv
<1>. QED
  BY <1>2, <1>3 DEF ServiceInv

LEMMA AcceptService ==
  ASSUME ServiceInv, AcceptFails \/ AcceptForks \/ ForkFails
  PROVE  ServiceInv'
<1>1. /\ spc = "accept" /\ backlog # <<>> /\ (ready => datagrams # <<>>)
      /\ spc' = IF ready THEN "receive" ELSE "select"
      /\ UNCHANGED <<ready, datagrams, request, result, fs, upc, answers>>
  BY DEF ServiceInv, SelectedInv, AcceptFails, AcceptForks, ForkFails, AfterAccept, Goto,
     wordVars, userVars
<1>2. backlog' \in Seq(Clients) /\ fds' \in 0..MaxFds
  <2>1. backlog \in Seq(Clients) /\ fds \in 0..MaxFds
    BY DEF ServiceInv, LoopOK
  <2>2. Tail(backlog) \in Seq(Clients)
    BY <1>1, <2>1, HeadTailProperties
  <2>3. CASE AcceptFails
    BY <2>1, <2>3 DEF AcceptFails
  <2>4. CASE AcceptForks \/ ForkFails
    BY <2>1, <2>2, <2>4, FdsAssumption DEF AcceptForks, ForkFails
  <2>. QED
    BY <2>3, <2>4
<1>3. LoopOK' /\ SelectedInv' /\ WordsOK'
  BY <1>1, <1>2 DEF ServiceInv, WordsInv, LoopOK, SelectedInv, WordsOK
<1>4. WordsInv'
  BY <1>1, <1>3, WordsKept DEF ServiceInv
<1>. QED
  BY <1>3, <1>4 DEF ServiceInv

\* The file cannot be opened, or tmp.txt: no file is touched.
LEMMA RefuseService ==
  ASSUME ServiceInv, ReceiveRefused \/ ReceiveLeaks
  PROVE  ServiceInv'
<1>1. /\ spc = "receive" /\ spc' = "send" /\ request' = Head(datagrams)
      /\ datagrams' = Tail(datagrams) /\ result' = -1
      /\ UNCHANGED <<backlog, ready, fs, upc, answers>>
  BY DEF ReceiveRefused, ReceiveLeaks, Goto, userVars
<1>2. fds' \in 0..MaxFds
  BY FdsAssumption DEF ServiceInv, LoopOK, ReceiveRefused, ReceiveLeaks
<1>3. Head(datagrams) \in Requests /\ Tail(datagrams) \in Seq(Requests)
  BY <1>1, FirstDatagram DEF ServiceInv, SelectedInv
<1>4. LoopOK' /\ SelectedInv' /\ WordsOK'
  BY <1>1, <1>2, <1>3 DEF ServiceInv, WordsInv, LoopOK, SelectedInv, WordsOK
<1>5. FilesLoseWordsOnly' /\ TmpInv'
  BY <1>1 DEF ServiceInv, WordsInv, FilesLoseWordsOnly, TmpInv
<1>. QED
  BY <1>4, <1>5 DEF ServiceInv, WordsInv

LEMMA OpensService ==
  ASSUME ServiceInv, ReceiveOpens
  PROVE  ServiceInv'
<1>1. /\ spc = "receive" /\ spc' = "copy" /\ request' = Head(datagrams)
      /\ datagrams' = Tail(datagrams) /\ result' = 0
      /\ fs[Head(datagrams).file] # Absent /\ fs' = [fs EXCEPT ![TmpFile] = <<>>]
      /\ UNCHANGED <<backlog, ready, fds, upc, answers>>
  BY DEF ReceiveOpens, Goto, userVars
<1>2. /\ Head(datagrams) \in Requests /\ Tail(datagrams) \in Seq(Requests)
      /\ Head(datagrams).file \in Files
  BY <1>1, FirstDatagram DEF ServiceInv, SelectedInv
<1>3. fs \in [Files -> Texts \cup {Absent}] /\ TmpFile \in Files /\ <<>> \in Texts
  BY TextAssumption DEF ServiceInv, WordsInv, WordsOK, Texts
<1>4. LoopOK' /\ SelectedInv' /\ WordsOK'
  BY <1>1, <1>2, <1>3 DEF ServiceInv, WordsInv, LoopOK, SelectedInv, WordsOK
<1>5. FilesLoseWordsOnly'
  BY <1>1, <1>3 DEF ServiceInv, WordsInv, FilesLoseWordsOnly
<1>6. TmpInv'
  BY <1>1, <1>2, <1>3 DEF TmpInv, File
<1>. QED
  BY <1>4, <1>5, <1>6 DEF ServiceInv, WordsInv

\* The loop over the file: tmp.txt was empty and holds its text without the word.
LEMMA CopyService ==
  ASSUME ServiceInv, Copy
  PROVE  ServiceInv'
<1>. DEFINE r == Removal(fs[File], request.word)
<1>1. /\ spc = "copy" /\ spc' = "rename"
      /\ fs' = [fs EXCEPT ![TmpFile] = Overwrite(fs[TmpFile], r.out)] /\ result' = r.found
      /\ UNCHANGED <<backlog, ready, fds, request, datagrams, upc, answers>>
  BY DEF Copy, Goto, userVars
<1>2. /\ fs \in [Files -> Texts \cup {Absent}] /\ TmpFile \in Files /\ File \in Files
      /\ fs[File] \in Texts /\ fs[TmpFile] = <<>>
  BY <1>1, TextAssumption DEF ServiceInv, WordsInv, WordsOK, TmpInv, File, Requests
<1>3. r.out \in Texts /\ r.found \in Nat
  BY <1>2, RemovalType
<1>. HIDE DEF r
<1>4. Overwrite(fs[TmpFile], r.out) = r.out
  <2>1. Len(r.out) \in Nat /\ Len(<<>>) = 0
    BY <1>3 DEF Texts
  <2>2. SubSeq(<<>>, Len(r.out) + 1, Len(<<>>)) = <<>>
    BY <2>1, SubSeqEmpty
  <2>. QED
    BY <1>2, <1>3, <2>2, ConcatEmptySeq DEF Overwrite, Texts
<1>5. LoopOK' /\ SelectedInv' /\ WordsOK'
  BY <1>1, <1>2, <1>3, <1>4 DEF ServiceInv, WordsInv, LoopOK, SelectedInv, WordsOK
<1>6. FilesLoseWordsOnly'
  BY <1>1, <1>2 DEF ServiceInv, WordsInv, FilesLoseWordsOnly
<1>7. TmpInv'
  <2>1. File' = File /\ request'.word = request.word
    BY <1>1 DEF File
  <2>2. ASSUME File # TmpFile PROVE fs'[File] = fs[File] /\ fs'[TmpFile] = r.out
    BY <1>1, <1>2, <1>4, <2>2
  <2>. QED
    BY <1>1, <1>2, <2>1, <2>2 DEF TmpInv, r
<1>. QED
  BY <1>5, <1>6, <1>7 DEF ServiceInv, WordsInv

\* tmp.txt replaces the file, which has lost one more word.
LEMMA RenameService ==
  ASSUME ServiceInv, Rename
  PROVE  ServiceInv'
<1>1. /\ spc = "rename" /\ spc' = "send"
      /\ fs' = IF File = TmpFile THEN fs ELSE [fs EXCEPT ![File] = fs[TmpFile], ![TmpFile] = Absent]
      /\ UNCHANGED <<backlog, ready, fds, request, result, datagrams, upc, answers>>
  BY DEF Rename, Goto, userVars
<1>2. /\ fs \in [Files -> Texts \cup {Absent}] /\ TmpFile \in Files /\ File \in Files
      /\ request.word \in Words
      /\ File # TmpFile => fs[File] \in Texts /\ fs[TmpFile] = Removal(fs[File], request.word).out
  BY <1>1, TextAssumption DEF ServiceInv, WordsInv, WordsOK, TmpInv, File, Requests
<1>3. LoopOK' /\ SelectedInv' /\ WordsOK'
  BY <1>1, <1>2 DEF ServiceInv, WordsInv, LoopOK, SelectedInv, WordsOK
<1>4. FilesLoseWordsOnly'
  <2>1. CASE File = TmpFile
    BY <1>1, <2>1 DEF ServiceInv, WordsInv, FilesLoseWordsOnly
  <2>2. CASE File # TmpFile
    <3>1. /\ fs'[File] = Removal(fs[File], request.word).out
          /\ \A f \in Files \ {TmpFile, File} : fs'[f] = fs[f]
      BY <1>1, <1>2, <2>2
    <3>2. Disk[File] # Absent
      BY <1>2, <2>2, TextAssumption DEF ServiceInv, WordsInv, FilesLoseWordsOnly
    <3>3. PICK ws \in SUBSET Words : fs[File] = Without(Disk[File], ws)
      BY <1>2, <2>2, <3>2 DEF ServiceInv, WordsInv, FilesLoseWordsOnly
    <3>4. Disk[File] \in Texts /\ ws \subseteq ProperWords /\ request.word \in ProperWords
      BY <1>2, <3>2, TextAssumption DEF ProperWords
    <3>5. fs'[File] = Without(Disk[File], ws \cup {request.word})
      BY <3>1, <3>3, <3>4, RemovesOneMore
    <3>6. ws \cup {request.word} \in SUBSET Words
      BY <1>2
    <3>. QED
      BY <3>1, <3>2, <3>5, <3>6 DEF ServiceInv, WordsInv, FilesLoseWordsOnly
  <2>. QED
    BY <2>1, <2>2
<1>5. TmpInv'
  BY <1>1 DEF TmpInv
<1>. QED
  BY <1>3, <1>4, <1>5 DEF ServiceInv, WordsInv

LEMMA SendService ==
  ASSUME ServiceInv, RenameFails \/ Send \/ ServerDies
  PROVE  ServiceInv'
<1>1. /\ spc' \in {"send", "select", "down"} /\ datagrams' \in {datagrams, <<>>}
      /\ UNCHANGED <<backlog, ready, fds, request, result, fs, upc>>
  BY DEF RenameFails, Send, ServerDies, Goto, wordVars, userVars
<1>2. answers' \in [Users -> Seq(Nat \cup {-1})]
  <2>1. /\ answers \in [Users -> Seq(Nat \cup {-1})] /\ result \in Nat \cup {-1}
        /\ request.user \in Users
    BY DEF ServiceInv, WordsInv, WordsOK, Requests
  <2>2. Append(answers[request.user], result) \in Seq(Nat \cup {-1})
    BY <2>1, AppendProperties
  <2>. QED
    BY <2>1, <2>2 DEF RenameFails, Send, ServerDies, wordVars, userVars
<1>3. LoopOK' /\ SelectedInv' /\ WordsOK'
  <2>1. LoopOK'
    BY <1>1, EmptySeq DEF ServiceInv, LoopOK
  <2>2. SelectedInv'
    BY <1>1 DEF ServiceInv, SelectedInv
  <2>3. WordsOK'
    BY <1>1, <1>2 DEF ServiceInv, WordsInv, WordsOK
  <2>. QED
    BY <2>1, <2>2, <2>3
<1>4. WordsInv'
  BY <1>1, <1>3, WordsKept DEF ServiceInv
<1>. QED
  BY <1>3, <1>4 DEF ServiceInv

LEMMA UserService ==
  ASSUME ServiceInv, NEW u \in Users, AskWord(u) \/ ReadAnswer(u)
  PROVE  ServiceInv'
<1>1. UNCHANGED <<backlog, spc, ready, fds, request, result, fs>>
  BY DEF AskWord, ReadAnswer, loopVars
<1>2. datagrams' \in Seq(Requests) /\ (datagrams # <<>> => datagrams' # <<>>)
  <2>1. datagrams \in Seq(Requests)
    BY DEF ServiceInv, LoopOK
  <2>2. ASSUME NEW d \in Requests
        PROVE  Append(datagrams, d) \in Seq(Requests) /\ Append(datagrams, d) # <<>>
    BY <2>1, <2>2, AppendProperties, EmptySeq
  <2>3. \/ UNCHANGED datagrams
        \/ \E f \in Files, w \in Words :
             datagrams' = Append(datagrams, [user |-> u, file |-> f, word |-> w])
    BY DEF AskWord, ReadAnswer
  <2>4. \A f \in Files, w \in Words : [user |-> u, file |-> f, word |-> w] \in Requests
    BY DEF Requests
  <2>. QED
    BY <2>1, <2>2, <2>3, <2>4
<1>3. upc' \in [Users -> {"prompt", "await"}] /\ answers' \in [Users -> Seq(Nat \cup {-1})]
  <2>1. upc \in [Users -> {"prompt", "await"}] /\ answers \in [Users -> Seq(Nat \cup {-1})]
    BY DEF ServiceInv, WordsInv, WordsOK
  <2>2. CASE AskWord(u)
    BY <2>1, <2>2 DEF AskWord
  <2>3. CASE ReadAnswer(u)
    <3>1. Tail(answers[u]) \in Seq(Nat \cup {-1})
      BY <2>1, <2>3, HeadTailProperties DEF ReadAnswer
    <3>. QED
      BY <2>1, <2>3, <3>1 DEF ReadAnswer
  <2>. QED
    BY <2>2, <2>3
<1>4. LoopOK' /\ SelectedInv' /\ WordsOK'
  <2>1. LoopOK'
    BY <1>1, <1>2 DEF ServiceInv, LoopOK
  <2>2. SelectedInv'
    BY <1>1, <1>2 DEF ServiceInv, SelectedInv
  <2>3. WordsOK'
    BY <1>1, <1>3 DEF ServiceInv, WordsInv, WordsOK
  <2>. QED
    BY <2>1, <2>2, <2>3
<1>5. WordsInv'
  BY <1>1, <1>4, WordsKept DEF ServiceInv
<1>. QED
  BY <1>4, <1>5 DEF ServiceInv

LEMMA ConnectService ==
  ASSUME ServiceInv, NEW c \in Clients, Connect(c)
  PROVE  ServiceInv'
<1>1. /\ backlog' = Append(backlog, c)
      /\ UNCHANGED <<spc, ready, fds, datagrams, request, result, fs, upc, answers>>
  BY DEF Connect, wordVars, userVars
<1>2. backlog \in Seq(Clients) /\ Append(backlog, c) \in Seq(Clients) /\ Append(backlog, c) # <<>>
  BY AppendProperties, EmptySeq DEF ServiceInv, LoopOK
<1>3. LoopOK' /\ SelectedInv' /\ WordsOK'
  <2>1. LoopOK'
    BY <1>1, <1>2 DEF ServiceInv, LoopOK
  <2>2. SelectedInv'
    BY <1>1, <1>2 DEF ServiceInv, SelectedInv
  <2>3. WordsOK'
    BY <1>1 DEF ServiceInv, WordsInv, WordsOK
  <2>. QED
    BY <2>1, <2>2, <2>3
<1>4. WordsInv'
  BY <1>1, <1>3, WordsKept DEF ServiceInv
<1>. QED
  BY <1>3, <1>4 DEF ServiceInv

LEMMA NextService == ServiceInv /\ [Next]_vars => ServiceInv'
<1>. SUFFICES ASSUME ServiceInv, [Next]_vars PROVE ServiceInv'
  OBVIOUS
<1>1. CASE UNCHANGED vars
  BY <1>1, ServiceKept DEF vars
<1>2. CASE Server \/ ServerDies
  BY <1>2, SelectService, AcceptService, RefuseService, OpensService, CopyService, RenameService,
     SendService DEF Server
<1>3. ASSUME NEW u \in Users, AskWord(u) \/ ReadAnswer(u) PROVE ServiceInv'
  BY <1>3, UserService
<1>4. ASSUME NEW c \in Clients, Connect(c) PROVE ServiceInv'
  BY <1>4, ConnectService
<1>5. ASSUME NEW c \in Clients,
             User(c) \/ Client(c) \/ LoseConnection(c) \/ Kid(c) \/ KidSignalled(c)
      PROVE  ServiceInv'
  BY <1>5, ServiceKept DEF User, Client, LoseConnection, Kid, KidSignalled
<1>. QED
  BY <1>1, <1>2, <1>3, <1>4, <1>5 DEF Next

\* Another text counts the words that it still has.
LEMMA WordsCounted == ServiceInv => CountIsRight
<1>. SUFFICES ASSUME ServiceInv, spc = "rename", File # TmpFile
              PROVE  result = Cardinality(Occurrences(fs[File], request.word))
  BY DEF CountIsRight
<1>1. fs[File] \in Texts /\ result = Removal(fs[File], request.word).found
  BY DEF ServiceInv, WordsInv, TmpInv
<1>2. request.word \in ProperWords
  BY TextAssumption DEF ServiceInv, WordsInv, WordsOK, Requests, ProperWords
<1>3. Removal(Without(fs[File], {}), request.word).found
        = Cardinality(Occurrences(fs[File], request.word))
  <2>1. \A text \in Texts : \A w \in ProperWords :
          Removal(Without(text, {}), w).found = Cardinality(Occurrences(text, w))
    <3>1. {} \subseteq ProperWords
      OBVIOUS
    <3>. QED
      BY <3>1, RemovesOneMore
  <2>. QED
    BY <1>1, <1>2, <2>1
<1>4. Without(fs[File], {}) = fs[File]
  BY <1>1, WithoutNothing
<1>. QED
  BY <1>1, <1>3, <1>4

-------------------------------------------------------------------------------
(***************************************************************************)
(* The theorems.                                                           *)
(***************************************************************************)
IInv == ListingInv /\ CountsOK /\ ServiceInv

\* The server, its children, their clients and the users of the words keep the
\* invariant, whatever directories, texts, words, descriptors and stops there are.
THEOREM Invariance == Spec => []IInv
<1>1. Init => IInv
  BY InitListing, InitCounts, InitService DEF IInv
<1>2. IInv /\ [Next]_vars => IInv'
  BY NextListing, NextCounts, NextService DEF IInv, ListingInv
<1>. QED
  BY <1>1, <1>2, PTL DEF Spec

\* The variables keep their types: also the loop of server.c over a text gives a text
\* and a number.
THEOREM TypeCorrect == Spec => []TypeOK
<1>1. IInv => TypeOK
  BY DEF IInv, ListingInv, FieldsOK, CountsOK, ServiceInv, LoopOK, WordsInv, WordsOK, TypeOK,
     ListingTypeOK
<1>. QED
  BY <1>1, Invariance, PTL

\* As long as clientTCP has not taken a pause for the end of a listing, it reads a
\* result where the child has written one and names where it has written names, and at
\* its prompt nothing is left over; whatever directories, crashes and stops there are.
THEOREM InStep == Spec => []InStepUnlessEarly
<1>1. IInv => InStepUnlessEarly
  BY InvInStep DEF IInv
<1>. QED
  BY <1>1, Invariance, PTL

\* For every text and any words, in any order and with any failures between them, the
\* word service of server.c leaves a file's first text without all the occurrences of
\* some of the words.
THEOREM WordsOnly == Spec => []FilesLoseWordsOnly
<1>1. IInv => FilesLoseWordsOnly
  BY DEF IInv, ServiceInv, WordsInv
<1>. QED
  BY <1>1, Invariance, PTL

\* For every text and word, what the loop of server.c counts is the number of places
\* where the word stands in the file.
THEOREM CountRight == Spec => []CountIsRight
<1>1. IInv => CountIsRight
  BY WordsCounted DEF IInv
<1>. QED
  BY <1>1, Invariance, PTL
===============================================================================
