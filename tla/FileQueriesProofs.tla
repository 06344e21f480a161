--------------------------- MODULE FileQueriesProofs ---------------------------
(***************************************************************************)
(* Proofs about FileQueries, for all files and directories, any number of  *)
(* clients and of calls and any limit on descriptors: what the RPC program *)
(* of esercitazione7 shows its users is the answer to what they asked, and *)
(* what serverDatagram says, though it starts from its last result, is     *)
(* bounded by the words of the files.                                      *)
(***************************************************************************)
EXTENDS FileQueries, DataLemmas

-------------------------------------------------------------------------------
(***************************************************************************)
(* The loop of serverDatagram over a text: tmp counts the characters since *)
(* the last separator, max is start or the longest word that has ended.    *)
(***************************************************************************)
Written == Seq({Letter, Blank, Newline})
Lengths == Nat \cup {-1}

\* One turn of the loop.
Turn(s, c) ==
  IF c \notin Separators THEN [s EXCEPT !.tmp = @ + 1]
  ELSE [tmp |-> 0, max |-> IF s.max < s.tmp THEN s.tmp ELSE s.max]

LoopStates == [tmp : Nat, max : Lengths]

\* f is what the loop has after each of the first n characters.
IsLoop(f, text, start, n) ==
  f = [i \in 0..n |-> IF i = 0 THEN [tmp |-> 0, max |-> start] ELSE Turn(f[i - 1], text[i])]

LEMMA TurnType ==
  ASSUME NEW s \in LoopStates, NEW c
  PROVE  Turn(s, c) \in LoopStates
BY DEF LoopStates, Turn, Lengths

LEMMA LoopExists ==
  ASSUME NEW text \in Written, NEW start \in Lengths
  PROVE  \E f \in [0..Len(text) -> LoopStates] : IsLoop(f, text, start, Len(text))
<1>. DEFINE T == {n \in 0..Len(text) :
                    \E f \in [0..n -> LoopStates] : IsLoop(f, text, start, n)}
<1>1. Len(text) \in Nat
  BY DEF Written
<1>2. 0 \in T
  <2>. DEFINE f == [i \in 0..0 |-> [tmp |-> 0, max |-> start]]
  <2>1. f \in [0..0 -> LoopStates]
    BY DEF LoopStates
  <2>2. IsLoop(f, text, start, 0)
    BY DEF IsLoop
  <2>. HIDE DEF f
  <2>. QED
    BY <1>1, <2>1, <2>2
<1>3. ASSUME NEW n \in 0..(Len(text) - 1), n \in T PROVE n + 1 \in T
  <2>. HIDE DEF T
  <2>1. n \in Nat /\ n + 1 \in 0..Len(text)
    BY <1>1
  <2>2. PICK f \in [0..n -> LoopStates] : IsLoop(f, text, start, n)
    BY <1>3 DEF T
  <2>. DEFINE g == [i \in 0..(n + 1) |-> IF i = n + 1 THEN Turn(f[n], text[n + 1]) ELSE f[i]]
  <2>3. \A i \in 0..(n + 1) : i # n + 1 => i \in 0..n
    BY <2>1
  <2>4. g \in [0..(n + 1) -> LoopStates]
    <3>1. Turn(f[n], text[n + 1]) \in LoopStates
      BY <2>1, TurnType
    <3>. QED
      BY <2>3, <3>1
  <2>5. ASSUME NEW i \in 0..(n + 1)
        PROVE  g[i] = IF i = 0 THEN [tmp |-> 0, max |-> start] ELSE Turn(g[i - 1], text[i])
    <3>1. CASE i = n + 1
      BY <2>1, <3>1
    <3>2. CASE i # n + 1
      <4>1. i \in 0..n /\ g[i] = f[i]
        BY <2>3, <3>2
      <4>2. i # 0 => i - 1 \in 0..n /\ i - 1 \in 0..(n + 1) /\ i - 1 # n + 1 /\ g[i - 1] = f[i - 1]
        BY <2>1, <4>1
      <4>3. f[i] = IF i = 0 THEN [tmp |-> 0, max |-> start] ELSE Turn(f[i - 1], text[i])
        BY <2>2, <4>1 DEF IsLoop
      <4>. HIDE DEF g
      <4>. QED
        BY <4>1, <4>2, <4>3
    <3>. QED
      BY <3>1, <3>2
  <2>6. IsLoop(g, text, start, n + 1)
    <3>1. g = [i \in 0..(n + 1) |-> g[i]]
      OBVIOUS
    <3>. HIDE DEF g
    <3>. QED
      BY <2>5, <3>1 DEF IsLoop
  <2>. HIDE DEF g
  <2>. QED
    BY <2>1, <2>4, <2>6 DEF T
<1>. HIDE DEF T
<1>4. \A n \in 0..Len(text) : n \in T
  BY <1>1, <1>2, <1>3, InductionUpTo
<1>5. Len(text) \in T
  BY <1>1, <1>4
<1>. QED
  BY <1>5 DEF T

\* Scan is the last state of the loop.
LEMMA ScanIsLoop ==
  ASSUME NEW text \in Written, NEW start \in Lengths
  PROVE  \E f : IsLoop(f, text, start, Len(text)) /\ Scan(text, start) = f[Len(text)].max
<1>. DEFINE F == CHOOSE f : IsLoop(f, text, start, Len(text))
<1>1. Scan(text, start) = F[Len(text)].max
  BY DEF Scan, IsLoop, Turn
<1>2. \E f : IsLoop(f, text, start, Len(text))
  BY LoopExists
<1>3. IsLoop(F, text, start, Len(text))
  BY <1>2
<1>. QED
  BY <1>1, <1>3

\* The lengths of the words, empty ones too, that end before the separators among the
\* first n characters.
Ended(text, n) ==
  {k \in 0..n : \E i \in 0..(n - k - 1) :
     /\ text[i + k + 1] \in Separators
     /\ \A j \in (i + 1)..(i + k) : text[j] \notin Separators}

\* What the loop has after n characters.
Read(text, start, n, s) ==
  /\ s.tmp \in 0..n /\ s.max \in Lengths
  /\ \A j \in (n - s.tmp + 1)..n : text[j] \notin Separators
  /\ s.tmp # n => text[n - s.tmp] \in Separators
  /\ s.max \in {start} \cup Ended(text, n)
  /\ start <= s.max /\ \A k \in Ended(text, n) : k <= s.max

\* A word that ends with one more character ended before or ends there.
LEMMA EndedOnce ==
  ASSUME NEW text, NEW n \in Nat, NEW k
  PROVE  k \in Ended(text, n + 1) <=>
           \/ k \in Ended(text, n)
           \/ /\ k \in 0..n /\ text[n + 1] \in Separators
              /\ \A j \in (n - k + 1)..n : text[j] \notin Separators
<1>1. ASSUME k \in Ended(text, n + 1)
      PROVE  \/ k \in Ended(text, n)
             \/ /\ k \in 0..n /\ text[n + 1] \in Separators
                /\ \A j \in (n - k + 1)..n : text[j] \notin Separators
  <2>1. PICK i \in 0..((n + 1) - k - 1) :
          /\ text[i + k + 1] \in Separators
          /\ \A j \in (i + 1)..(i + k) : text[j] \notin Separators
    BY <1>1 DEF Ended
  <2>2. k \in 0..n
    BY <1>1, <2>1 DEF Ended
  <2>3. CASE i = n - k
    <3>1. i + k + 1 = n + 1 /\ i + 1 = n - k + 1 /\ i + k = n
      BY <2>2, <2>3
    <3>. QED
      BY <2>1, <2>2, <3>1
  <2>4. CASE i # n - k
    <3>1. i \in 0..(n - k - 1)
      BY <2>1, <2>2, <2>4
    <3>. QED
      BY <2>1, <2>2, <3>1 DEF Ended
  <2>. QED
    BY <2>3, <2>4
<1>2. ASSUME k \in Ended(text, n) PROVE k \in Ended(text, n + 1)
  <2>1. PICK i \in 0..(n - k - 1) :
          /\ text[i + k + 1] \in Separators
          /\ \A j \in (i + 1)..(i + k) : text[j] \notin Separators
    BY <1>2 DEF Ended
  <2>2. k \in 0..(n + 1) /\ i \in 0..((n + 1) - k - 1)
    BY <1>2, <2>1 DEF Ended
  <2>. QED
    BY <2>1, <2>2 DEF Ended
<1>3. ASSUME k \in 0..n, text[n + 1] \in Separators,
             \A j \in (n - k + 1)..n : text[j] \notin Separators
      PROVE  k \in Ended(text, n + 1)
  <2>. DEFINE i == n - k
  <2>1. /\ i \in 0..((n + 1) - k - 1) /\ k \in 0..(n + 1)
        /\ i + k + 1 = n + 1 /\ i + 1 = n - k + 1 /\ i + k = n
    BY <1>3
  <2>. HIDE DEF i
  <2>2. /\ text[i + k + 1] \in Separators
        /\ \A j \in (i + 1)..(i + k) : text[j] \notin Separators
    BY <1>3, <2>1
  <2>. QED
    BY <2>1, <2>2 DEF Ended
<1>. QED
  BY <1>1, <1>2, <1>3

LEMMA ReadTurn ==
  ASSUME NEW text, NEW start \in Lengths, NEW n \in Nat, NEW s \in LoopStates,
         Read(text, start, n, s)
  PROVE  Read(text, start, n + 1, Turn(s, text[n + 1]))
<1>. DEFINE c == text[n + 1]
            t == Turn(s, c)
<1>1. s.tmp \in 0..n /\ s.max \in Lengths /\ t \in LoopStates
  BY TurnType DEF Read
<1>2. CASE c \notin Separators
  <2>1. t.tmp = s.tmp + 1 /\ t.max = s.max
    BY <1>2 DEF Turn, LoopStates
  <2>2. Ended(text, n + 1) = Ended(text, n)
    BY <1>2, EndedOnce
  <2>3. /\ t.tmp \in 0..(n + 1) /\ (n + 1) - t.tmp = n - s.tmp
        /\ (n + 1) - t.tmp + 1 = n - s.tmp + 1
        /\ \A j \in (n - s.tmp + 1)..(n + 1) : j = n + 1 \/ j \in (n - s.tmp + 1)..n
        /\ t.tmp # n + 1 => s.tmp # n
    BY <1>1, <2>1
  <2>. HIDE DEF t
  <2>4. \A j \in ((n + 1) - t.tmp + 1)..(n + 1) : text[j] \notin Separators
    BY <1>2, <2>3 DEF Read
  <2>5. t.tmp # n + 1 => text[(n + 1) - t.tmp] \in Separators
    BY <2>3 DEF Read
  <2>. QED
    BY <1>1, <2>1, <2>2, <2>3, <2>4, <2>5 DEF Read, t
<1>3. CASE c \in Separators
  <2>1. t.tmp = 0 /\ t.max = IF s.max < s.tmp THEN s.tmp ELSE s.max
    BY <1>3 DEF Turn
  <2>. HIDE DEF t
  <2>2. s.tmp \in Ended(text, n + 1)
    BY <1>1, <1>3, EndedOnce DEF Read
  <2>3. ASSUME NEW k \in Ended(text, n + 1), k \notin Ended(text, n) PROVE k <= s.tmp
    <3>1. k \in 0..n /\ \A j \in (n - k + 1)..n : text[j] \notin Separators
      BY <2>3, EndedOnce
    <3>. SUFFICES ASSUME ~ (k <= s.tmp) PROVE FALSE
      OBVIOUS
    <3>2. s.tmp # n /\ n - s.tmp \in (n - k + 1)..n
      BY <1>1, <3>1
    <3>. QED
      BY <3>1, <3>2 DEF Read
  <2>4. Ended(text, n) \subseteq Ended(text, n + 1)
    BY EndedOnce
  <2>5. Ended(text, n + 1) \subseteq Nat
    BY DEF Ended
  <2>6. /\ t.max \in {start} \cup Ended(text, n + 1) /\ start <= t.max
        /\ t.max \in Lengths /\ s.max <= t.max /\ s.tmp <= t.max
    BY <1>1, <2>1, <2>2, <2>4 DEF Read, Lengths
  <2>7. ASSUME NEW k \in Ended(text, n + 1) PROVE k <= t.max
    <3>1. k <= s.max \/ k <= s.tmp
      BY <2>3 DEF Read
    <3>. QED
      BY <1>1, <2>5, <2>6, <3>1 DEF Lengths
  <2>8. /\ (n + 1) - t.tmp = n + 1 /\ ((n + 1) - t.tmp + 1)..(n + 1) = {}
        /\ t.tmp \in 0..(n + 1)
    BY <2>1
  <2>9. (t.tmp # n + 1 => text[(n + 1) - t.tmp] \in Separators)
    BY <1>3, <2>8
  <2>10. \A j \in ((n + 1) - t.tmp + 1)..(n + 1) : text[j] \notin Separators
    BY <2>8
  <2>. QED
    BY <2>6, <2>7, <2>8, <2>9, <2>10 DEF Read, t
<1>. QED
  BY <1>2, <1>3

\* Scan is start or the length of a word of the text, and no less than any of them.
LEMMA ScanReads ==
  ASSUME NEW text \in Written, NEW start \in Lengths
  PROVE  /\ Scan(text, start) \in {start} \cup Ended(text, Len(text))
         /\ Scan(text, start) \in Lengths /\ start <= Scan(text, start)
         /\ \A k \in Ended(text, Len(text)) : k <= Scan(text, start)
<1>1. Len(text) \in Nat
  BY DEF Written
<1>2. PICK f : IsLoop(f, text, start, Len(text)) /\ Scan(text, start) = f[Len(text)].max
  BY ScanIsLoop
<1>3. /\ f[0] = [tmp |-> 0, max |-> start]
      /\ \A i \in 0..(Len(text) - 1) : f[i + 1] = Turn(f[i], text[i + 1])
  <2>1. f[0] = [tmp |-> 0, max |-> start]
    BY <1>1, <1>2 DEF IsLoop
  <2>2. ASSUME NEW i \in 0..(Len(text) - 1) PROVE f[i + 1] = Turn(f[i], text[i + 1])
    <3>1. i + 1 \in 0..Len(text) /\ i + 1 # 0 /\ (i + 1) - 1 = i
      BY <1>1
    <3>. QED
      BY <1>2, <3>1 DEF IsLoop
  <2>. QED
    BY <2>1, <2>2
<1>. DEFINE T == {n \in 0..Len(text) : f[n] \in LoopStates /\ Read(text, start, n, f[n])}
<1>4. 0 \in T
  <2>1. f[0] \in LoopStates /\ f[0].tmp = 0 /\ f[0].max = start
    BY <1>3 DEF LoopStates
  <2>2. Ended(text, 0) = {}
    BY DEF Ended
  <2>3. Read(text, start, 0, f[0])
    BY <2>1, <2>2 DEF Read, Lengths
  <2>. QED
    BY <1>1, <2>1, <2>3
<1>5. ASSUME NEW n \in 0..(Len(text) - 1), n \in T PROVE n + 1 \in T
  <2>1. n \in Nat /\ n + 1 \in 0..Len(text)
    BY <1>1
  <2>2. f[n] \in LoopStates /\ Read(text, start, n, f[n]) /\ f[n + 1] = Turn(f[n], text[n + 1])
    BY <1>3, <1>5
  <2>3. Turn(f[n], text[n + 1]) \in LoopStates
    BY <2>2, TurnType
  <2>4. Read(text, start, n + 1, Turn(f[n], text[n + 1]))
    BY <2>1, <2>2, ReadTurn
  <2>. QED
    BY <2>1, <2>2, <2>3, <2>4
<1>. HIDE DEF T
<1>6. \A n \in 0..Len(text) : n \in T
  BY <1>1, <1>4, <1>5, InductionUpTo
<1>7. Read(text, start, Len(text), f[Len(text)])
  BY <1>1, <1>6 DEF T
<1>. QED
  BY <1>2, <1>7 DEF Read

\* Scan is start or the longest word, whichever is longer.
LEMMA ScanBounds ==
  ASSUME NEW text \in Written, NEW start \in Lengths
  PROVE  /\ Scan(text, start) \in {start, Longest(text)}
         /\ Longest(text) <= Scan(text, start) /\ Scan(text, start) \in Lengths
         /\ Longest(text) \in Lengths
<1>. DEFINE S == {-1} \cup Ended(text, Len(text))
            v == Scan(text, start)
<1>1. Longest(text) = Max(S)
  BY DEF Longest, Ended
<1>2. Len(text) \in Nat /\ S \subseteq Lengths
  BY DEF Written, Ended, Lengths
<1>3. \E x \in S : \A y \in S : x >= y
  <2>. DEFINE x == Scan(text, -1)
  <2>0. -1 \in Lengths
    BY DEF Lengths
  <2>1. x \in S /\ x \in Lengths /\ -1 <= x /\ \A k \in Ended(text, Len(text)) : k <= x
    BY <2>0, ScanReads
  <2>. HIDE DEF x
  <2>2. ASSUME NEW y \in S PROVE x >= y
    BY <1>2, <2>1 DEF Lengths
  <2>. QED
    BY <2>1, <2>2
<1>4. Max(S) \in S /\ \A y \in S : Max(S) >= y
  BY <1>3 DEF Max
<1>5. /\ v \in {start} \cup Ended(text, Len(text)) /\ v \in Lengths /\ start <= v
      /\ \A k \in Ended(text, Len(text)) : k <= v
  BY ScanReads
<1>. HIDE DEF v
<1>6. Max(S) \in Lengths /\ Max(S) <= v
  BY <1>2, <1>4, <1>5 DEF Lengths
<1>7. v \in {start, Max(S)}
  <2>1. CASE v = start
    BY <2>1
  <2>2. CASE v \in Ended(text, Len(text))
    <3>1. Max(S) >= v
      BY <1>4, <2>2
    <3>. QED
      BY <1>5, <1>6, <3>1 DEF Lengths
  <2>. QED
    BY <1>5, <2>1, <2>2
<1>. QED
  BY <1>1, <1>5, <1>6, <1>7 DEF v

-------------------------------------------------------------------------------
\* Calls sums the numbers of the calls, so none of them is greater.
LEMMA CallsBound ==
  ASSUME calls \in [Clients -> Nat]
  PROVE  Calls \in Nat /\ \A c \in Clients : calls[c] <= Calls
<1>. DEFINE F == CHOOSE f : IsSum(f, calls, SUBSET Clients)
            T == {s \in SUBSET Clients : F[s] \in Nat /\ \A c \in s : calls[c] <= F[s]}
<1>1. IsFiniteSet(Clients) /\ DOMAIN calls = Clients /\ Values(calls, Clients)
  BY ClientsAssumption DEF Values
<1>2. Calls = F[Clients]
  <2>1. Calls = (CHOOSE f : f = [s \in SUBSET (DOMAIN calls) |->
           IF s = {} THEN 0
           ELSE calls[CHOOSE x \in s : TRUE] + f[s \ {CHOOSE x \in s : TRUE}]])[DOMAIN calls]
    BY DEF Calls, FoldFunction, FoldFunctionOnSet, MapThenFoldSet
  <2>. QED
    BY <1>1, <2>1 DEF IsSum
<1>3. IsSum(F, calls, SUBSET Clients)
  <2>1. \E f : IsSum(f, calls, SUBSET Clients)
    BY <1>1, SumExists
  <2>. QED
    BY <2>1
<1>. HIDE DEF F
<1>4. {} \in T
  BY <1>3 DEF IsSum
<1>5. ASSUME NEW s \in SUBSET Clients, s # {}, \A x \in s : s \ {x} \in T PROVE s \in T
  <2>1. PICK x \in s : F[s] = calls[x] + F[s \ {x}]
    <3>1. (CHOOSE x \in s : TRUE) \in s
      BY <1>5
    <3>. QED
      BY <1>3, <1>5, <3>1 DEF IsSum
  <2>2. F[s \ {x}] \in Nat /\ \A c \in s \ {x} : calls[c] <= F[s \ {x}]
    BY <1>5, <2>1
  <2>3. \A c \in s : calls[c] \in Nat
    OBVIOUS
  <2>4. F[s] \in Nat
    BY <2>1, <2>2, <2>3
  <2>5. ASSUME NEW c \in s PROVE calls[c] <= F[s]
    <3>1. CASE c = x
      BY <2>1, <2>2, <2>3, <3>1
    <3>2. CASE c # x
      <4>1. calls[c] <= F[s \ {x}] /\ calls[c] \in Nat /\ calls[x] \in Nat
        BY <2>1, <2>2, <2>3, <2>5, <3>2
      <4>. QED
        BY <2>1, <2>2, <4>1
    <3>. QED
      BY <3>1, <3>2
  <2>. QED
    BY <2>4, <2>5
<1>. HIDE DEF T
<1>6. SUBSET Clients \subseteq T
  BY <1>1, <1>4, <1>5, SmallInduction
<1>7. Clients \in T
  BY <1>6
<1>. QED
  BY <1>2, <1>7 DEF T

-------------------------------------------------------------------------------
(***************************************************************************)
(* The inductive invariant.                                                *)
(***************************************************************************)
Messages == requests \cup replies

\* What the results of serverDatagram can be.
Results == {Longest(Texts[x]) : x \in DOMAIN Texts} \cup {0, -1}

\* What an answer to a may say in the program p.
Fits(p, a, body) ==
  IF p = "scan" THEN body = Right(a)
  ELSE IF IsText(a.name) THEN body[1] >= Longest(Texts[a.name]) /\ body[1] \in Results
  ELSE body[1] = -1

\* A message belongs to a call that was made; if that is the last call of its client,
\* the message asks, or answers, what that call asks.
Own(m) ==
  /\ m.client \in Clients /\ m.xid \in 1..MaxCalls /\ m.ask \in Asks(program)
  /\ m.xid <= calls[m.client]
  /\ m.xid = calls[m.client] => m.ask = ask[m.client]

\* The clients' variables are functions of the clients.
Functional ==
  /\ program \in {"word", "scan"}
  /\ cpc \in [Clients -> {"off", "prompt", "call"}]
  /\ calls \in [Clients -> 0..MaxCalls]
  /\ ask \in [Clients -> AllAsks]
  /\ answer = [c \in Clients |-> answer[c]]

AllOwn == \A m \in Messages : Own(m)

\* Requests are records, and answers are numbers.
Forms ==
  /\ requests \subseteq [client : Clients, xid : 1..MaxCalls, ask : AllAsks]
  /\ \A r \in replies : Body(r)
  /\ \A c \in Clients : answer[c] = None \/ Body(answer[c])

\* Two messages of one call are about one question, however often it was sent.
CallsAgree ==
  \A m, n \in Messages : m.client = n.client /\ m.xid = n.xid => m.ask = n.ask

RepliesFit == \A r \in replies : ~r.lack => Fits(program, r.ask, r.body)

AnswersFit == \A c \in Clients : ~answer[c].lack => Fits(program, ask[c], answer[c].body)

Waiting == \A c \in Clients : cpc[c] = "call" => ask[c] \in Asks(program) /\ calls[c] >= 1

\* The descriptors, and the variable result, which in any case is a length.
ServerOK == fds \in 0..MaxFds /\ result \in Results

Inv ==
  /\ Functional /\ AllOwn /\ Forms /\ CallsAgree /\ Waiting
  /\ RepliesFit /\ AnswersFit /\ ServerOK

LEMMA NatBound == MaxCalls \in Nat /\ MaxFds \in Nat
BY BoundsAssumption

LEMMA InitInv == Init => Inv
<1>. SUFFICES ASSUME Init PROVE Inv
  OBVIOUS
<1>1. \E a \in Asks("word") : TRUE
  <2>1. PICK n \in Names : ~IsDir(n)
    BY NamesAssumption
  <2>2. [op |-> "word", name |-> n, size |-> 0] \in Asks("word")
    BY <2>1 DEF Asks
  <2>. QED
    BY <2>2
<1>2. ask \in [Clients -> AllAsks]
  BY <1>1 DEF Init, AllAsks
<1>3. Functional
  BY <1>2, NatBound DEF Init, Functional
<1>4. AllOwn /\ Forms /\ CallsAgree /\ Waiting /\ RepliesFit
  BY DEF Init, AllOwn, Forms, CallsAgree, Waiting, RepliesFit, Messages
<1>5. AnswersFit
  BY DEF Init, AnswersFit, None
<1>6. ServerOK
  BY NatBound DEF Init, ServerOK, Results
<1>. QED
  BY <1>3, <1>4, <1>5, <1>6 DEF Inv

-------------------------------------------------------------------------------
LEMMA AskTypes ==
  ASSUME NEW a \in Asks("scan")
  PROVE  /\ a.op \in {"file", "dir"}
         /\ a.op = "file" => ~IsDir(a.name)
         /\ a.op = "dir" => ~IsText(a.name)
BY DEF Asks

LEMMA WordAsks ==
  ASSUME NEW a \in Asks("word")
  PROVE  a.op = "word" /\ ~IsDir(a.name)
BY DEF Asks

LEMMA TextTypes ==
  ASSUME NEW n, IsText(n)
  PROVE  n \in DOMAIN Texts /\ Texts[n] \in Written
BY DiskAssumption DEF IsText, Written

\* The results are lengths.
LEMMA ResultsAreLengths == Results \subseteq Lengths
<1>1. -1 \in Lengths /\ 0 \in Lengths
  BY DEF Lengths
<1>2. ASSUME NEW x \in DOMAIN Texts PROVE Longest(Texts[x]) \in Lengths
  <2>1. Texts[x] \in Written
    BY TextTypes DEF IsText
  <2>. QED
    BY <1>1, <2>1, ScanBounds
<1>. QED
  BY <1>1, <1>2 DEF Results

\* Three naturals.
LEMMA CountsType ==
  ASSUME NEW text \in Written
  PROVE  Counts(text) \in [1..3 -> Nat]
<1>. DEFINE number(chars) == Cardinality({i \in DOMAIN text : text[i] \in chars})
<1>1. Len(text) \in Nat /\ DOMAIN text = 1..Len(text)
  BY DEF Written
<1>2. ASSUME NEW chars PROVE number(chars) \in Nat
  <2>. DEFINE S == {i \in DOMAIN text : text[i] \in chars}
  <2>1. IsFiniteSet(1..Len(text))
    BY <1>1, FS_Interval
  <2>2. S \in SUBSET (1..Len(text))
    BY <1>1
  <2>. HIDE DEF S
  <2>3. Cardinality(S) \in Nat
    BY <2>1, <2>2, FS_Subset, FS_CardinalityType
  <2>. QED
    BY <2>3 DEF S
<1>3. Counts(text) = <<Len(text), number(Separators), number({Newline})>>
  BY DEF Counts
<1>4. number(Separators) \in Nat /\ number({Newline}) \in Nat
  BY <1>2
<1>. HIDE DEF number
<1>. QED
  BY <1>1, <1>3, <1>4

\* Descriptors are leaked up to the limit.
LEMMA LeakBound ==
  ASSUME NEW n \in Nat, fds \in 0..MaxFds, Leak(n)
  PROVE  fds' \in 0..MaxFds
<1>. DEFINE S == {fds + n, MaxFds}
<1>1. fds + n \in Nat /\ MaxFds \in Nat
  BY NatBound
<1>2. \E x \in S : \A y \in S : x =< y
  BY <1>1
<1>. HIDE DEF S
<1>3. Min(S) \in S /\ \A y \in S : Min(S) =< y
  BY <1>2 DEF Min
<1>. QED
  BY <1>1, <1>3 DEF S, Leak

Says(m, body, lack) ==
  /\ Answer(m, body, lack)
  /\ ~lack => Fits(program, m.ask, body)
  /\ \E n \in {1, 3} : body \in [1..n -> Nat \cup {-1}]

\* What the server says fits the question, if it had the descriptors.
LEMMA WordServed ==
  ASSUME NEW m \in requests, m.ask \in Asks(program), program \in {"word", "scan"},
         ServerOK, ServeWord(m)
  PROVE  ServerOK' /\ \E body, lack : Says(m, body, lack)
<1>. DEFINE n == m.ask.name
<1>1. program = "word"
  BY AskTypes DEF ServeWord, Serve
<1>2. Answer(m, <<result'>>, IsText(n) /\ fds = MaxFds)
  BY DEF ServeWord
<1>3. fds \in Nat /\ fds <= MaxFds /\ MaxFds \in Nat
  BY NatBound DEF ServerOK
<1>4. \A x \in Lengths : <<x>> \in [1..1 -> Nat \cup {-1}] /\ <<x>>[1] = x
  BY DEF Lengths
<1>5. CASE IsText(n) /\ fds < MaxFds
  <2>. DEFINE s == Scan(Texts[n], result)
  <2>1. result' = s /\ Leak(1)
    BY <1>5 DEF ServeWord
  <2>2. Texts[n] \in Written /\ n \in DOMAIN Texts /\ result \in Lengths
    BY <1>5, TextTypes, ResultsAreLengths DEF ServerOK
  <2>3. s \in {result, Longest(Texts[n])} /\ Longest(Texts[n]) <= s
        /\ s \in Lengths /\ Longest(Texts[n]) \in Lengths
    BY <2>2, ScanBounds
  <2>. HIDE DEF s
  <2>4. s \in Results
    BY <2>2, <2>3 DEF ServerOK, Results
  <2>5. s >= Longest(Texts[n])
    BY <2>3 DEF Lengths
  <2>6. Fits(program, m.ask, <<s>>)
    BY <1>1, <1>4, <1>5, <2>3, <2>4, <2>5 DEF Fits
  <2>7. Says(m, <<result'>>, IsText(n) /\ fds = MaxFds)
    BY <1>2, <1>4, <2>1, <2>3, <2>6 DEF Says
  <2>8. fds' \in 0..MaxFds
    BY <2>1, LeakBound DEF ServerOK
  <2>. QED
    BY <2>1, <2>4, <2>7, <2>8 DEF ServerOK
<1>6. CASE ~ (IsText(n) /\ fds < MaxFds)
  <2>1. result' = -1 /\ UNCHANGED fds
    BY <1>6 DEF ServeWord
  <2>2. -1 \in Lengths /\ -1 \in Results
    BY DEF Lengths, Results
  <2>3. ~ (IsText(n) /\ fds = MaxFds) => Fits(program, m.ask, <<-1>>)
    BY <1>1, <1>3, <1>6 DEF Fits
  <2>4. Says(m, <<result'>>, IsText(n) /\ fds = MaxFds)
    BY <1>2, <1>4, <2>1, <2>2, <2>3 DEF Says
  <2>. QED
    BY <2>1, <2>2, <2>4 DEF ServerOK
<1>. QED
  BY <1>5, <1>6

LEMMA FileServed ==
  ASSUME NEW m \in requests, m.ask \in Asks(program), program \in {"word", "scan"},
         ServerOK, Contafile(m)
  PROVE  ServerOK' /\ \E body, lack : Says(m, body, lack)
<1>. DEFINE n == m.ask.name
<1>1. program = "scan" /\ m.ask.op = "file" /\ ~IsDir(n)
  BY WordAsks, AskTypes DEF Contafile, Serve
<1>2. ServerOK'
  BY DEF Contafile, ServerOK
<1>3. CASE IsText(n) /\ fds < MaxFds
  <2>1. Answer(m, Counts(Texts[n]), FALSE)
    BY <1>3 DEF Contafile
  <2>2. Counts(Texts[n]) \in [1..3 -> Nat \cup {-1}]
    <3>1. Counts(Texts[n]) \in [1..3 -> Nat]
      BY <1>3, TextTypes, CountsType
    <3>. HIDE DEF n
    <3>. QED
      BY <3>1
  <2>3. Fits(program, m.ask, Counts(Texts[n]))
    BY <1>1, <1>3 DEF Fits, Right
  <2>. HIDE DEF n
  <2>. QED
    BY <1>2, <2>1, <2>2, <2>3 DEF Says
<1>4. CASE ~ (IsText(n) /\ fds < MaxFds)
  <2>1. Answer(m, Refused("file"), IsText(n))
    BY <1>4 DEF Contafile
  <2>2. Refused("file") \in [1..3 -> Nat \cup {-1}]
    BY DEF Refused
  <2>3. ~IsText(n) => Fits(program, m.ask, Refused("file"))
    BY <1>1 DEF Fits, Right
  <2>. QED
    BY <1>2, <2>1, <2>2, <2>3 DEF Says
<1>. QED
  BY <1>3, <1>4

LEMMA DirServed ==
  ASSUME NEW m \in requests, m.ask \in Asks(program), program \in {"word", "scan"},
         ServerOK, Contadir(m)
  PROVE  ServerOK' /\ \E body, lack : Says(m, body, lack)
<1>. DEFINE n == m.ask.name
            counted == IF LongEnough(m.ask.size) THEN Dirs[n] ELSE 0
            enough == fds + 3 < MaxFds
<1>1. program = "scan" /\ m.ask.op = "dir" /\ ~IsText(n)
  BY WordAsks, AskTypes DEF Contadir, Serve
<1>2. result' = result
  BY DEF Contadir
<1>3. CASE IsDir(n) /\ fds < MaxFds
  <2>1. PICK k \in 0..counted : (enough => k = counted) /\ Answer(m, <<k>>, ~enough)
    BY <1>3 DEF Contadir
  <2>2. Leak(3)
    BY <1>3 DEF Contadir
  <2>3. counted \in Nat
    BY <1>3, DiskAssumption DEF IsDir
  <2>4. Right(m.ask) = <<counted>>
    BY <1>1, <1>3 DEF Right, LongEnough
  <2>. HIDE DEF counted, enough
  <2>5. <<k>> \in [1..1 -> Nat \cup {-1}]
    BY <2>1, <2>3
  <2>6. Says(m, <<k>>, ~enough)
    BY <1>1, <2>1, <2>4, <2>5 DEF Says, Fits
  <2>7. fds' \in 0..MaxFds
    BY <2>2, LeakBound DEF ServerOK
  <2>. QED
    BY <1>2, <2>6, <2>7 DEF ServerOK
<1>4. CASE ~ (IsDir(n) /\ fds < MaxFds)
  <2>1. Answer(m, Refused("dir"), IsDir(n)) /\ UNCHANGED fds
    BY <1>4 DEF Contadir
  <2>2. Refused("dir") \in [1..1 -> Nat \cup {-1}]
    BY DEF Refused
  <2>3. ~IsDir(n) => Fits(program, m.ask, Refused("dir"))
    BY <1>1 DEF Fits, Right
  <2>4. Says(m, Refused("dir"), IsDir(n))
    BY <2>1, <2>2, <2>3 DEF Says
  <2>. QED
    BY <1>2, <2>1, <2>4 DEF ServerOK
<1>. QED
  BY <1>3, <1>4

\* The server turns a request into an answer that fits it.
LEMMA ServerStep ==
  ASSUME Inv, NEW m \in requests, Server(m)
  PROVE  Inv'
<1>. USE DEF Inv
<1>1. Own(m) /\ m \in Messages
  BY DEF AllOwn, Messages
<1>2. PICK body, lack : Says(m, body, lack)
  BY <1>1, WordServed, FileServed, DirServed DEF Own, Functional, Server
<1>2a. ServerOK'
  BY <1>1, WordServed, FileServed, DirServed DEF Own, Functional, Server
<1>. DEFINE new == [client |-> m.client, xid |-> m.xid, ask |-> m.ask, body |-> body, lack |-> lack]
<1>3. replies' = replies \cup {new}
  BY <1>2 DEF Says, Answer
<1>4. requests' \subseteq requests /\ UNCHANGED <<program, clientVars>>
  BY DEF Server, ServeWord, Contafile, Contadir, Serve
<1>5. /\ new.client = m.client /\ new.xid = m.xid /\ new.ask = m.ask
      /\ ~new.lack => Fits(program, new.ask, new.body)
      /\ Body(new)
  BY <1>2 DEF Says, Body
<1>. HIDE DEF new
<1>6. Messages' \subseteq Messages \cup {new}
  BY <1>3, <1>4 DEF Messages
<1>7. AllOwn'
  <2>1. ASSUME NEW x \in Messages \cup {new} PROVE Own(x)
    BY <1>1, <1>5 DEF AllOwn, Own
  <2>. QED
    BY <2>1, <1>4, <1>6 DEF AllOwn, Own, clientVars
<1>8. CallsAgree'
  BY <1>1, <1>5, <1>6 DEF CallsAgree
<1>9. RepliesFit'
  BY <1>3, <1>4, <1>5 DEF RepliesFit
<1>10. (Functional /\ Waiting /\ AnswersFit)'
  BY <1>4 DEF Functional, Waiting, AnswersFit, clientVars
<1>11. Forms'
  BY <1>3, <1>4, <1>5 DEF Forms, Body, clientVars
<1>. QED
  BY <1>2a, <1>7, <1>8, <1>9, <1>10, <1>11

\* A message is lost, or the server is started again.
LEMMA LossStep ==
  ASSUME Inv, Restart \/ Lose
  PROVE  Inv'
<1>1. requests' \subseteq requests /\ replies' \subseteq replies /\ UNCHANGED <<program, clientVars>>
  BY DEF Restart, Lose
<1>2. Messages' \subseteq Messages
  BY <1>1 DEF Messages
<1>3. ServerOK'
  BY NatBound DEF Inv, ServerOK, Restart, Lose, Results
<1>4. (AllOwn /\ CallsAgree /\ RepliesFit)'
  BY <1>1, <1>2 DEF Inv, AllOwn, CallsAgree, RepliesFit, Own, clientVars
<1>5. (Functional /\ Waiting /\ AnswersFit /\ Forms)'
  BY <1>1 DEF Inv, Functional, Waiting, AnswersFit, Forms, clientVars, Body
<1>. QED
  BY <1>3, <1>4, <1>5 DEF Inv

\* A client starts, or ends with nothing shown.
LEMMA LeaveStep ==
  ASSUME Inv, NEW c \in Clients, Start(c) \/ Expire(c) \/ Ends(c)
  PROVE  Inv'
<1>. USE DEF Inv
<1>1. /\ UNCHANGED <<program, calls, ask, requests, replies, fds, result>>
      /\ \E to \in {"off", "prompt"} : cpc' = [cpc EXCEPT ![c] = to]
      /\ UNCHANGED answer \/ answer' = [answer EXCEPT ![c] = None]
  BY DEF Start, Expire, Ends, Leaves, Goto
<1>2. (AllOwn /\ CallsAgree /\ RepliesFit /\ ServerOK)'
  BY <1>1 DEF AllOwn, CallsAgree, RepliesFit, Own, Messages, ServerOK
<1>3. Functional' /\ Waiting'
  BY <1>1 DEF Functional, Waiting
<1>4. AnswersFit'
  BY <1>1 DEF Functional, AnswersFit, None
<1>5. Forms'
  BY <1>1 DEF Functional, Forms, Body
<1>. QED
  BY <1>2, <1>3, <1>4, <1>5

\* The client makes a call: nothing on its way has the number that it takes.
LEMMA CallStep ==
  ASSUME Inv, NEW c \in Clients, Call(c)
  PROVE  Inv'
<1>. USE DEF Inv
<1>0. PICK new : new = Request(c)'
  OBVIOUS
<1>1. PICK a \in Asks(program) : ask' = [ask EXCEPT ![c] = a]
  BY DEF Call
<1>2. /\ calls' = [calls EXCEPT ![c] = calls[c] + 1] /\ cpc' = [cpc EXCEPT ![c] = "call"]
      /\ requests' = requests \cup {new} /\ answer' = [answer EXCEPT ![c] = None]
      /\ UNCHANGED <<program, replies, fds, result>>
  BY <1>0 DEF Call, Goto
<1>3. /\ calls[c] \in Nat /\ calls'[c] = calls[c] + 1 /\ ask'[c] = a /\ a \in AllAsks
      /\ calls[c] + 1 \in 1..MaxCalls
  <2>1. \A n \in 0..MaxCalls : n \in Nat
    BY NatBound
  <2>2. calls \in [Clients -> Nat]
    BY <2>1 DEF Functional
  <2>3. calls[c] <= Calls /\ Calls \in Nat /\ Calls < MaxCalls
    BY <2>2, CallsBound DEF Call
  <2>4. calls[c] \in Nat /\ calls[c] + 1 \in 1..MaxCalls
    BY <2>2, <2>3, NatBound
  <2>5. a \in AllAsks
    BY DEF Functional, AllAsks
  <2>. QED
    BY <1>1, <1>2, <2>4, <2>5 DEF Functional
<1>4. /\ new.client = c /\ new.xid = calls[c] + 1 /\ new.ask = a
      /\ new = [client |-> c, xid |-> calls[c] + 1, ask |-> a]
  BY <1>0, <1>3 DEF Request
<1>5. \A x \in Messages : x.client = c => x.xid < calls[c] + 1
  BY <1>3 DEF AllOwn, Own
<1>6. Messages' = Messages \cup {new}
  BY <1>2 DEF Messages
<1>7. AllOwn'
  <2>1. ASSUME NEW x \in Messages PROVE Own(x)'
    <3>1. Own(x)
      BY DEF AllOwn
    <3>2. CASE x.client = c
      BY <1>2, <1>3, <1>5, <3>1, <3>2 DEF Own
    <3>3. CASE x.client # c
      BY <1>1, <1>2, <3>1, <3>3 DEF Own, Functional
    <3>. QED
      BY <3>2, <3>3
  <2>2. Own(new)'
    BY <1>1, <1>2, <1>3, <1>4 DEF Own
  <2>3. \A x \in Messages' : Own(x)'
    BY <1>6, <2>1, <2>2
  <2>. QED
    BY <2>3 DEF AllOwn
<1>8. CallsAgree'
  BY <1>3, <1>4, <1>5, <1>6 DEF CallsAgree
<1>9. Functional' /\ Waiting'
  <2>1. calls' \in [Clients -> 0..MaxCalls]
    BY <1>2, <1>3 DEF Functional
  <2>2. ask' \in [Clients -> AllAsks]
    BY <1>1, <1>3 DEF Functional
  <2>3. answer' = [d \in Clients |-> answer'[d]] /\ cpc' \in [Clients -> {"off", "prompt", "call"}]
    BY <1>2 DEF Functional
  <2>4. Waiting'
    BY <1>1, <1>2, <1>3 DEF Functional, Waiting
  <2>. QED
    BY <1>2, <2>1, <2>2, <2>3, <2>4 DEF Functional
<1>10. RepliesFit' /\ AnswersFit'
  BY <1>1, <1>2 DEF RepliesFit, AnswersFit, Functional, None
<1>11. Forms'
  <2>1. new \in [client : Clients, xid : 1..MaxCalls, ask : AllAsks]
    BY <1>3, <1>4
  <2>2. requests' \subseteq [client : Clients, xid : 1..MaxCalls, ask : AllAsks]
    BY <1>2, <2>1 DEF Forms
  <2>3. \A d \in Clients : answer'[d] = None \/ answer'[d] = answer[d]
    BY <1>2 DEF Functional
  <2>4. \A d \in Clients : answer'[d] = None \/ Body(answer'[d])
    BY <2>3 DEF Forms
  <2>. QED
    BY <1>2, <2>2, <2>4 DEF Forms, Body
<1>12. ServerOK'
  BY <1>2 DEF ServerOK
<1>. QED
  BY <1>7, <1>8, <1>9, <1>10, <1>11, <1>12

\* A call is sent again: it asks what it asked before.
LEMMA ResendStep ==
  ASSUME Inv, NEW c \in Clients, Resend(c)
  PROVE  Inv'
<1>. USE DEF Inv
<1>. DEFINE new == Request(c)
<1>1. /\ requests' = requests \cup {new} /\ cpc[c] = "call"
      /\ UNCHANGED <<program, clientVars, replies, fds, result>>
  BY DEF Resend
<1>2. /\ new.client = c /\ new.xid = calls[c] /\ new.ask = ask[c]
      /\ new = [client |-> c, xid |-> calls[c], ask |-> ask[c]]
  BY DEF Request
<1>. HIDE DEF new
<1>3. Messages' = Messages \cup {new}
  BY <1>1 DEF Messages
<1>3a. calls[c] \in 1..MaxCalls /\ ask[c] \in AllAsks
  BY <1>1, NatBound DEF Functional, Waiting
<1>4. Own(new)
  BY <1>1, <1>2, <1>3a DEF Own, Waiting, Functional
<1>5. AllOwn'
  BY <1>1, <1>3, <1>4 DEF AllOwn, Own, clientVars
<1>6. CallsAgree'
  BY <1>2, <1>3 DEF CallsAgree, AllOwn, Own
<1>7. (Functional /\ Waiting /\ RepliesFit /\ AnswersFit /\ ServerOK)'
  BY <1>1 DEF Functional, Waiting, RepliesFit, AnswersFit, ServerOK, clientVars
<1>8. Forms'
  <2>1. new \in [client : Clients, xid : 1..MaxCalls, ask : AllAsks]
    BY <1>2, <1>3a
  <2>. QED
    BY <1>1, <2>1 DEF Forms, Body, clientVars
<1>. QED
  BY <1>5, <1>6, <1>7, <1>8

\* An answer is taken only if it has the number of the last call.
LEMMA TakeStep ==
  ASSUME Inv, NEW c \in Clients, NEW r \in replies, Take(c, r)
  PROVE  Inv'
<1>. USE DEF Inv
<1>. DEFINE seen == [body |-> r.body, lack |-> r.lack]
<1>1. /\ answer' = [answer EXCEPT ![c] = seen]
      /\ cpc' = [cpc EXCEPT ![c] = "prompt"] /\ replies' \subseteq replies
      /\ UNCHANGED <<program, calls, ask, requests, fds, result>>
  BY DEF Take, Goto
<1>2. r.ask = ask[c] /\ (~r.lack => Fits(program, r.ask, r.body)) /\ Body(r)
  BY DEF Take, AllOwn, Own, RepliesFit, Messages, Forms
<1>2a. seen.body = r.body /\ seen.lack = r.lack /\ Body(seen)
  BY <1>2 DEF Body
<1>. HIDE DEF seen
<1>3. AnswersFit'
  BY <1>1, <1>2, <1>2a DEF AnswersFit, Functional
<1>4. Functional' /\ Waiting'
  BY <1>1 DEF Functional, Waiting
<1>5. (AllOwn /\ CallsAgree /\ RepliesFit /\ ServerOK)'
  BY <1>1 DEF AllOwn, CallsAgree, RepliesFit, Own, Messages, ServerOK
<1>6. Forms'
  <2>1. \A d \in Clients : answer'[d] = seen \/ answer'[d] = answer[d]
    BY <1>1 DEF Functional
  <2>2. \A d \in Clients : answer'[d] = None \/ Body(answer'[d])
    BY <1>2a, <2>1 DEF Forms
  <2>. QED
    BY <1>1, <2>2 DEF Forms, Body
<1>. QED
  BY <1>1, <1>3, <1>4, <1>5, <1>6

LEMMA NextInv == Inv /\ [Next]_vars => Inv'
<1>. SUFFICES ASSUME Inv, [Next]_vars PROVE Inv'
  OBVIOUS
<1>1. CASE UNCHANGED vars
  BY <1>1 DEF vars, clientVars, Inv, AllOwn, Forms, Body, CallsAgree, RepliesFit, Own, Messages,
              Functional, Waiting, AnswersFit, ServerOK
<1>. QED
  BY <1>1, ServerStep, LossStep, LeaveStep, CallStep, ResendStep, TakeStep DEF Next

-------------------------------------------------------------------------------
\* The invariant, for both programs.
THEOREM Invariance == Spec => []Inv
BY InitInv, NextInv, PTL DEF Spec

\* Every variable has its type: calls are counted up to their bound, what is on its way
\* are questions and numbers, and descriptors are never more than there are.
THEOREM TypeCorrect == Spec => []TypeOK
<1>1. Inv => TypeOK
  <2>. SUFFICES ASSUME Inv PROVE TypeOK
    OBVIOUS
  <2>1. \A r \in replies : r.client \in Clients /\ r.xid \in 1..MaxCalls /\ Body(r)
    BY DEF Inv, AllOwn, Own, Messages, Forms
  <2>2. result \in Nat \cup {-1}
    BY ResultsAreLengths DEF Inv, ServerOK, Lengths
  <2>. QED
    BY <2>1, <2>2 DEF Inv, Functional, Forms, ServerOK, TypeOK
<1>. QED
  BY Invariance, <1>1, PTL

\* However datagrams are lost, delayed, reordered and repeated, and whenever the server
\* is started again, a user of client.c sees the answer to the last question.
THEOREM AnswersAreRight == Spec => []AnswerRight
<1>1. Inv => AnswerRight
  BY DEF Inv, AnswersFit, Fits, AnswerRight, Shown
<1>. QED
  BY Invariance, <1>1, PTL

\* A procedure that is executed again for a repeated request says the same again.
THEOREM RepeatedCallsAgree == Spec => []RepeatsAgree
<1>1. Inv => RepeatsAgree
  BY DEF Inv, RepliesFit, Fits, CallsAgree, Messages, RepeatsAgree
<1>. QED
  BY Invariance, <1>1, PTL

\* Whatever requests were served before, and whatever they left in result: what a user of
\* clientDatagram sees is no less than the longest word of the file, and is the length of
\* some file's longest word, 0, or -1; it is -1 for a file that is not there.
THEOREM WordsBounded == Spec => []WordBounds
<1>1. Inv => WordBounds
  BY DEF Inv, AnswersFit, Fits, Results, WordBounds, Shown
<1>. QED
  BY Invariance, <1>1, PTL
===============================================================================
