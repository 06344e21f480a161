------------------------------ MODULE VotesProofs ------------------------------
(***************************************************************************)
(* Proofs about Votes, for every set of clients, every table of judges and *)
(* any number of calls: whoever waits for a ranking gets a ranking, a vote *)
(* counts once, variables keep their types and what is sent is in order.   *)
(***************************************************************************)
EXTENDS Votes, DataLemmas

-------------------------------------------------------------------------------
(***************************************************************************)
(* One connection: its requests q, its answers a, the number n of the last *)
(* call, and whether that call is a ranking that is waited for.            *)
(***************************************************************************)
Message == [xid : Nat \ {0}, call : Votes \cup {Rank}]

\* A sequence, whatever its elements are: the bodies of answers have no type here.
IsSequence(a) == a \in Seq({a[i] : i \in DOMAIN a})

\* Requests are numbered upwards, answers are to requests before those that are
\* still on their way, and none has a number that is not given yet.
Numbered(q, a, n) ==
  /\ n \in Nat
  /\ q \in Seq(Message)
  /\ IsSequence(a)
  /\ \A i \in DOMAIN q : q[i].xid <= n
  /\ \A i, j \in DOMAIN q : i < j => q[i].xid < q[j].xid
  /\ \A j \in DOMAIN a : a[j].xid \in Nat /\ a[j].xid <= n
  /\ \A j \in DOMAIN a, i \in DOMAIN q : a[j].xid < q[i].xid

\* What carries the number of a ranking is the request or the answer of a ranking.
OfRanking(q, a, n) ==
  /\ \A i \in DOMAIN q : q[i].xid = n => q[i].call = Rank
  /\ \A j \in DOMAIN a : a[j].xid = n => a[j].body # <<>>

LEMMA SequenceOfSome ==
  ASSUME NEW S, NEW b \in Seq(S)
  PROVE  IsSequence(b)
<1>. DEFINE T == {b[i] : i \in DOMAIN b}
<1>1. DOMAIN b = 1..Len(b) /\ Len(b) \in Nat /\ b \in [1..Len(b) -> S]
  OBVIOUS
<1>2. b \in [1..Len(b) -> T]
  BY <1>1
<1>3. b \in Seq(T)
  <2>. HIDE DEF T
  <2>. QED
    BY <1>1, <1>2, SeqDef
<1>. QED
  BY <1>3 DEF IsSequence

LEMMA AppendSequence ==
  ASSUME NEW a, IsSequence(a), NEW e
  PROVE  /\ IsSequence(Append(a, e))
         /\ DOMAIN Append(a, e) = 1..(Len(a) + 1)
         /\ \A i \in 1..Len(a) : Append(a, e)[i] = a[i]
         /\ Append(a, e)[Len(a) + 1] = e
         /\ DOMAIN a = 1..Len(a) /\ Len(a) \in Nat
<1>. DEFINE S == {a[i] : i \in DOMAIN a} \cup {e}
<1>1. a \in Seq(S) /\ e \in S
  BY DEF IsSequence
<1>2. /\ Append(a, e) \in Seq(S)
      /\ Len(Append(a, e)) = Len(a) + 1
      /\ \A i \in 1..Len(a) : Append(a, e)[i] = a[i]
      /\ Append(a, e)[Len(a) + 1] = e
  <2>. HIDE DEF S
  <2>. QED
    BY <1>1, AppendProperties
<1>3. IsSequence(Append(a, e))
  <2>. HIDE DEF S
  <2>. QED
    BY <1>2, SequenceOfSome
<1>. QED
  BY <1>1, <1>2, <1>3

LEMMA TailSequence ==
  ASSUME NEW a, IsSequence(a), a # <<>>
  PROVE  /\ IsSequence(Tail(a))
         /\ DOMAIN Tail(a) = 1..(Len(a) - 1)
         /\ \A i \in 1..(Len(a) - 1) : Tail(a)[i] = a[i + 1]
         /\ DOMAIN a = 1..Len(a) /\ Len(a) \in Nat \ {0}
         /\ Head(a) = a[1]
<1>. DEFINE S == {a[i] : i \in DOMAIN a}
<1>1. a \in Seq(S)
  BY DEF IsSequence
<1>2. /\ Tail(a) \in Seq(S)
      /\ Len(Tail(a)) = Len(a) - 1
      /\ \A i \in 1..(Len(a) - 1) : Tail(a)[i] = a[i + 1]
      /\ Head(a) = a[1] /\ Len(a) \in Nat \ {0}
  <2>. HIDE DEF S
  <2>. QED
    BY <1>1, HeadTailProperties, EmptySeq
<1>3. IsSequence(Tail(a))
  <2>. HIDE DEF S
  <2>. QED
    BY <1>2, SequenceOfSome
<1>. QED
  BY <1>1, <1>2, <1>3

-------------------------------------------------------------------------------
(***************************************************************************)
(* What the steps do to one connection.                                    *)
(***************************************************************************)
LEMMA RequestNumber ==
  ASSUME NEW q \in Seq(Message), NEW i \in DOMAIN q
  PROVE  q[i].xid \in Nat
<1>1. q[i] \in Message
  OBVIOUS
<1>. QED
  BY <1>1 DEF Message

LEMMA RequestSent ==
  ASSUME NEW q, NEW a, NEW n, Numbered(q, a, n), NEW call \in Votes \cup {Rank}
  PROVE  LET r == Append(q, [xid |-> n + 1, call |-> call]) IN
           /\ Numbered(r, a, n + 1)
           /\ call = Rank => OfRanking(r, a, n + 1)
<1>. DEFINE e == [xid |-> n + 1, call |-> call]  r == Append(q, e)
<1>1. n \in Nat /\ e \in Message /\ q \in Seq(Message)
  BY DEF Numbered, Message
<1>. HIDE DEF e
<1>2. /\ r \in Seq(Message) /\ DOMAIN r = 1..(Len(q) + 1) /\ DOMAIN q = 1..Len(q)
      /\ \A i \in 1..Len(q) : r[i] = q[i]
      /\ r[Len(q) + 1] = e /\ Len(q) \in Nat
  BY <1>1, AppendProperties
<1>3. e.xid = n + 1 /\ e.call = call
  BY DEF e
<1>4. \A i \in DOMAIN q : q[i].xid \in Nat
  BY <1>1, RequestNumber
<1>. HIDE DEF r
<1>5. Numbered(r, a, n + 1)
  <2>. HIDE DEF r
  <2>1. \A i \in DOMAIN r : (i \in DOMAIN q /\ r[i] = q[i]) \/ (i = Len(q) + 1 /\ r[i] = e)
    <3>1. \A i \in DOMAIN r : i \in 1..Len(q) \/ i = Len(q) + 1
      BY <1>2
    <3>. QED
      BY <1>2, <3>1
  <2>2. \A i \in DOMAIN q : q[i].xid \in Nat /\ q[i].xid < n + 1
    BY <1>1, <1>4 DEF Numbered
  <2>3. \A i, j \in DOMAIN r : i < j => r[i].xid < r[j].xid
    BY <1>2, <1>3, <2>1, <2>2 DEF Numbered
  <2>4. /\ \A i \in DOMAIN r : r[i].xid <= n + 1
        /\ \A j \in DOMAIN a : a[j].xid \in Nat /\ a[j].xid <= n + 1
    BY <1>1, <1>3, <2>1, <2>2 DEF Numbered
  <2>5. \A j \in DOMAIN a, i \in DOMAIN r : a[j].xid < r[i].xid
    BY <1>1, <1>3, <2>1 DEF Numbered
  <2>. QED
    BY <1>1, <1>2, <2>3, <2>4, <2>5 DEF Numbered
<1>6. call = Rank => OfRanking(r, a, n + 1)
  BY <1>1, <1>2, <1>3 DEF Numbered, OfRanking
<1>. QED
  BY <1>5, <1>6 DEF r, e

LEMMA RequestNotSent ==
  ASSUME NEW q, NEW a, NEW n, Numbered(q, a, n)
  PROVE  Numbered(q, a, n + 1) /\ OfRanking(q, a, n + 1)
<1>1. n \in Nat /\ \A i \in DOMAIN q : q[i].xid \in Nat
  BY RequestNumber DEF Numbered
<1>. QED
  BY <1>1 DEF Numbered, OfRanking

LEMMA Shortened ==
  ASSUME NEW q, NEW a, NEW n, Numbered(q, a, n), NEW k \in 0..Len(q)
  PROVE  Numbered(SubSeq(q, 1, k), <<>>, n)
<1>. DEFINE r == SubSeq(q, 1, k)
<1>1. q \in Seq(Message) /\ Len(q) \in Nat /\ DOMAIN q = 1..Len(q)
  BY DEF Numbered
<1>2. r \in Seq(Message) /\ DOMAIN r = 1..k /\ \A i \in 1..k : r[i] = q[i]
  BY <1>1
<1>3. IsSequence(<<>>) /\ DOMAIN <<>> = {}
  BY DEF IsSequence
<1>. HIDE DEF r
<1>4. Numbered(r, <<>>, n)
  BY <1>1, <1>2, <1>3 DEF Numbered
<1>. QED
  BY <1>4 DEF r

LEMMA AnswerTaken ==
  ASSUME NEW q, NEW a, NEW n, Numbered(q, a, n), a # <<>>
  PROVE  /\ Numbered(q, Tail(a), n)
         /\ OfRanking(q, a, n) => OfRanking(q, Tail(a), n)
         /\ Head(a).xid = n => q = <<>>
         /\ Head(a).xid = n /\ OfRanking(q, a, n) => Head(a).body # <<>>
<1>1. IsSequence(a) /\ q \in Seq(Message) /\ n \in Nat
  BY DEF Numbered
<1>2. /\ IsSequence(Tail(a))
      /\ DOMAIN Tail(a) = 1..(Len(a) - 1)
      /\ \A i \in 1..(Len(a) - 1) : Tail(a)[i] = a[i + 1]
      /\ DOMAIN a = 1..Len(a) /\ Len(a) \in Nat \ {0} /\ Head(a) = a[1]
  BY <1>1, TailSequence
<1>3. \A i \in DOMAIN Tail(a) : i + 1 \in DOMAIN a /\ Tail(a)[i] = a[i + 1]
  BY <1>2
<1>4. Numbered(q, Tail(a), n)
  BY <1>1, <1>2, <1>3 DEF Numbered
<1>5. OfRanking(q, a, n) => OfRanking(q, Tail(a), n)
  BY <1>3 DEF OfRanking
<1>6. 1 \in DOMAIN a
  BY <1>2
<1>7. Head(a).xid = n => q = <<>>
  <2>. SUFFICES ASSUME a[1].xid = n, q # <<>> PROVE FALSE
    BY <1>2
  <2>1. 1 \in DOMAIN q /\ q[1] \in Message
    BY <1>1, EmptySeq
  <2>. QED
    BY <1>1, <1>6, <2>1 DEF Numbered, Message
<1>. QED
  BY <1>2, <1>4, <1>5, <1>6, <1>7 DEF OfRanking

LEMMA RequestServed ==
  ASSUME NEW q, NEW a, NEW n, Numbered(q, a, n), q # <<>>, NEW body,
         Head(q).call = Rank => body # <<>>
  PROVE  LET b == Append(a, [xid |-> Head(q).xid, body |-> body]) IN
           /\ Numbered(Tail(q), a, n) /\ Numbered(Tail(q), b, n)
           /\ OfRanking(q, a, n) => OfRanking(Tail(q), a, n) /\ OfRanking(Tail(q), b, n)
<1>. DEFINE e == [xid |-> Head(q).xid, body |-> body]  b == Append(a, e)  r == Tail(q)
<1>1. q \in Seq(Message) /\ IsSequence(a) /\ n \in Nat
  BY DEF Numbered
<1>2. /\ r \in Seq(Message)
      /\ DOMAIN q = 1..Len(q) /\ Len(q) \in Nat \ {0} /\ Head(q) = q[1]
      /\ \A i \in DOMAIN r : i \in Nat /\ i >= 1 /\ i + 1 \in DOMAIN q /\ r[i] = q[i + 1]
  BY <1>1, EmptySeq, HeadTailProperties
<1>3. e.xid = q[1].xid /\ e.body = body /\ 1 \in DOMAIN q
  BY <1>2
<1>4. \A i \in DOMAIN q : q[i].xid \in Nat
  BY <1>1, RequestNumber
<1>. HIDE DEF e
<1>5. /\ IsSequence(b) /\ DOMAIN b = 1..(Len(a) + 1)
      /\ \A i \in 1..Len(a) : b[i] = a[i]
      /\ b[Len(a) + 1] = e /\ DOMAIN a = 1..Len(a) /\ Len(a) \in Nat
  BY <1>1, AppendSequence
<1>. HIDE DEF b, r
<1>6. Numbered(r, a, n)
  <2>1. \A i, j \in DOMAIN r : i < j => r[i].xid < r[j].xid
    <3>. SUFFICES ASSUME NEW i \in DOMAIN r, NEW j \in DOMAIN r, i < j
                  PROVE  r[i].xid < r[j].xid
      OBVIOUS
    <3>1. /\ i + 1 \in DOMAIN q /\ j + 1 \in DOMAIN q /\ i + 1 < j + 1
          /\ r[i] = q[i + 1] /\ r[j] = q[j + 1]
      BY <1>2
    <3>. QED
      BY <3>1 DEF Numbered
  <2>2. /\ \A i \in DOMAIN r : r[i].xid <= n
        /\ \A j \in DOMAIN a, i \in DOMAIN r : a[j].xid < r[i].xid
    BY <1>2 DEF Numbered
  <2>. QED
    BY <1>1, <1>2, <2>1, <2>2 DEF Numbered
<1>7. \A i \in DOMAIN r : e.xid < r[i].xid
  <2>. SUFFICES ASSUME NEW i \in DOMAIN r PROVE e.xid < r[i].xid
    OBVIOUS
  <2>1. i + 1 \in DOMAIN q /\ 1 < i + 1 /\ r[i] = q[i + 1]
    BY <1>2
  <2>. QED
    BY <1>3, <2>1 DEF Numbered
<1>8. \A j \in DOMAIN b : (j \in DOMAIN a /\ b[j] = a[j]) \/ b[j] = e
  BY <1>5
<1>9. Numbered(r, b, n)
  BY <1>3, <1>4, <1>5, <1>6, <1>7, <1>8 DEF Numbered
<1>10. OfRanking(q, a, n) => OfRanking(r, a, n)
  BY <1>2 DEF OfRanking
<1>11. OfRanking(q, a, n) => OfRanking(r, b, n)
  BY <1>2, <1>3, <1>8, <1>10 DEF OfRanking
<1>. QED
  BY <1>6, <1>9, <1>10, <1>11 DEF b, r, e

-------------------------------------------------------------------------------
(***************************************************************************)
(* A ranking is never empty: the table has a judge.                        *)
(***************************************************************************)
LEMMA RankingNotEmpty == Classifica # <<>>
<1>1. Candidates = 1..Len(Judges) /\ Len(Judges) \in Nat \ {0}
  BY VotesAssumption, EmptySeq DEF Candidates
<1>2. 1 \in FirstRows
  BY <1>1 DEF FirstRows
<1>3. IsFiniteSet(FirstRows)
  <2>1. IsFiniteSet(Candidates)
    BY <1>1, FS_Interval
  <2>. QED
    BY <2>1, FS_Subset DEF FirstRows
<1>4. Cardinality(FirstRows) \in Nat \ {0}
  BY <1>2, <1>3, FS_CardinalityType, FS_EmptySet
<1>5. 1 \in DOMAIN Firsts
  BY <1>4 DEF Firsts
<1>6. 1 \in DOMAIN Classifica
  BY <1>5 DEF Classifica
<1>. QED
  BY <1>6

-------------------------------------------------------------------------------
(***************************************************************************)
(* The inductive invariant.                                                *)
(***************************************************************************)
FieldsOK ==
  /\ cpc \in [Clients -> {"off", "prompt", "vote", "rank"}]
  /\ asked \in [Clients -> Nat]
  /\ c2s \in [Clients -> Seq(Message)]
  /\ s2c = [c \in Clients |-> s2c[c]]

Connection(c) ==
  /\ Numbered(c2s[c], s2c[c], asked[c])
  /\ cpc[c] = "rank" => OfRanking(c2s[c], s2c[c], asked[c])

VotesInv == FieldsOK /\ \A c \in Clients : Connection(c)

\* A step of one client or for one client leaves the connections of the others alone.
OnlyAt(c) ==
  \A d \in Clients \ {c} :
    cpc'[d] = cpc[d] /\ asked'[d] = asked[d] /\ c2s'[d] = c2s[d] /\ s2c'[d] = s2c[d]

LEMMA OneConnection ==
  ASSUME VotesInv, NEW c \in Clients, FieldsOK', OnlyAt(c), Connection(c)'
  PROVE  VotesInv'
<1>1. ASSUME NEW d \in Clients \ {c} PROVE Connection(d)'
  BY <1>1 DEF VotesInv, Connection, OnlyAt
<1>. QED
  BY <1>1 DEF VotesInv

LEMMA InitVotes == Init => VotesInv
<1>. SUFFICES ASSUME Init PROVE VotesInv
  OBVIOUS
<1>1. FieldsOK
  BY DEF Init, FieldsOK
<1>2. ASSUME NEW c \in Clients PROVE Connection(c)
  BY <1>2 DEF Init, Connection, Numbered, IsSequence
<1>. QED
  BY <1>1, <1>2 DEF VotesInv

LEMMA RequestStep ==
  ASSUME VotesInv, NEW c \in Clients, NEW call \in Votes \cup {Rank}, Request(c, call)
  PROVE  VotesInv'
<1>. DEFINE n == asked[c]  q == c2s[c]  r == Append(q, [xid |-> n + 1, call |-> call])
<1>1. /\ FieldsOK /\ Connection(c)
      /\ n \in Nat /\ q \in Seq(Message)
  BY DEF VotesInv, FieldsOK
<1>2. /\ cpc' = [cpc EXCEPT ![c] = IF call = Rank THEN "rank" ELSE "vote"]
      /\ asked' = [asked EXCEPT ![c] = n + 1] /\ s2c' = s2c
      /\ c2s' = [c2s EXCEPT ![c] = r] \/ c2s' = c2s
  BY <1>1 DEF Request, Goto, FieldsOK
<1>3. r \in Seq(Message)
  <2>1. [xid |-> n + 1, call |-> call] \in Message
    BY <1>1 DEF Message
  <2>. QED
    BY <1>1, <2>1, AppendProperties
<1>4. /\ Numbered(r, s2c[c], n + 1) /\ (call = Rank => OfRanking(r, s2c[c], n + 1))
      /\ Numbered(q, s2c[c], n + 1) /\ OfRanking(q, s2c[c], n + 1)
  BY <1>1, RequestSent, RequestNotSent DEF Connection
<1>. HIDE DEF r
<1>5. FieldsOK' /\ OnlyAt(c)
  BY <1>1, <1>2, <1>3 DEF FieldsOK, OnlyAt
<1>6. Connection(c)'
  BY <1>1, <1>2, <1>4 DEF Connection, FieldsOK
<1>. QED
  BY <1>5, <1>6, OneConnection

LEMMA LeavesStep ==
  ASSUME VotesInv, NEW c \in Clients, Leaves(c)
  PROVE  VotesInv'
<1>1. FieldsOK /\ Connection(c)
  BY DEF VotesInv
<1>2. PICK k \in 0..Len(c2s[c]) : c2s' = [c2s EXCEPT ![c] = SubSeq(c2s[c], 1, k)]
  BY DEF Leaves
<1>3. /\ cpc' = [cpc EXCEPT ![c] = "off"] /\ asked' = asked
      /\ s2c' = [s2c EXCEPT ![c] = <<>>]
  BY DEF Leaves
<1>4. Numbered(SubSeq(c2s[c], 1, k), <<>>, asked[c])
  BY <1>1, Shortened DEF Connection
<1>5. SubSeq(c2s[c], 1, k) \in Seq(Message)
  BY <1>4 DEF Numbered
<1>6. FieldsOK' /\ OnlyAt(c)
  BY <1>1, <1>2, <1>3, <1>5 DEF FieldsOK, OnlyAt
<1>7. Connection(c)'
  BY <1>1, <1>2, <1>3, <1>4 DEF Connection, FieldsOK
<1>. QED
  BY <1>6, <1>7, OneConnection

LEMMA TakeStep ==
  ASSUME VotesInv, NEW c \in Clients, TakeAnswer(c)
  PROVE  VotesInv'
<1>1. FieldsOK /\ Connection(c) /\ s2c[c] # <<>>
  BY DEF VotesInv, TakeAnswer
<1>2. /\ s2c' = [s2c EXCEPT ![c] = Tail(s2c[c])] /\ asked' = asked /\ c2s' = c2s
      /\ cpc' = [cpc EXCEPT ![c] = "prompt"] \/ cpc' = cpc
  BY DEF TakeAnswer
<1>3. /\ Numbered(c2s[c], Tail(s2c[c]), asked[c])
      /\ OfRanking(c2s[c], s2c[c], asked[c]) => OfRanking(c2s[c], Tail(s2c[c]), asked[c])
  BY <1>1, AnswerTaken DEF Connection
<1>4. FieldsOK' /\ OnlyAt(c)
  BY <1>1, <1>2 DEF FieldsOK, OnlyAt
<1>5. Connection(c)'
  BY <1>1, <1>2, <1>3 DEF Connection, FieldsOK
<1>. QED
  BY <1>4, <1>5, OneConnection

LEMMA ServerStep ==
  ASSUME VotesInv, NEW c \in Clients, Server(c)
  PROVE  VotesInv'
<1>. DEFINE q == c2s[c]  n == asked[c]
            Sent(body) == Append(s2c[c], [xid |-> Head(q).xid, body |-> body])
<1>1. FieldsOK /\ Connection(c) /\ q # <<>> /\ q \in Seq(Message)
  BY DEF VotesInv, FieldsOK, Server, Vote, Classify, Dispatch
<1>2. /\ c2s' = [c2s EXCEPT ![c] = Tail(q)] /\ cpc' = cpc /\ asked' = asked
      /\ \/ s2c' = s2c
         \/ Head(q).call # Rank /\ s2c' = [s2c EXCEPT ![c] = Sent(<<>>)]
         \/ s2c' = [s2c EXCEPT ![c] = Sent(Classifica)]
  BY DEF Server, Vote, Classify, Dispatch, Reply
<1>3. \A body : (Head(q).call = Rank => body # <<>>) =>
        /\ Numbered(Tail(q), s2c[c], n) /\ Numbered(Tail(q), Sent(body), n)
        /\ OfRanking(q, s2c[c], n) =>
             OfRanking(Tail(q), s2c[c], n) /\ OfRanking(Tail(q), Sent(body), n)
  BY <1>1, RequestServed DEF Connection
<1>4. Tail(q) \in Seq(Message)
  BY <1>1, HeadTailProperties
<1>5. FieldsOK' /\ OnlyAt(c)
  BY <1>1, <1>2, <1>4 DEF FieldsOK, OnlyAt
<1>6. Connection(c)'
  <2>1. c2s'[c] = Tail(q) /\ cpc'[c] = cpc[c] /\ asked'[c] = n
    BY <1>1, <1>2 DEF FieldsOK
  <2>2. \/ s2c'[c] = s2c[c]
        \/ Head(q).call # Rank /\ s2c'[c] = Sent(<<>>)
        \/ s2c'[c] = Sent(Classifica)
    BY <1>1, <1>2 DEF FieldsOK
  <2>. HIDE DEF Sent, q, n
  <2>3. Numbered(c2s'[c], s2c'[c], asked'[c])
    BY <1>3, <2>1, <2>2, RankingNotEmpty
  <2>4. OfRanking(q, s2c[c], n) => OfRanking(c2s'[c], s2c'[c], asked'[c])
    BY <1>3, <2>1, <2>2, RankingNotEmpty
  <2>. QED
    BY <1>1, <2>1, <2>3, <2>4 DEF Connection, q, n
<1>. QED
  BY <1>5, <1>6, OneConnection

LEMMA RestartStep ==
  ASSUME VotesInv, Restart
  PROVE  VotesInv'
<1>1. FieldsOK'
  BY DEF VotesInv, FieldsOK, Restart
<1>2. ASSUME NEW c \in Clients PROVE Connection(c)'
  <2>1. /\ c2s'[c] = <<>> /\ s2c'[c] = s2c[c] /\ asked'[c] = asked[c] /\ cpc'[c] = cpc[c]
    BY <1>2 DEF Restart
  <2>2. Connection(c)
    BY <1>2 DEF VotesInv
  <2>. QED
    BY <2>1, <2>2 DEF Connection, Numbered, OfRanking
<1>. QED
  BY <1>1, <1>2 DEF VotesInv

\* The steps that leave requests and answers alone, and lead to no ranking.
LEMMA QuietStep ==
  ASSUME VotesInv, NEW c \in Clients, UNCHANGED <<asked, c2s, s2c>>,
         NEW to \in {"off", "prompt"}, cpc' = [cpc EXCEPT ![c] = to]
  PROVE  VotesInv'
<1>1. FieldsOK' /\ OnlyAt(c)
  BY DEF VotesInv, FieldsOK, OnlyAt
<1>2. Connection(c)'
  BY DEF VotesInv, FieldsOK, Connection
<1>. QED
  BY <1>1, <1>2, OneConnection

LEMMA NextVotes == VotesInv /\ [Next]_vars => VotesInv'
<1>. SUFFICES ASSUME VotesInv, [Next]_vars PROVE VotesInv'
  OBVIOUS
<1>1. CASE UNCHANGED vars
  <2>1. FieldsOK'
    BY <1>1 DEF VotesInv, FieldsOK, vars
  <2>2. ASSUME NEW c \in Clients PROVE Connection(c)'
    BY <1>1 DEF VotesInv, Connection, vars
  <2>. QED
    BY <2>1, <2>2 DEF VotesInv
<1>2. CASE Restart
  BY <1>2, RestartStep
<1>3. ASSUME NEW c \in Clients, Start(c) PROVE VotesInv'
  BY <1>3, QuietStep DEF Start, Goto
<1>4. ASSUME NEW c \in Clients, User(c) PROVE VotesInv'
  BY <1>4, RequestStep DEF User
<1>5. ASSUME NEW c \in Clients, Ends(c) PROVE VotesInv'
  BY <1>5, LeavesStep DEF Ends
<1>6. ASSUME NEW c \in Clients, Fails(c) PROVE VotesInv'
  BY <1>6, QuietStep, LeavesStep DEF Fails, Goto
<1>7. ASSUME NEW c \in Clients, Client(c) PROVE VotesInv'
  BY <1>6, <1>7, TakeStep DEF Client, Broken, Expire
<1>8. ASSUME NEW c \in Clients, Server(c) PROVE VotesInv'
  BY <1>8, ServerStep
<1>. QED
  BY <1>1, <1>2, <1>3, <1>4, <1>5, <1>7, <1>8 DEF Next

-------------------------------------------------------------------------------
(***************************************************************************)
(* The theorem.                                                            *)
(***************************************************************************)
\* Only the answer with the number of the call ends the wait for a ranking well.
LEMMA RankedStep ==
  ASSUME VotesInv, Next, NEW c \in Clients, cpc[c] = "rank", cpc'[c] = "prompt"
  PROVE  Head(s2c[c]).body # <<>> /\ c2s[c] = <<>>
<1>1. FieldsOK /\ Connection(c)
  BY DEF VotesInv
<1>2. PICK d \in Clients : TakeAnswer(d) \/ Fails(d) \/ Start(d) \/ User(d) \/ Ends(d)
  BY <1>1 DEF Next, Restart, Server, Vote, Classify, Client, Broken, Expire
<1>3. d = c
  BY <1>1, <1>2 DEF FieldsOK, TakeAnswer, Fails, Start, User, Request, Ends, Leaves, Goto
<1>4. TakeAnswer(c)
  <2>1. ~Start(c) /\ ~User(c)
    BY DEF Start, User, Request, Goto
  <2>2. ~Leaves(c)
    BY <1>1 DEF FieldsOK, Leaves
  <2>. QED
    BY <1>2, <1>3, <2>1, <2>2 DEF Fails, Ends, Goto
<1>5. s2c[c] # <<>> /\ Head(s2c[c]).xid = asked[c]
  BY <1>4 DEF TakeAnswer
<1>. QED
  BY <1>1, <1>5, AnswerTaken DEF Connection

\* A client of esercitazione9 that gets the result of classifica_giudici has a ranking,
\* never the late answer to a vote it has given up, and every vote it has sent before
\* is counted; whatever restarts come between.
THEOREM RankingIsOwn == Spec => OwnVotesRanked
<1>1. Init => VotesInv
  BY InitVotes
<1>2. VotesInv /\ [Next]_vars => VotesInv'
  BY NextVotes
<1>3. VotesInv /\ [Next]_vars =>
        [\A c \in Clients :
           cpc[c] = "rank" /\ cpc'[c] = "prompt" => Head(s2c[c]).body # <<>> /\ c2s[c] = <<>>]_vars
  BY RankedStep
<1>. QED
  BY <1>1, <1>2, <1>3, PTL DEF Spec, OwnVotesRanked
-------------------------------------------------------------------------------
(***************************************************************************)
(* The votes on the way.                                                   *)
(***************************************************************************)
VotesFor(q, k, by) == {i \in DOMAIN q : q[i].call = [name |-> k, by |-> by]}

\* What one request is worth to candidate k.
Worth(call, k) ==
  IF call = [name |-> k, by |-> 1] THEN 1 ELSE IF call = [name |-> k, by |-> -1] THEN -1 ELSE 0

LEMMA VotesForFinite ==
  ASSUME NEW q \in Seq(Message), NEW k, NEW by
  PROVE  IsFiniteSet(VotesFor(q, k, by)) /\ Cardinality(VotesFor(q, k, by)) \in Nat
<1>1. DOMAIN q = 1..Len(q) /\ Len(q) \in Nat
  OBVIOUS
<1>2. IsFiniteSet(1..Len(q))
  BY <1>1, FS_Interval
<1>3. VotesFor(q, k, by) \in SUBSET (1..Len(q))
  BY <1>1 DEF VotesFor
<1>. QED
  BY <1>2, <1>3, FS_Subset, FS_CardinalityType

LEMMA OnTheWayIs ==
  ASSUME NEW q \in Seq(Message), NEW k
  PROVE  /\ OnTheWay(q, k) = Cardinality(VotesFor(q, k, 1)) - Cardinality(VotesFor(q, k, -1))
         /\ OnTheWay(q, k) \in Int
<1>1. OnTheWay(q, k) = Cardinality(VotesFor(q, k, 1)) - Cardinality(VotesFor(q, k, -1))
  BY DEF OnTheWay, VotesFor
<1>. QED
  BY <1>1, VotesForFinite

\* As many positions, n places further on.
LEMMA ShiftedCardinality ==
  ASSUME NEW S, S \subseteq Nat, IsFiniteSet(S), NEW n \in Nat, NEW T,
         T = {i + n : i \in S}
  PROVE  IsFiniteSet(T) /\ Cardinality(T) = Cardinality(S)
<1>. DEFINE f == [i \in S |-> i + n]
<1>1. f \in [S -> T]
  OBVIOUS
<1>2. \A i, j \in S : f[i] = f[j] => i = j
  OBVIOUS
<1>3. \A t \in T : \E i \in S : f[i] = t
  OBVIOUS
<1>4. f \in Bijection(S, T)
  BY <1>1, <1>2, <1>3 DEF Bijection, Injection, Surjection, IsInjective
<1>. HIDE DEF f
<1>5. ExistsBijection(S, T)
  BY <1>4 DEF ExistsBijection
<1>. QED
  BY <1>5, FS_Bijection

LEMMA VotesForConcat ==
  ASSUME NEW q \in Seq(Message), NEW r \in Seq(Message), NEW k, NEW by
  PROVE  Cardinality(VotesFor(q \o r, k, by))
           = Cardinality(VotesFor(q, k, by)) + Cardinality(VotesFor(r, k, by))
<1>. DEFINE n == Len(q)
            A == VotesFor(q, k, by)
            B == {i + n : i \in VotesFor(r, k, by)}
<1>1. /\ n \in Nat /\ Len(r) \in Nat /\ DOMAIN q = 1..n /\ DOMAIN r = 1..Len(r)
      /\ DOMAIN (q \o r) = 1..(n + Len(r))
      /\ \A i \in 1..n : (q \o r)[i] = q[i]
      /\ \A i \in (n + 1)..(n + Len(r)) : (q \o r)[i] = r[i - n]
  BY ConcatProperties
<1>2. A \subseteq 1..n /\ \A i \in B : i \in (n + 1)..(n + Len(r))
  BY <1>1 DEF VotesFor
<1>3. VotesFor(q \o r, k, by) = A \cup B
  <2>1. ASSUME NEW i \in VotesFor(q \o r, k, by) PROVE i \in A \cup B
    <3>1. i \in 1..(n + Len(r)) /\ (q \o r)[i].call = [name |-> k, by |-> by]
      BY <1>1 DEF VotesFor
    <3>2. CASE i \in 1..n
      BY <1>1, <3>1, <3>2 DEF VotesFor
    <3>3. CASE i \notin 1..n
      <4>1. i \in (n + 1)..(n + Len(r)) /\ i - n \in 1..Len(r) /\ (i - n) + n = i
        BY <1>1, <3>1, <3>3
      <4>2. i - n \in VotesFor(r, k, by)
        BY <1>1, <3>1, <4>1 DEF VotesFor
      <4>. QED
        BY <4>1, <4>2
    <3>. QED
      BY <3>2, <3>3
  <2>2. ASSUME NEW i \in A PROVE i \in VotesFor(q \o r, k, by)
    <3>1. i \in 1..n /\ q[i].call = [name |-> k, by |-> by]
      BY <1>1 DEF VotesFor
    <3>2. i \in 1..(n + Len(r)) /\ (q \o r)[i] = q[i]
      BY <1>1, <3>1
    <3>. QED
      BY <1>1, <3>1, <3>2 DEF VotesFor
  <2>3. ASSUME NEW j \in VotesFor(r, k, by) PROVE j + n \in VotesFor(q \o r, k, by)
    <3>1. j \in 1..Len(r) /\ r[j].call = [name |-> k, by |-> by]
      BY <1>1 DEF VotesFor
    <3>2. j + n \in (n + 1)..(n + Len(r)) /\ j + n \in 1..(n + Len(r)) /\ (j + n) - n = j
      BY <1>1, <3>1
    <3>3. (q \o r)[j + n] = r[j]
      BY <1>1, <3>2
    <3>. QED
      BY <1>1, <3>1, <3>2, <3>3 DEF VotesFor
  <2>. QED
    BY <2>1, <2>2, <2>3
<1>4. A \cap B = {}
  <2>. HIDE DEF A, B
  <2>1. \A i \in A : i \in Int /\ i <= n
    BY <1>1, <1>2
  <2>2. \A i \in B : i \in Int /\ n + 1 <= i
    BY <1>1, <1>2
  <2>. QED
    BY <1>1, <2>1, <2>2
<1>5. IsFiniteSet(A) /\ IsFiniteSet(VotesFor(r, k, by)) /\ VotesFor(r, k, by) \subseteq Nat
  <2>1. IsFiniteSet(A) /\ IsFiniteSet(VotesFor(r, k, by))
    BY VotesForFinite
  <2>2. VotesFor(r, k, by) \subseteq 1..Len(r)
    BY <1>1 DEF VotesFor
  <2>. QED
    BY <2>1, <2>2
<1>6. IsFiniteSet(B) /\ Cardinality(B) = Cardinality(VotesFor(r, k, by))
  BY <1>1, <1>5, ShiftedCardinality
<1>. HIDE DEF A, B, n
<1>7. Cardinality(A \cup B) = Cardinality(A) + Cardinality(B) - Cardinality({})
  BY <1>4, <1>5, <1>6, FS_Union
<1>8. Cardinality({}) = 0 /\ Cardinality(A) \in Nat /\ Cardinality(B) \in Nat
  BY <1>5, <1>6, FS_EmptySet, FS_CardinalityType
<1>. QED
  BY <1>3, <1>6, <1>7, <1>8 DEF A

LEMMA WayConcat ==
  ASSUME NEW q \in Seq(Message), NEW r \in Seq(Message), NEW k
  PROVE  OnTheWay(q \o r, k) = OnTheWay(q, k) + OnTheWay(r, k)
<1>1. q \o r \in Seq(Message)
  BY ConcatProperties
<1>. DEFINE a(by) == Cardinality(VotesFor(q, k, by))
            b(by) == Cardinality(VotesFor(r, k, by))
            c(by) == Cardinality(VotesFor(q \o r, k, by))
<1>2. \A by : a(by) \in Nat /\ b(by) \in Nat /\ c(by) = a(by) + b(by)
  BY VotesForConcat, VotesForFinite
<1>3. /\ OnTheWay(q, k) = a(1) - a(-1) /\ OnTheWay(r, k) = b(1) - b(-1)
      /\ OnTheWay(q \o r, k) = c(1) - c(-1)
  BY <1>1, OnTheWayIs
<1>4. /\ a(1) \in Nat /\ a(-1) \in Nat /\ b(1) \in Nat /\ b(-1) \in Nat
      /\ c(1) = a(1) + b(1) /\ c(-1) = a(-1) + b(-1)
  BY <1>2
<1>. HIDE DEF a, b, c
<1>. QED
  BY <1>3, <1>4

LEMMA WayOne ==
  ASSUME NEW e \in Message, NEW k
  PROVE  OnTheWay(<<e>>, k) = Worth(e.call, k)
<1>1. \A by : VotesFor(<<e>>, k, by) = IF e.call = [name |-> k, by |-> by] THEN {1} ELSE {}
  BY DEF VotesFor
<1>2. Cardinality({1}) = 1 /\ Cardinality({}) = 0
  BY FS_Singleton, FS_EmptySet
<1>3. [name |-> k, by |-> 1] # [name |-> k, by |-> -1]
  OBVIOUS
<1>4. <<e>> \in Seq(Message)
  OBVIOUS
<1>5. OnTheWay(<<e>>, k)
        = Cardinality(VotesFor(<<e>>, k, 1)) - Cardinality(VotesFor(<<e>>, k, -1))
  BY <1>4, OnTheWayIs
<1>. QED
  BY <1>1, <1>2, <1>3, <1>5 DEF Worth

LEMMA WayAppend ==
  ASSUME NEW q \in Seq(Message), NEW e \in Message, NEW k
  PROVE  OnTheWay(Append(q, e), k) = OnTheWay(q, k) + Worth(e.call, k)
<1>1. Append(q, e) = q \o <<e>> /\ <<e>> \in Seq(Message)
  OBVIOUS
<1>2. OnTheWay(q \o <<e>>, k) = OnTheWay(q, k) + OnTheWay(<<e>>, k)
  BY <1>1, WayConcat
<1>. QED
  BY <1>1, <1>2, WayOne

LEMMA WayTail ==
  ASSUME NEW q \in Seq(Message), q # <<>>, NEW k
  PROVE  OnTheWay(q, k) = Worth(Head(q).call, k) + OnTheWay(Tail(q), k)
<1>1. /\ Head(q) \in Message /\ Tail(q) \in Seq(Message) /\ q = <<Head(q)>> \o Tail(q)
      /\ <<Head(q)>> \in Seq(Message)
  BY HeadTailProperties
<1>2. OnTheWay(<<Head(q)>> \o Tail(q), k) = OnTheWay(<<Head(q)>>, k) + OnTheWay(Tail(q), k)
  BY <1>1, WayConcat
<1>. QED
  BY <1>1, <1>2, WayOne

LEMMA WaySplit ==
  ASSUME NEW q \in Seq(Message), NEW n \in 0..Len(q), NEW k
  PROVE  OnTheWay(q, k) = OnTheWay(SubSeq(q, 1, n), k) + OnTheWay(SubSeq(q, n + 1, Len(q)), k)
<1>. DEFINE a == SubSeq(q, 1, n)  b == SubSeq(q, n + 1, Len(q))
<1>1. Len(q) \in Nat
  OBVIOUS
<1>2. a \in Seq(Message) /\ b \in Seq(Message)
  OBVIOUS
<1>3. a \o b = q
  <2>1. 1 \in 1..(Len(q) + 1) /\ n \in (1 - 1)..Len(q) /\ Len(q) \in n..Len(q)
    BY <1>1
  <2>2. a \o b = SubSeq(q, 1, Len(q))
    BY <2>1, ConcatAdjacentSubSeq
  <2>. QED
    BY <2>2, SubSeqFull
<1>. HIDE DEF a, b
<1>4. OnTheWay(a \o b, k) = OnTheWay(a, k) + OnTheWay(b, k)
  BY <1>2, WayConcat
<1>. QED
  BY <1>3, <1>4 DEF a, b

\* A vote is worth what it adds to its candidate.
LEMMA VoteWorth ==
  ASSUME NEW v \in Votes, NEW k
  PROVE  Worth(v, k) = IF k = v.name THEN v.by ELSE 0
<1>1. v = [name |-> v.name, by |-> v.by] /\ v.by \in {1, -1}
  BY DEF Votes
<1>. QED
  BY <1>1 DEF Worth

LEMMA RankWorth ==
  ASSUME NEW k \in Int
  PROVE  Worth(Rank, k) = 0
<1>1. ASSUME NEW by \in {1, -1} PROVE Rank # [name |-> k, by |-> by]
  <2>1. [name |-> k, by |-> by] \in [name : Int, by : {1, -1}]
    OBVIOUS
  <2>. QED
    BY <2>1, RankAssumption
<1>. QED
  BY <1>1 DEF Worth

OnAllWays(q, k) == MapThenSumSet(LAMBDA c : OnTheWay(q[c], k), Clients)
Ways(q, k) == [c \in Clients |-> OnTheWay(q[c], k)]

LEMMA WaysSum ==
  ASSUME NEW q \in [Clients -> Seq(Message)], NEW k
  PROVE  SumIs(OnAllWays(q, k), Ways(q, k), Clients) /\ Values(Ways(q, k), Clients)
<1>. DEFINE pick(s) == CHOOSE x \in s : TRUE
            adds(f) == f = [s \in SUBSET Clients |->
                              IF s = {} THEN 0 ELSE OnTheWay(q[pick(s)], k) + f[s \ {pick(s)}]]
            F == CHOOSE f : adds(f)
<1>1. OnAllWays(q, k) = F[Clients]
  BY DEF OnAllWays, MapThenSumSet, MapThenFoldSet
<1>2. \A c \in Clients : q[c] \in Seq(Message)
  OBVIOUS
<1>3. Values(Ways(q, k), Clients) /\ IsFiniteSet(Clients)
  BY <1>2, OnTheWayIs, ClientsAssumption DEF Ways, Values
<1>4. ASSUME NEW f PROVE adds(f) <=> IsSum(f, Ways(q, k), SUBSET Clients)
  <2>1. \A s \in SUBSET Clients : s # {} => pick(s) \in Clients
    OBVIOUS
  <2>. HIDE DEF pick
  <2>2. \A s \in SUBSET Clients : s # {} => OnTheWay(q[pick(s)], k) = Ways(q, k)[pick(s)]
    BY <2>1 DEF Ways
  <2>3. [s \in SUBSET Clients |->
           IF s = {} THEN 0 ELSE OnTheWay(q[pick(s)], k) + f[s \ {pick(s)}]]
        = [s \in SUBSET Clients |->
             IF s = {} THEN 0 ELSE Ways(q, k)[pick(s)] + f[s \ {pick(s)}]]
    BY <2>2
  <2>. QED
    BY <2>3 DEF IsSum, pick
<1>. HIDE DEF adds
<1>5. \E f : IsSum(f, Ways(q, k), SUBSET Clients)
  BY <1>3, SumExists
<1>6. adds(F)
  BY <1>4, <1>5
<1>. HIDE DEF F
<1>7. IsSum(F, Ways(q, k), SUBSET Clients)
  BY <1>4, <1>6
<1>8. SumIs(F[Clients], Ways(q, k), Clients)
  BY <1>3, <1>7, SumTyped
<1>. QED
  BY <1>1, <1>3, <1>8

AlikeBut(q, r, d) == \A c \in Clients \ {d} : r[c] = q[c]

\* The requests of one client change.
LEMMA WaysChange ==
  ASSUME NEW q \in [Clients -> Seq(Message)], NEW r \in [Clients -> Seq(Message)],
         NEW d \in Clients, AlikeBut(q, r, d), NEW k
  PROVE  /\ OnAllWays(q, k) \in Int /\ OnAllWays(r, k) \in Int
         /\ OnAllWays(r, k) - OnTheWay(r[d], k) = OnAllWays(q, k) - OnTheWay(q[d], k)
<1>1. /\ SumIs(OnAllWays(q, k), Ways(q, k), Clients) /\ Values(Ways(q, k), Clients)
      /\ SumIs(OnAllWays(r, k), Ways(r, k), Clients) /\ Values(Ways(r, k), Clients)
  BY WaysSum
<1>2. Alike(Ways(q, k), Ways(r, k), Clients \ {d})
  BY DEF Alike, AlikeBut, Ways
<1>3. Ways(q, k)[d] = OnTheWay(q[d], k) /\ Ways(r, k)[d] = OnTheWay(r[d], k)
  BY DEF Ways
<1>4. /\ OnAllWays(q, k) \in Int /\ OnAllWays(r, k) \in Int
      /\ OnAllWays(r, k) - Ways(r, k)[d] = OnAllWays(q, k) - Ways(q, k)[d]
  BY <1>1, <1>2, ClientsAssumption, SumChange
<1>. QED
  BY <1>3, <1>4

\* Nothing is on its way.
LEMMA WaysEmpty ==
  ASSUME NEW k
  PROVE  OnAllWays([c \in Clients |-> <<>>], k) = 0
<1>. DEFINE q == [c \in Clients |-> <<>>]
<1>1. q \in [Clients -> Seq(Message)]
  OBVIOUS
<1>2. OnTheWay(<<>>, k) = 0
  BY FS_EmptySet DEF OnTheWay
<1>3. \A c \in Clients : Ways(q, k)[c] = 0
  BY <1>2 DEF Ways
<1>. HIDE DEF q
<1>4. SumIs(OnAllWays(q, k), Ways(q, k), Clients)
  BY <1>1, WaysSum
<1>5. OnAllWays(q, k) = 0
  BY <1>3, <1>4, ClientsAssumption, SumZero
<1>. QED
  BY <1>5 DEF q

-------------------------------------------------------------------------------
(***************************************************************************)
(* The counting of the votes.                                              *)
(***************************************************************************)
Kept(n, v, q) == \A k \in Candidates : n[k] = v[k] + OnAllWays(q, k)

CountInv ==
  /\ voto \in [Candidates -> Int] /\ net \in [Candidates -> Int]
  /\ Kept(net, voto, c2s)

LEMMA CandidatesAreNat == Candidates \subseteq Nat
<1>1. DOMAIN Judges = 1..Len(Judges)
  BY VotesAssumption
<1>. QED
  BY <1>1 DEF Candidates

LEMMA KeptIs == Kept(net, voto, c2s) => VotesKept
BY DEF Kept, VotesKept, OnAllWays

LEMMA WorthType ==
  ASSUME NEW call, NEW k
  PROVE  Worth(call, k) \in Int
BY DEF Worth

LEMMA CountedIs ==
  ASSUME NEW f \in [Candidates -> Int], NEW v \in Votes
  PROVE  /\ Counted(f, v) \in [Candidates -> Int]
         /\ \A k \in Candidates : Counted(f, v)[k] = f[k] + Worth(v, k)
<1>1. v.by \in Int
  BY DEF Votes
<1>2. \A k \in Candidates : f[k] + 0 = f[k] /\ f[k] + v.by \in Int
  BY <1>1
<1>. QED
  BY <1>1, <1>2, VoteWorth DEF Counted

\* One client's requests become r; what they are worth less is worth more elsewhere.
LEMMA KeptChange ==
  ASSUME CountInv, NEW c \in Clients, c2s \in [Clients -> Seq(Message)],
         NEW r \in Seq(Message), c2s' = [c2s EXCEPT ![c] = r],
         voto' \in [Candidates -> Int], net' \in [Candidates -> Int],
         \A k \in Candidates :
           net'[k] - net[k] = (voto'[k] - voto[k]) + (OnTheWay(r, k) - OnTheWay(c2s[c], k))
  PROVE  CountInv'
<1>1. PICK s : s = c2s'
  OBVIOUS
<1>2. s \in [Clients -> Seq(Message)] /\ s[c] = r /\ AlikeBut(c2s, s, c)
  BY <1>1 DEF AlikeBut
<1>3. ASSUME NEW k \in Candidates PROVE net'[k] = voto'[k] + OnAllWays(s, k)
  <2>1. /\ OnAllWays(c2s, k) \in Int /\ OnAllWays(s, k) \in Int
        /\ OnAllWays(s, k) - OnTheWay(r, k) = OnAllWays(c2s, k) - OnTheWay(c2s[c], k)
    BY <1>2, WaysChange
  <2>2. OnTheWay(r, k) \in Int /\ OnTheWay(c2s[c], k) \in Int
    BY OnTheWayIs
  <2>3. net[k] = voto[k] + OnAllWays(c2s, k)
    BY DEF CountInv, Kept
  <2>4. /\ net[k] \in Int /\ voto[k] \in Int /\ net'[k] \in Int /\ voto'[k] \in Int
        /\ net'[k] - net[k] = (voto'[k] - voto[k]) + (OnTheWay(r, k) - OnTheWay(c2s[c], k))
    BY DEF CountInv
  <2>5. PICK n \in Int, m \in Int, v \in Int, u \in Int :
          n = net[k] /\ m = net'[k] /\ v = voto[k] /\ u = voto'[k]
    BY <2>4
  <2>6. PICK w \in Int, x \in Int, a \in Int, b \in Int :
          /\ w = OnAllWays(c2s, k) /\ x = OnAllWays(s, k)
          /\ a = OnTheWay(c2s[c], k) /\ b = OnTheWay(r, k)
    BY <2>1, <2>2
  <2>7. x - b = w - a
    BY <2>1, <2>6
  <2>8. n = v + w
    BY <2>3, <2>5, <2>6
  <2>9. m - n = (u - v) + (b - a)
    BY <2>4, <2>5, <2>6
  <2>10. m = u + x
    BY ONLY <2>7, <2>8, <2>9, n \in Int, m \in Int, v \in Int, u \in Int, w \in Int, x \in Int, a \in Int, b \in Int
  <2>. QED
    BY <2>5, <2>6, <2>10
<1>. QED
  BY <1>1, <1>3 DEF CountInv, Kept

LEMMA KeptQuiet ==
  ASSUME CountInv, UNCHANGED <<voto, net, c2s>>
  PROVE  CountInv'
BY DEF CountInv, Kept

LEMMA NoVotesType == NoVotes \in [Candidates -> Int] /\ \A k \in Candidates : NoVotes[k] = 0
BY DEF NoVotes

LEMMA KeptEmpty ==
  ASSUME voto' = NoVotes, net' = NoVotes, c2s' = [c \in Clients |-> <<>>]
  PROVE  CountInv'
<1>1. \A k : OnAllWays([c \in Clients |-> <<>>], k) = 0
  BY WaysEmpty
<1>2. \A k \in Candidates : net'[k] = 0 /\ voto'[k] = 0 /\ OnAllWays(c2s', k) = 0
  BY <1>1, NoVotesType
<1>3. Kept(net', voto', c2s')
  BY <1>2 DEF Kept
<1>. QED
  BY <1>3, NoVotesType DEF CountInv

LEMMA InitCount == Init => CountInv
<1>. SUFFICES ASSUME Init PROVE CountInv
  OBVIOUS
<1>1. \A k : OnAllWays([c \in Clients |-> <<>>], k) = 0
  BY WaysEmpty
<1>2. \A k \in Candidates : net[k] = 0 /\ voto[k] = 0 /\ OnAllWays(c2s, k) = 0
  BY <1>1, NoVotesType DEF Init
<1>3. Kept(net, voto, c2s)
  BY <1>2 DEF Kept
<1>. QED
  BY <1>3, NoVotesType DEF CountInv, Init

LEMMA RequestCounts ==
  ASSUME VotesInv, CountInv, NEW c \in Clients, NEW call \in Votes \cup {Rank}, Request(c, call)
  PROVE  CountInv'
<1>. DEFINE e == [xid |-> asked[c] + 1, call |-> call]
<1>1. /\ c2s \in [Clients -> Seq(Message)] /\ c2s[c] \in Seq(Message)
      /\ asked[c] \in Nat /\ asked'[c] = asked[c] + 1
  BY DEF VotesInv, FieldsOK, Request
<1>2. e \in Message /\ e.call = call
  BY <1>1 DEF Message
<1>3. CASE ~linked[c]
  BY <1>3, KeptQuiet DEF Request
<1>4. CASE linked[c]
  <2>1. /\ c2s' = [c2s EXCEPT ![c] = Append(c2s[c], e)] /\ voto' = voto
        /\ net' = IF call = Rank THEN net ELSE Counted(net, call)
    BY <1>1, <1>4 DEF Request
  <2>. HIDE DEF e
  <2>2. Append(c2s[c], e) \in Seq(Message)
    BY <1>1, <1>2
  <2>3. /\ net' \in [Candidates -> Int]
        /\ \A k \in Candidates : net'[k] = net[k] + Worth(call, k)
    <3>1. CASE call = Rank
      <4>1. \A k \in Candidates : Worth(call, k) = 0
        BY <3>1, RankWorth, CandidatesAreNat
      <4>. QED
        BY <2>1, <3>1, <4>1 DEF CountInv
    <3>2. CASE call # Rank
      BY <2>1, <3>2, CountedIs DEF CountInv
    <3>. QED
      BY <3>1, <3>2
  <2>4. ASSUME NEW k \in Candidates
        PROVE  net'[k] - net[k] = (voto'[k] - voto[k]) + (OnTheWay(Append(c2s[c], e), k) - OnTheWay(c2s[c], k))
    <3>1. OnTheWay(Append(c2s[c], e), k) = OnTheWay(c2s[c], k) + Worth(call, k)
      BY <1>1, <1>2, WayAppend
    <3>2. /\ OnTheWay(c2s[c], k) \in Int /\ Worth(call, k) \in Int
          /\ net[k] \in Int /\ voto[k] \in Int
      BY <1>1, OnTheWayIs DEF CountInv, Worth
    <3>. QED
      BY <2>1, <2>3, <3>1, <3>2
  <2>. QED
    BY <1>1, <2>1, <2>2, <2>3, <2>4, KeptChange DEF CountInv
<1>. QED
  BY <1>3, <1>4

LEMMA LeavesCounts ==
  ASSUME VotesInv, CountInv, NEW c \in Clients, Leaves(c)
  PROVE  CountInv'
<1>. DEFINE q == c2s[c]
<1>1. c2s \in [Clients -> Seq(Message)] /\ q \in Seq(Message)
  BY DEF VotesInv, FieldsOK
<1>2. PICK n \in 0..Len(q) :
        /\ c2s' = [c2s EXCEPT ![c] = SubSeq(q, 1, n)]
        /\ net' = [i \in Candidates |-> net[i] - OnTheWay(SubSeq(q, n + 1, Len(q)), i)]
  BY DEF Leaves
<1>3. voto' = voto
  BY DEF Leaves
<1>. DEFINE a == SubSeq(q, 1, n)  b == SubSeq(q, n + 1, Len(q))
<1>4. a \in Seq(Message) /\ b \in Seq(Message)
  BY <1>1
<1>5. \A k : OnTheWay(q, k) = OnTheWay(a, k) + OnTheWay(b, k)
  BY <1>1, WaySplit
<1>. HIDE DEF a, b, q
<1>6. \A k : OnTheWay(a, k) \in Int /\ OnTheWay(b, k) \in Int
  BY <1>4, OnTheWayIs
<1>7. net' \in [Candidates -> Int] /\ \A k \in Candidates : net'[k] = net[k] - OnTheWay(b, k)
  BY <1>2, <1>6 DEF CountInv, b
<1>8. ASSUME NEW k \in Candidates
      PROVE  net'[k] - net[k] = (voto'[k] - voto[k]) + (OnTheWay(a, k) - OnTheWay(q, k))
  <2>1. OnTheWay(a, k) \in Int /\ OnTheWay(b, k) \in Int /\ net[k] \in Int /\ voto[k] \in Int
    BY <1>6 DEF CountInv
  <2>2. OnTheWay(q, k) = OnTheWay(a, k) + OnTheWay(b, k) /\ net'[k] = net[k] - OnTheWay(b, k)
    BY <1>5, <1>7
  <2>. QED
    BY <1>3, <2>1, <2>2
<1>9. c2s' = [c2s EXCEPT ![c] = a] /\ voto' \in [Candidates -> Int]
  BY <1>2, <1>3 DEF CountInv, a
<1>10. \A k \in Candidates :
         net'[k] - net[k] = (voto'[k] - voto[k]) + (OnTheWay(a, k) - OnTheWay(c2s[c], k))
  BY <1>8 DEF q
<1>. QED
  BY <1>1, <1>4, <1>7, <1>9, <1>10, KeptChange

LEMMA ServerCounts ==
  ASSUME VotesInv, CountInv, NEW c \in Clients, Server(c)
  PROVE  CountInv'
<1>. DEFINE q == c2s[c]
<1>1. /\ c2s \in [Clients -> Seq(Message)] /\ q \in Seq(Message) /\ q # <<>>
      /\ c2s' = [c2s EXCEPT ![c] = Tail(q)] /\ net' = net
  BY DEF VotesInv, FieldsOK, Server, Vote, Classify, Dispatch
<1>2. Tail(q) \in Seq(Message) /\ Head(q) \in Message
  BY <1>1, HeadTailProperties
<1>3. /\ voto' \in [Candidates -> Int]
      /\ \A k \in Candidates : voto'[k] = voto[k] + Worth(Head(q).call, k)
  <2>1. CASE Vote(c)
    <3>1. Head(q).call \in Votes /\ voto' = Counted(voto, Head(q).call)
      BY <1>2, <2>1 DEF Vote, Message
    <3>. HIDE DEF q
    <3>. QED
      BY <3>1, CountedIs DEF CountInv
  <2>2. CASE Classify(c)
    <3>1. Head(q).call = Rank /\ voto' = voto
      BY <2>2 DEF Classify
    <3>2. \A k \in Candidates : Worth(Rank, k) = 0
      BY RankWorth, CandidatesAreNat
    <3>. HIDE DEF q
    <3>. QED
      BY <3>1, <3>2 DEF CountInv
  <2>. QED
    BY <2>1, <2>2 DEF Server
<1>4. ASSUME NEW k \in Candidates
      PROVE  net'[k] - net[k] = (voto'[k] - voto[k]) + (OnTheWay(Tail(q), k) - OnTheWay(c2s[c], k))
  <2>1. OnTheWay(q, k) = Worth(Head(q).call, k) + OnTheWay(Tail(q), k)
    BY <1>1, WayTail
  <2>2. /\ OnTheWay(Tail(q), k) \in Int /\ Worth(Head(q).call, k) \in Int
        /\ voto[k] \in Int /\ net[k] \in Int
    BY <1>2, OnTheWayIs, WorthType DEF CountInv
  <2>3. voto'[k] = voto[k] + Worth(Head(q).call, k)
    BY <1>3
  <2>. QED
    BY <1>1, <2>1, <2>2, <2>3
<1>5. net' \in [Candidates -> Int]
  BY <1>1 DEF CountInv
<1>. QED
  BY <1>1, <1>2, <1>3, <1>4, <1>5, KeptChange

LEMMA NextCount == VotesInv /\ CountInv /\ [Next]_vars => CountInv'
<1>. SUFFICES ASSUME VotesInv, CountInv, [Next]_vars PROVE CountInv'
  OBVIOUS
<1>1. CASE UNCHANGED vars
  BY <1>1, KeptQuiet DEF vars
<1>2. CASE Restart
  BY <1>2, KeptEmpty DEF Restart
<1>3. ASSUME NEW c \in Clients, Start(c) \/ Fails(c) \/ TakeAnswer(c) \/ Ends(c) PROVE CountInv'
  <2>1. Leaves(c) \/ UNCHANGED <<voto, net, c2s>>
    BY <1>3 DEF Start, Fails, TakeAnswer, Ends
  <2>. QED
    BY <2>1, LeavesCounts, KeptQuiet
<1>4. ASSUME NEW c \in Clients, User(c) PROVE CountInv'
  BY <1>4, RequestCounts DEF User
<1>5. ASSUME NEW c \in Clients, Server(c) PROVE CountInv'
  BY <1>5, ServerCounts
<1>. QED
  BY <1>1, <1>2, <1>3, <1>4, <1>5 DEF Next, Client, Broken, Expire

\* A vote counts once: the table and what is on the way together have what clients have
\* sent, also the votes that they have stopped waiting for.
THEOREM VotesAreKept == Spec => []VotesKept
<1>1. CountInv => VotesKept
  BY KeptIs DEF CountInv
<1>. QED
  BY InitVotes, NextVotes, InitCount, NextCount, <1>1, PTL DEF Spec

-------------------------------------------------------------------------------
(***************************************************************************)
(* Places in an order: how many elements an element does not precede tells *)
(* them apart, and takes every value.                                      *)
(***************************************************************************)
Ordered(B, S) ==
  /\ \A x \in S : <<x, x>> \notin B
  /\ \A x, y \in S : x # y => <<x, y>> \in B \/ <<y, x>> \in B
  /\ \A x, y, z \in S : <<x, y>> \in B /\ <<y, z>> \in B => <<x, z>> \in B

UpTo(B, S, x) == {y \in S : <<x, y>> \notin B}

LEMMA UpToLess ==
  ASSUME NEW S, IsFiniteSet(S), NEW B, Ordered(B, S), NEW x \in S, NEW y \in S, <<x, y>> \in B
  PROVE  Cardinality(UpTo(B, S, x)) < Cardinality(UpTo(B, S, y))
<1>1. UpTo(B, S, x) \subseteq UpTo(B, S, y)
  BY DEF Ordered, UpTo
<1>2. y \in UpTo(B, S, y) /\ y \notin UpTo(B, S, x)
  BY DEF Ordered, UpTo
<1>3. UpTo(B, S, y) \in SUBSET S
  BY DEF UpTo
<1>. DEFINE U == UpTo(B, S, x)  V == UpTo(B, S, y)
<1>4. IsFiniteSet(V) /\ U \in SUBSET V /\ U # V
  BY <1>1, <1>2, <1>3, FS_Subset
<1>. HIDE DEF U, V
<1>5. IsFiniteSet(U) /\ Cardinality(U) <= Cardinality(V) /\ Cardinality(U) # Cardinality(V)
  BY <1>4, FS_Subset
<1>6. Cardinality(U) \in Nat /\ Cardinality(V) \in Nat
  BY <1>4, <1>5, FS_CardinalityType
<1>7. Cardinality(U) < Cardinality(V)
  BY <1>5, <1>6
<1>. QED
  BY <1>7 DEF U, V

LEMMA PlacesTaken ==
  ASSUME NEW S, IsFiniteSet(S), NEW B, Ordered(B, S)
  PROVE  /\ \A x \in S : Cardinality(UpTo(B, S, x)) \in 1..Cardinality(S)
         /\ \A x, y \in S : Cardinality(UpTo(B, S, x)) = Cardinality(UpTo(B, S, y)) => x = y
         /\ \A p \in 1..Cardinality(S) : \E x \in S : Cardinality(UpTo(B, S, x)) = p
<1>. DEFINE N == Cardinality(S)
            place == [x \in S |-> Cardinality(UpTo(B, S, x))]
<1>1. N \in Nat
  BY FS_CardinalityType
<1>2. ASSUME NEW x \in S PROVE Cardinality(UpTo(B, S, x)) \in 1..N
  <2>1. UpTo(B, S, x) \in SUBSET S /\ x \in UpTo(B, S, x)
    BY DEF UpTo, Ordered
  <2>2. IsFiniteSet(UpTo(B, S, x)) /\ Cardinality(UpTo(B, S, x)) <= N
    BY <2>1, FS_Subset
  <2>3. Cardinality(UpTo(B, S, x)) \in Nat /\ Cardinality(UpTo(B, S, x)) # 0
    BY <2>1, <2>2, FS_CardinalityType, FS_EmptySet
  <2>. HIDE DEF N
  <2>. QED
    BY <1>1, <2>2, <2>3
<1>3. ASSUME NEW x \in S, NEW y \in S, Cardinality(UpTo(B, S, x)) = Cardinality(UpTo(B, S, y))
      PROVE  x = y
  <2>. SUFFICES ASSUME x # y PROVE FALSE
    OBVIOUS
  <2>1. <<x, y>> \in B \/ <<y, x>> \in B
    BY DEF Ordered
  <2>2. \/ Cardinality(UpTo(B, S, x)) < Cardinality(UpTo(B, S, y))
        \/ Cardinality(UpTo(B, S, y)) < Cardinality(UpTo(B, S, x))
    BY <2>1, UpToLess
  <2>3. Cardinality(UpTo(B, S, x)) \in Int
    BY <1>2
  <2>. QED
    BY <1>3, <2>2, <2>3
<1>4. place \in Injection(S, 1..N)
  BY <1>2, <1>3 DEF Injection, IsInjective
<1>5. IsFiniteSet(1..N) /\ Cardinality(1..N) = N
  BY <1>1, FS_Interval
<1>. HIDE DEF place
<1>6. place \in Surjection(S, 1..N)
  BY <1>4, <1>5, FS_Injection
<1>7. \A p \in 1..N : \E x \in S : place[x] = p
  BY <1>6 DEF Surjection
<1>. QED
  BY <1>2, <1>3, <1>7 DEF place

-------------------------------------------------------------------------------
(***************************************************************************)
(* The rows that judges come in with, each at its place.                   *)
(***************************************************************************)
LEMMA TableSize ==
  /\ Candidates = 1..Len(Judges) /\ Len(Judges) \in Nat \ {0}
  /\ IsFiniteSet(Candidates) /\ Cardinality(Candidates) = Len(Judges)
  /\ \A i \in Candidates : Judges[i] \in STRING
<1>1. Candidates = 1..Len(Judges) /\ Len(Judges) \in Nat \ {0}
  BY VotesAssumption, EmptySeq DEF Candidates
<1>2. \A i \in Candidates : Judges[i] \in STRING
  BY VotesAssumption DEF Candidates
<1>. QED
  BY <1>1, <1>2, FS_Interval

LEMMA FirstRowsSize ==
  /\ FirstRows \subseteq Candidates /\ IsFiniteSet(FirstRows)
  /\ Cardinality(FirstRows) \in Nat /\ Cardinality(FirstRows) <= Len(Judges)
  /\ DOMAIN Firsts = 1..Cardinality(FirstRows) /\ DOMAIN Firsts \subseteq Candidates
<1>1. FirstRows \in SUBSET Candidates
  BY DEF FirstRows
<1>2. IsFiniteSet(FirstRows) /\ Cardinality(FirstRows) <= Len(Judges)
  BY <1>1, TableSize, FS_Subset
<1>3. Cardinality(FirstRows) \in Nat
  BY <1>2, FS_CardinalityType
<1>4. DOMAIN Firsts = 1..Cardinality(FirstRows)
  BY DEF Firsts
<1>. QED
  BY <1>1, <1>2, <1>3, <1>4, TableSize

\* The places are those of the first rows in their order.
LEMMA FirstsAre ==
  /\ \A p \in DOMAIN Firsts : Firsts[p] \in FirstRows
  /\ \A i \in FirstRows : \E p \in DOMAIN Firsts : Firsts[p] = i
  /\ \A p, q \in DOMAIN Firsts : Firsts[p] = Firsts[q] => p = q
<1>. DEFINE B == {e \in FirstRows \X FirstRows : e[1] < e[2]}
            at(i) == Cardinality(UpTo(B, FirstRows, i))
            N == Cardinality(FirstRows)
<1>0. \A i \in FirstRows : i \in Int
  BY FirstRowsSize, TableSize
<1>1. \A i, j \in FirstRows : <<i, j>> \in B <=> i < j
  OBVIOUS
<1>. HIDE DEF B
<1>2. Ordered(B, FirstRows)
  <2>1. \A i, j \in FirstRows : i # j => i < j \/ j < i
    BY <1>0
  <2>2. \A i, j, k \in FirstRows : i < j /\ j < k => i < k
    BY <1>0
  <2>3. \A i \in FirstRows : ~ (i < i)
    BY <1>0
  <2>. QED
    BY <1>1, <2>1, <2>2, <2>3 DEF Ordered
<1>3. ASSUME NEW i \in FirstRows
      PROVE  at(i) = Cardinality({j \in FirstRows : j <= i})
  <2>1. \A j \in FirstRows : <<i, j>> \notin B <=> j <= i
    BY <1>0, <1>1
  <2>2. UpTo(B, FirstRows, i) = {j \in FirstRows : j <= i}
    BY <2>1 DEF UpTo
  <2>. QED
    BY <2>2
<1>4. /\ \A i \in FirstRows : at(i) \in 1..N
      /\ \A i, j \in FirstRows : at(i) = at(j) => i = j
      /\ \A p \in 1..N : \E i \in FirstRows : at(i) = p
  BY <1>2, PlacesTaken, FirstRowsSize
<1>5. ASSUME NEW p \in 1..N PROVE Firsts[p] \in FirstRows /\ at(Firsts[p]) = p
  <2>1. Firsts[p] = CHOOSE i \in FirstRows : Cardinality({j \in FirstRows : j <= i}) = p
    BY DEF Firsts
  <2>2. \E i \in FirstRows : Cardinality({j \in FirstRows : j <= i}) = p
    BY <1>3, <1>4
  <2>3. Firsts[p] \in FirstRows /\ Cardinality({j \in FirstRows : j <= Firsts[p]}) = p
    BY <2>1, <2>2
  <2>. QED
    BY <1>3, <2>3
<1>. HIDE DEF at, N
<1>6. DOMAIN Firsts = 1..N
  BY FirstRowsSize DEF N
<1>7. ASSUME NEW i \in FirstRows PROVE Firsts[at(i)] = i /\ at(i) \in 1..N
  BY <1>4, <1>5
<1>. QED
  BY <1>5, <1>6, <1>7

\* Every judge of the table has a first row, and only one.
LEMMA JudgeComesIn ==
  /\ \A m \in Candidates : \E i \in FirstRows : Judges[i] = Judges[m] /\ i <= m
  /\ \A i, j \in FirstRows : Judges[i] = Judges[j] => i = j
<1>1. ASSUME NEW m \in Candidates PROVE \E i \in FirstRows : Judges[i] = Judges[m] /\ i <= m
  <2>. DEFINE T == {i \in Candidates : Judges[i] = Judges[m]}
  <2>1. T \subseteq Nat /\ m \in T
    BY TableSize
  <2>. HIDE DEF T
  <2>2. PICK i \in T : \A j \in T : i <= j
    BY <2>1, SmallestElement
  <2>3. i \in Candidates /\ Judges[i] = Judges[m] /\ i \in 1..Len(Judges)
    BY TableSize DEF T
  <2>4. ASSUME NEW j \in 1..(i - 1) PROVE Judges[j] # Judges[i]
    <3>1. j \in Candidates /\ ~ (i <= j)
      BY <2>3, TableSize
    <3>. QED
      BY <2>2, <2>3, <3>1 DEF T
  <2>5. i \in FirstRows
    BY <2>3, <2>4 DEF FirstRows
  <2>. QED
    BY <2>1, <2>2, <2>3, <2>5
<1>2. ASSUME NEW i \in FirstRows, NEW j \in FirstRows, Judges[i] = Judges[j] PROVE i = j
  <2>1. i \in 1..Len(Judges) /\ j \in 1..Len(Judges) /\ Len(Judges) \in Nat
    BY FirstRowsSize, TableSize
  <2>2. ~ (i < j) /\ ~ (j < i)
    BY <1>2, <2>1 DEF FirstRows
  <2>. QED
    BY <2>1, <2>2
<1>. QED
  BY <1>1, <1>2


-------------------------------------------------------------------------------
(***************************************************************************)
(* The ranking itself.                                                     *)
(***************************************************************************)
LEMMA SumOfIs ==
  ASSUME voto \in [Candidates -> Int], NEW rows \in SUBSET Candidates
  PROVE  /\ IsFiniteSet(rows) /\ Values(voto, rows)
         /\ SumIs(SumOf(rows), voto, rows) /\ SumOf(rows) \in Int
<1>. DEFINE pick(s) == CHOOSE x \in s : TRUE
            adds(f) == f = [s \in SUBSET rows |->
                              IF s = {} THEN 0 ELSE voto[pick(s)] + f[s \ {pick(s)}]]
            F == CHOOSE f : adds(f)
<1>1. SumOf(rows) = F[rows]
  BY DEF SumOf, MapThenSumSet, MapThenFoldSet
<1>2. Values(voto, rows) /\ IsFiniteSet(rows)
  BY TableSize, FS_Subset DEF Values
<1>3. ASSUME NEW f PROVE adds(f) <=> IsSum(f, voto, SUBSET rows)
  BY DEF IsSum, pick
<1>. HIDE DEF adds
<1>4. \E f : IsSum(f, voto, SUBSET rows)
  BY <1>2, SumExists
<1>5. adds(F)
  BY <1>3, <1>4
<1>. HIDE DEF F
<1>6. IsSum(F, voto, SUBSET rows)
  BY <1>3, <1>5
<1>7. SumIs(F[rows], voto, rows)
  BY <1>2, <1>6, SumTyped
<1>8. F[rows] \in Int
  <2>1. PICK f \in [SUBSET rows -> Int] : F[rows] = f[rows]
    BY <1>7 DEF SumIs
  <2>. QED
    BY <2>1
<1>. QED
  BY <1>1, <1>2, <1>7, <1>8

LEMMA TotalsAre ==
  ASSUME voto \in [Candidates -> Int], NEW p \in DOMAIN Firsts
  PROVE  Totals[p] \in Int
<1>. DEFINE rows == {i \in Candidates : Judges[i] = Judges[Firsts[p]] /\ i # Firsts[p]}
<1>1. Totals[p] = voto[p] + SumOf(rows)
  BY DEF Totals
<1>2. rows \in SUBSET Candidates
  OBVIOUS
<1>. HIDE DEF rows
<1>3. SumOf(rows) \in Int /\ voto[p] \in Int
  BY <1>2, SumOfIs, FirstRowsSize
<1>. QED
  BY <1>1, <1>3

Ahead == {e \in (DOMAIN Firsts) \X (DOMAIN Firsts) : Precedes(e[1], e[2])}

LEMMA AheadIs ==
  \A p, q \in DOMAIN Firsts : <<p, q>> \in Ahead <=> Precedes(p, q)
BY DEF Ahead

LEMMA AheadOrders ==
  ASSUME voto \in [Candidates -> Int]
  PROVE  Ordered(Ahead, DOMAIN Firsts)
<1>1. \A p \in DOMAIN Firsts : p \in Int /\ Totals[p] \in Int
  BY TotalsAre, FirstRowsSize
<1>2. \A p \in DOMAIN Firsts : ~Precedes(p, p)
  BY <1>1 DEF Precedes
<1>3. \A p, q \in DOMAIN Firsts : p # q => Precedes(p, q) \/ Precedes(q, p)
  BY <1>1 DEF Precedes
<1>4. \A p, q, r \in DOMAIN Firsts : Precedes(p, q) /\ Precedes(q, r) => Precedes(p, r)
  BY <1>1 DEF Precedes
<1>. QED
  BY <1>2, <1>3, <1>4, AheadIs DEF Ordered

Before(p) == Cardinality(UpTo(Ahead, DOMAIN Firsts, p))
PlaceAt(r) == CHOOSE p \in DOMAIN Firsts : Cardinality({q \in DOMAIN Firsts : ~Precedes(p, q)}) = r

\* Ranks and places of judges are the same numbers in another order.
LEMMA PlacesRanked ==
  ASSUME voto \in [Candidates -> Int]
  PROVE  /\ \A r \in DOMAIN Firsts : PlaceAt(r) \in DOMAIN Firsts /\ Before(PlaceAt(r)) = r
         /\ \A p \in DOMAIN Firsts : Before(p) \in DOMAIN Firsts /\ PlaceAt(Before(p)) = p
         /\ \A p, q \in DOMAIN Firsts : Precedes(p, q) => Before(p) < Before(q)
<1>. DEFINE D == DOMAIN Firsts
<1>1. IsFiniteSet(D) /\ D = 1..Cardinality(D) /\ Ordered(Ahead, D)
  <2>1. D = 1..Cardinality(FirstRows) /\ Cardinality(FirstRows) \in Nat
    BY FirstRowsSize
  <2>2. IsFiniteSet(1..Cardinality(FirstRows)) /\ Cardinality(1..Cardinality(FirstRows)) = Cardinality(FirstRows)
    BY <2>1, FS_Interval
  <2>. QED
    BY <2>1, <2>2, AheadOrders
<1>2. ASSUME NEW p \in D PROVE Before(p) = Cardinality({q \in D : ~Precedes(p, q)})
  <2>1. UpTo(Ahead, D, p) = {q \in D : ~Precedes(p, q)}
    BY AheadIs DEF UpTo
  <2>. QED
    BY <2>1 DEF Before
<1>3. \A p, q \in D : Precedes(p, q) => Before(p) < Before(q)
  <2>1. \A p, q \in D : Precedes(p, q) => <<p, q>> \in Ahead
    BY AheadIs
  <2>. QED
    BY <1>1, <2>1, UpToLess DEF Before
<1>4. /\ \A p \in D : Before(p) \in D
      /\ \A p, q \in D : Before(p) = Before(q) => p = q
      /\ \A r \in D : \E p \in D : Before(p) = r
  <2>. HIDE DEF D
  <2>1. /\ \A p \in D : Cardinality(UpTo(Ahead, D, p)) \in 1..Cardinality(D)
        /\ \A p, q \in D : Cardinality(UpTo(Ahead, D, p)) = Cardinality(UpTo(Ahead, D, q)) => p = q
        /\ \A r \in 1..Cardinality(D) : \E p \in D : Cardinality(UpTo(Ahead, D, p)) = r
    BY <1>1, PlacesTaken
  <2>. QED
    BY <1>1, <2>1 DEF Before, D
<1>5. ASSUME NEW r \in D PROVE PlaceAt(r) \in D /\ Before(PlaceAt(r)) = r
  <2>1. \E p \in D : Cardinality({q \in D : ~Precedes(p, q)}) = r
    <3>1. PICK p \in D : Before(p) = r
      BY <1>4
    <3>2. Cardinality({q \in D : ~Precedes(p, q)}) = r
      BY <1>2, <3>1
    <3>. QED
      BY <3>2
  <2>2. PlaceAt(r) \in D /\ Cardinality({q \in D : ~Precedes(PlaceAt(r), q)}) = r
    BY <2>1 DEF PlaceAt
  <2>. QED
    BY <1>2, <2>2
<1>. QED
  BY <1>3, <1>4, <1>5

LEMMA RankingTyped ==
  ASSUME voto \in [Candidates -> Int]
  PROVE  /\ Classifica \in Seq(STRING) /\ Len(Classifica) = Cardinality(FirstRows)
         /\ DOMAIN Classifica = DOMAIN Firsts
         /\ \A r \in DOMAIN Firsts : Classifica[r] = Judges[Firsts[PlaceAt(r)]]
<1>1. Classifica = [r \in DOMAIN Firsts |-> Judges[Firsts[PlaceAt(r)]]]
  BY DEF Classifica, PlaceAt
<1>2. ASSUME NEW r \in DOMAIN Firsts PROVE Judges[Firsts[PlaceAt(r)]] \in STRING
  <2>1. PlaceAt(r) \in DOMAIN Firsts
    BY PlacesRanked
  <2>2. Firsts[PlaceAt(r)] \in Candidates
    BY <2>1, FirstsAre, FirstRowsSize
  <2>. QED
    BY <2>2, TableSize
<1>3. DOMAIN Firsts = 1..Cardinality(FirstRows) /\ Cardinality(FirstRows) \in Nat
  BY FirstRowsSize
<1>4. Classifica \in [1..Cardinality(FirstRows) -> STRING]
  BY <1>1, <1>2, <1>3
<1>5. Classifica \in Seq(STRING) /\ Len(Classifica) = Cardinality(FirstRows)
  BY <1>3, <1>4, SeqDef, LenProperties
<1>. QED
  BY <1>1, <1>5

-------------------------------------------------------------------------------
(***************************************************************************)
(* The ranking is right for tables in which each judge comes in at the row *)
(* of its place, as in the table of inizializza.                           *)
(***************************************************************************)
LEMMA InPlace == \A p \in DOMAIN Firsts : Firsts[p] = p
<1>. DEFINE N == Cardinality(FirstRows)
<1>1. N \in Nat /\ DOMAIN Firsts = 1..N /\ FirstRows = 1..N
  BY FirstRowsSize, JudgesAssumption
<1>2. ASSUME NEW i \in 1..N PROVE Cardinality({j \in 1..N : j <= i}) = i
  <2>. HIDE DEF N
  <2>1. {j \in 1..N : j <= i} = 1..i
    BY <1>1
  <2>2. Cardinality(1..i) = i
    BY <1>1, FS_Interval
  <2>. QED
    BY <2>1, <2>2
<1>3. ASSUME NEW p \in 1..N PROVE Firsts[p] = p
  <2>1. Firsts[p] = CHOOSE i \in FirstRows : Cardinality({j \in FirstRows : j <= i}) = p
    BY <1>1 DEF Firsts
  <2>. HIDE DEF N
  <2>2. Firsts[p] = CHOOSE i \in 1..N : Cardinality({j \in 1..N : j <= i}) = p
    BY <1>1, <2>1
  <2>3. \E i \in 1..N : Cardinality({j \in 1..N : j <= i}) = p
    BY <1>2
  <2>4. Firsts[p] \in 1..N /\ Cardinality({j \in 1..N : j <= Firsts[p]}) = p
    BY <2>2, <2>3
  <2>. QED
    BY <1>2, <2>4
<1>. QED
  BY <1>1, <1>3

LEMMA TotalsRight ==
  ASSUME voto \in [Candidates -> Int], NEW p \in DOMAIN Firsts
  PROVE  Totals[p] = TotalOf(Judges[Firsts[p]])
<1>. DEFINE all == {i \in Candidates : Judges[i] = Judges[p]}
            others == {i \in Candidates : Judges[i] = Judges[p] /\ i # p}
<1>1. Firsts[p] = p /\ p \in Candidates
  BY InPlace, FirstRowsSize
<1>2. Totals[p] = voto[p] + SumOf(others)
  BY <1>1 DEF Totals
<1>3. TotalOf(Judges[Firsts[p]]) = SumOf(all)
  BY <1>1 DEF TotalOf
<1>4. p \in all /\ others = all \ {p} /\ all \in SUBSET Candidates /\ others \in SUBSET Candidates
  BY <1>1
<1>. HIDE DEF all, others
<1>5. /\ IsFiniteSet(all) /\ Values(voto, all) /\ SumIs(SumOf(all), voto, all)
      /\ SumIs(SumOf(others), voto, all \ {p})
  BY <1>4, SumOfIs
<1>6. SumOf(all) = voto[p] + SumOf(others)
  BY <1>4, <1>5, SumTake
<1>. QED
  BY <1>2, <1>3, <1>6

LEMMA JudgesCounted == Cardinality(ToSet(Judges)) = Cardinality(FirstRows)
<1>. DEFINE f == [i \in FirstRows |-> Judges[i]]
<1>1. ToSet(Judges) = {Judges[i] : i \in Candidates}
  BY DEF ToSet, Candidates
<1>2. \A x \in ToSet(Judges) : \E i \in FirstRows : Judges[i] = x
  BY <1>1, JudgeComesIn
<1>3. \A i \in FirstRows : Judges[i] \in ToSet(Judges)
  BY <1>1, FirstRowsSize
<1>4. f \in Bijection(FirstRows, ToSet(Judges))
  BY <1>2, <1>3, JudgeComesIn DEF Bijection, Injection, Surjection, IsInjective
<1>5. ExistsBijection(FirstRows, ToSet(Judges))
  BY <1>4 DEF ExistsBijection
<1>. QED
  BY <1>5, FirstRowsSize, FS_Bijection

LEMMA RankingRight ==
  ASSUME voto \in [Candidates -> Int]
  PROVE  IsRanking(Classifica)
<1>. DEFINE D == DOMAIN Firsts
<1>1. /\ Len(Classifica) = Cardinality(FirstRows) /\ DOMAIN Classifica = D
      /\ \A r \in D : Classifica[r] = Judges[Firsts[PlaceAt(r)]]
  BY RankingTyped
<1>2. /\ \A r \in D : PlaceAt(r) \in D /\ Before(PlaceAt(r)) = r
      /\ \A p \in D : Before(p) \in D /\ PlaceAt(Before(p)) = p
      /\ \A p, q \in D : Precedes(p, q) => Before(p) < Before(q)
  BY PlacesRanked
<1>. HIDE DEF D
<1>3. ToSet(Classifica) = ToSet(Judges)
  <2>1. /\ ToSet(Classifica) = {Classifica[r] : r \in D}
        /\ ToSet(Judges) = {Judges[i] : i \in Candidates}
    BY <1>1 DEF ToSet, Candidates
  <2>2. ASSUME NEW r \in D PROVE Classifica[r] \in ToSet(Judges)
    <3>1. Firsts[PlaceAt(r)] \in Candidates
      BY <1>2, FirstsAre, FirstRowsSize DEF D
    <3>. QED
      BY <1>1, <2>1, <3>1
  <2>3. ASSUME NEW m \in Candidates PROVE \E r \in D : Classifica[r] = Judges[m]
    <3>1. PICK i \in FirstRows : Judges[i] = Judges[m]
      BY JudgeComesIn
    <3>2. PICK p \in D : Firsts[p] = i
      BY FirstsAre DEF D
    <3>. QED
      BY <1>1, <1>2, <3>1, <3>2
  <2>. QED
    BY <2>1, <2>2, <2>3
<1>4. ASSUME NEW i \in D, NEW j \in D, i < j
      PROVE  TotalOf(Classifica[i]) >= TotalOf(Classifica[j])
  <2>. DEFINE p == PlaceAt(i)  q == PlaceAt(j)
  <2>1. p \in D /\ q \in D /\ Before(p) = i /\ Before(q) = j
    BY <1>2
  <2>2. TotalOf(Classifica[i]) = Totals[p] /\ TotalOf(Classifica[j]) = Totals[q]
    BY <1>1, <2>1, TotalsRight DEF D
  <2>. HIDE DEF p, q
  <2>3. i \in Int /\ j \in Int /\ p \in Int /\ q \in Int /\ Totals[p] \in Int /\ Totals[q] \in Int
    BY <2>1, TotalsAre, FirstRowsSize DEF D
  <2>4. p # q /\ ~Precedes(q, p)
    BY <1>2, <1>4, <2>1, <2>3
  <2>5. Totals[p] >= Totals[q]
    BY <2>3, <2>4 DEF Precedes
  <2>. QED
    BY <2>2, <2>5
<1>. QED
  BY <1>1, <1>3, <1>4, JudgesCounted DEF IsRanking

-------------------------------------------------------------------------------
(***************************************************************************)
(* The types of all variables, and the rankings that are sent.             *)
(***************************************************************************)
Asked == [xid : 1..MaxCalls, call : Votes \cup {Rank}]
Answered == [xid : 1..MaxCalls, body : Seq(STRING)]

Bounded ==
  /\ cpc \in [Clients -> {"off", "prompt", "vote", "rank"}]
  /\ linked \in [Clients -> BOOLEAN]
  /\ asked \in [Clients -> 0..MaxCalls]
  /\ c2s \in [Clients -> Seq(Asked)]
  /\ s2c \in [Clients -> Seq(Answered)]

LEMMA BoundedIs == Bounded /\ CountInv => TypeOK
BY DEF Bounded, CountInv, TypeOK, Asked, Answered

LEMMA InitBounded == Init => Bounded
BY VotesAssumption DEF Init, Bounded

LEMMA RequestBounded ==
  ASSUME Bounded, NEW c \in Clients, NEW call \in Votes \cup {Rank}, Request(c, call)
  PROVE  Bounded'
<1>. DEFINE e == [xid |-> asked[c] + 1, call |-> call]
<1>1. asked[c] + 1 \in 1..MaxCalls /\ asked' = [asked EXCEPT ![c] = asked[c] + 1] /\ c2s[c] \in Seq(Asked)
  BY VotesAssumption DEF Bounded, Request
<1>2. e \in Asked
  BY <1>1 DEF Asked
<1>3. c2s' = [c2s EXCEPT ![c] = Append(c2s[c], e)] \/ c2s' = c2s
  BY <1>1 DEF Request, Bounded
<1>. HIDE DEF e
<1>4. Append(c2s[c], e) \in Seq(Asked)
  BY <1>1, <1>2
<1>5. c2s' \in [Clients -> Seq(Asked)]
  BY <1>3, <1>4 DEF Bounded
<1>6. asked' \in [Clients -> 0..MaxCalls]
  BY <1>1, VotesAssumption DEF Bounded
<1>. QED
  BY <1>5, <1>6 DEF Bounded, Request, Goto

LEMMA LeavesBounded ==
  ASSUME Bounded, NEW c \in Clients, Leaves(c)
  PROVE  Bounded'
<1>1. PICK k \in 0..Len(c2s[c]) : c2s' = [c2s EXCEPT ![c] = SubSeq(c2s[c], 1, k)]
  BY DEF Leaves
<1>2. c2s[c] \in Seq(Asked)
  BY DEF Bounded
<1>3. SubSeq(c2s[c], 1, k) \in Seq(Asked)
  BY <1>2
<1>. QED
  BY <1>1, <1>3 DEF Bounded, Leaves

LEMMA ServerBounded ==
  ASSUME Bounded, voto \in [Candidates -> Int], NEW c \in Clients, Server(c)
  PROVE  Bounded'
<1>. DEFINE q == c2s[c]
            sent(body) == Append(s2c[c], [xid |-> Head(q).xid, body |-> body])
<1>1. q \in Seq(Asked) /\ q # <<>> /\ s2c[c] \in Seq(Answered)
  BY DEF Bounded, Server, Vote, Classify, Dispatch
<1>2. Head(q) \in Asked /\ Tail(q) \in Seq(Asked)
  BY <1>1, HeadTailProperties
<1>3. ASSUME NEW body \in Seq(STRING) PROVE sent(body) \in Seq(Answered)
  <2>1. [xid |-> Head(q).xid, body |-> body] \in Answered
    BY <1>2 DEF Asked, Answered
  <2>. HIDE DEF q
  <2>. QED
    BY <1>1, <2>1
<1>4. s2c' = s2c \/ \E body \in {<<>>, Classifica} : s2c' = [s2c EXCEPT ![c] = sent(body)]
  BY DEF Server, Vote, Classify, Reply
<1>5. {<<>>, Classifica} \subseteq Seq(STRING)
  BY RankingTyped
<1>. HIDE DEF sent
<1>6. s2c' \in [Clients -> Seq(Answered)]
  BY <1>3, <1>4, <1>5 DEF Bounded
<1>. QED
  BY <1>2, <1>6 DEF Bounded, Server, Vote, Classify, Dispatch

LEMMA NextBounded == CountInv /\ Bounded /\ [Next]_vars => Bounded'
<1>. SUFFICES ASSUME CountInv, Bounded, [Next]_vars PROVE Bounded'
  OBVIOUS
<1>1. CASE UNCHANGED vars
  BY <1>1 DEF Bounded, vars
<1>2. CASE Restart
  BY <1>2 DEF Bounded, Restart
<1>3. ASSUME NEW c \in Clients, Start(c) PROVE Bounded'
  BY <1>3 DEF Bounded, Start, Goto
<1>4. ASSUME NEW c \in Clients, User(c) PROVE Bounded'
  BY <1>4, RequestBounded DEF User
<1>5. ASSUME NEW c \in Clients, Fails(c) \/ Ends(c) PROVE Bounded'
  <2>1. CASE Leaves(c)
    BY <2>1, LeavesBounded
  <2>2. CASE Goto(c, "vote", "prompt") /\ UNCHANGED <<linked, asked, c2s, s2c, voto, net>>
    BY <2>2 DEF Bounded, Goto
  <2>. QED
    BY <1>5, <2>1, <2>2 DEF Fails, Ends
<1>6. ASSUME NEW c \in Clients, TakeAnswer(c) PROVE Bounded'
  <2>1. s2c[c] \in Seq(Answered) /\ s2c[c] # <<>>
    BY <1>6 DEF Bounded, TakeAnswer
  <2>2. Tail(s2c[c]) \in Seq(Answered)
    BY <2>1, HeadTailProperties
  <2>3. cpc' \in [Clients -> {"off", "prompt", "vote", "rank"}]
    BY <1>6 DEF Bounded, TakeAnswer
  <2>. QED
    BY <1>6, <2>2, <2>3 DEF Bounded, TakeAnswer
<1>7. ASSUME NEW c \in Clients, Server(c) PROVE Bounded'
  BY <1>7, ServerBounded DEF CountInv
<1>. QED
  BY <1>1, <1>2, <1>3, <1>4, <1>5, <1>6, <1>7 DEF Next, Client, Broken, Expire

\* Every variable has its type; the numbers of calls stay within the bound, the
\* table keeps its rows, and what clients get are sequences of judges.
THEOREM TypeCorrect == Spec => []TypeOK
<1>. QED
  BY InitVotes, NextVotes, InitCount, NextCount, InitBounded, NextBounded, BoundedIs, PTL DEF Spec

\* Only the server makes what a client has to read longer.
LEMMA LongerStep ==
  ASSUME Bounded, Next, NEW c \in Clients, Len(s2c'[c]) > Len(s2c[c])
  PROVE  /\ s2c[c] \in Seq(Answered)
         /\ \E xid : \E body \in {<<>>, Classifica} :
              s2c'[c] = Append(s2c[c], [xid |-> xid, body |-> body])
<1>1. s2c[c] \in Seq(Answered) /\ Len(s2c[c]) \in Nat /\ ~ (Len(s2c[c]) > Len(s2c[c]))
  BY DEF Bounded
<1>2. PICK d \in Clients : Server(d)
  <2>1. s2c' # s2c
    BY <1>1
  <2>2. ASSUME NEW d \in Clients, Leaves(d) PROVE FALSE
    <3>1. s2c'[c] = s2c[c] \/ s2c'[c] = <<>>
      BY <2>2 DEF Leaves, Bounded
    <3>2. ~ (Len(<<>>) > Len(s2c[c]))
      BY <1>1
    <3>. QED
      BY <1>1, <3>1, <3>2
  <2>3. ASSUME NEW d \in Clients, TakeAnswer(d) PROVE FALSE
    <3>1. s2c'[c] = s2c[c] \/ (d = c /\ s2c[c] # <<>> /\ s2c'[c] = Tail(s2c[c]))
      BY <2>3 DEF TakeAnswer, Bounded
    <3>2. s2c[c] # <<>> => ~ (Len(Tail(s2c[c])) > Len(s2c[c]))
      BY <1>1, HeadTailProperties
    <3>. QED
      BY <1>1, <3>1, <3>2
  <2>. QED
    BY <2>1, <2>2, <2>3 DEF Next, Restart, Start, User, Request, Ends, Client, Broken, Expire, Fails
<1>3. d = c
  BY <1>1, <1>2 DEF Server, Vote, Classify, Reply, Bounded
<1>4. s2c'[c] = s2c[c] \/ \E xid : \E body \in {<<>>, Classifica} :
        s2c'[c] = Append(s2c[c], [xid |-> xid, body |-> body])
  BY <1>2, <1>3 DEF Server, Vote, Classify, Reply, Bounded
<1>. QED
  BY <1>1, <1>4

LEMMA RankingStep ==
  ASSUME CountInv, Bounded, Next, NEW c \in Clients,
         Len(s2c'[c]) > Len(s2c[c]), Last(s2c'[c]).body # <<>>
  PROVE  IsRanking(Last(s2c'[c]).body)
<1>1. PICK xid, body : /\ body \in {<<>>, Classifica}
                        /\ s2c'[c] = Append(s2c[c], [xid |-> xid, body |-> body])
  BY LongerStep
<1>. DEFINE e == [xid |-> xid, body |-> body]
<1>2. s2c[c] \in Seq(Answered)
  BY DEF Bounded
<1>3. e.body = body
  OBVIOUS
<1>. HIDE DEF e
<1>4. Last(Append(s2c[c], e)) = e
  <2>1. Append(s2c[c], e)[Len(s2c[c]) + 1] = e /\ Len(Append(s2c[c], e)) = Len(s2c[c]) + 1
    <3>. DEFINE S == Answered \cup {e}
    <3>1. s2c[c] \in Seq(S) /\ e \in S
      BY <1>2
    <3>. HIDE DEF S
    <3>. QED
      BY <3>1, AppendProperties
  <2>. QED
    BY <2>1 DEF Last
<1>5. Last(s2c'[c]).body = body
  BY <1>1, <1>3, <1>4 DEF e
<1>6. body = Classifica
  BY <1>1, <1>5
<1>. QED
  BY <1>5, <1>6, RankingRight DEF CountInv

\* Every ranking that the server sends has each judge once, and nobody behind a judge
\* with fewer votes, whatever the votes are and for every table like that of
\* inizializza, in which the judges come in at the rows of their places.
THEOREM RankingIsSorted == Spec => RankingSorted
<1>1. CountInv /\ Bounded /\ [Next]_vars =>
        [\A c \in Clients :
           Len(s2c'[c]) > Len(s2c[c]) /\ Last(s2c'[c]).body # <<>> => IsRanking(Last(s2c'[c]).body)]_vars
  BY RankingStep
<1>. QED
  BY InitVotes, NextVotes, InitCount, NextCount, InitBounded, NextBounded, <1>1, PTL DEF Spec, RankingSorted
===============================================================================
