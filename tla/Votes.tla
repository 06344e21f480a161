--------------------------------- MODULE Votes ---------------------------------
(***************************************************************************)
(* The vote service of esercitazione9: one server process dispatches calls *)
(* of remote procedures over TCP one at a time, clients call esprimi_voto  *)
(* and classifica_giudici and wait 25 seconds at most for the result.      *)
(*                                                                         *)
(* The runtime of the calls (clnt_call, svc_run) is external: requests     *)
(* carry a number, a call takes the answer with its own.                   *)
(***************************************************************************)
EXTENDS Integers, Sequences, FiniteSets, FiniteSetsExt, SequencesExt

CONSTANTS
  Clients,
  Judges,     \* the table of inizializza: the judge of each candidate
  Names,      \* the numbers of the candidates users name; others than the table's too
  Rank,       \* the call of classifica_giudici
  MaxCalls    \* bound: the calls of a client, over all its runs

ASSUME VotesAssumption ==
  Names \subseteq Int /\ Judges \in Seq(STRING) /\ Judges # <<>> /\ MaxCalls \in Nat

ASSUME ClientsAssumption == IsFiniteSet(Clients)
ASSUME RankAssumption == Rank \notin [name : Int, by : {1, -1}]

Candidates == DOMAIN Judges

VARIABLES
  cpc,        \* where each client is; "vote" and "rank" are the two calls
  linked,     \* the server that it has connected to is the one that runs
  asked,      \* the number of its last request
  c2s, s2c,   \* the requests and answers on their way
  voto,       \* the votes of each candidate
  net         \* history: the votes sent to this server and not lost on the way

vars == <<cpc, linked, asked, c2s, s2c, voto, net>>

NoVotes == [k \in Candidates |-> 0]

Init ==
  /\ cpc = [c \in Clients |-> "off"]
  /\ linked = [c \in Clients |-> FALSE]
  /\ asked = [c \in Clients |-> 0]
  /\ c2s = [c \in Clients |-> <<>>]
  /\ s2c = [c \in Clients |-> <<>>]
  /\ voto = NoVotes
  /\ net = NoVotes

\* esprimi_voto: every row of that name, one more ("a") or one less ("s").
Votes == [name : Names, by : {1, -1}]
Counted(totals, v) == [k \in DOMAIN totals |-> IF k = v.name THEN totals[k] + v.by ELSE totals[k]]

\* What the requests q are worth to candidate k.
OnTheWay(q, k) ==
  LET votes(by) == {i \in DOMAIN q : q[i].call = [name |-> k, by |-> by]}
  IN  Cardinality(votes(1)) - Cardinality(votes(-1))

-------------------------------------------------------------------------------
(***************************************************************************)
(* The ranking.                                                            *)
(***************************************************************************)
\* The rows whose judge comes in there.
FirstRows == {i \in Candidates : \A j \in 1..(i - 1) : Judges[j] # Judges[i]}

\* inizializza: no judge comes in after a row of a judge who has come in before.
ASSUME JudgesAssumption == FirstRows = 1..Cardinality(FirstRows)

\* Each takes the next free place.
Firsts ==
  [p \in 1..Cardinality(FirstRows) |->
     CHOOSE i \in FirstRows : Cardinality({j \in FirstRows : j <= i}) = p]

SumOf(rows) == MapThenSumSet(LAMBDA i : voto[i], rows)

\* The judge at place p starts with the votes of the row that has the number p,
\* not of the row it comes in with; the other rows of the judge are added.
Totals ==
  [p \in DOMAIN Firsts |->
     voto[p] + SumOf({i \in Candidates : Judges[i] = Judges[Firsts[p]] /\ i # Firsts[p]})]

\* Fault: the sort compares the wrong way round.
PrecedesLess(p, q) == Totals[p] < Totals[q] \/ (Totals[p] = Totals[q] /\ p < q)

\* The bubble sort puts larger totals in front and leaves equal ones in their order.
Precedes(p, q) == Totals[p] > Totals[q] \/ (Totals[p] = Totals[q] /\ p < q)

\* At rank r is the judge whose place does not precede r places, with itself.
Classifica ==
  LET place(r) == CHOOSE p \in DOMAIN Firsts : Cardinality({q \in DOMAIN Firsts : ~Precedes(p, q)}) = r
  IN  [r \in DOMAIN Firsts |-> Judges[Firsts[place(r)]]]

-------------------------------------------------------------------------------
(***************************************************************************)
(* The clients.                                                            *)
(***************************************************************************)
Goto(c, from, to) == cpc[c] = from /\ cpc' = [cpc EXCEPT ![c] = to]

Calling(c) == cpc[c] \in {"vote", "rank"}

Start(c) ==
  /\ asked[c] < MaxCalls /\ c2s[c] = <<>>
  /\ Goto(c, "off", "prompt")
  /\ linked' = [linked EXCEPT ![c] = TRUE]
  /\ UNCHANGED <<asked, c2s, s2c, voto, net>>

\* The request goes out, also on a connection whose end is not noticed yet.
Request(c, call) ==
  /\ asked[c] < MaxCalls
  /\ Goto(c, "prompt", IF call = Rank THEN "rank" ELSE "vote")
  /\ asked' = [asked EXCEPT ![c] = @ + 1]
  /\ IF linked[c]
     THEN /\ c2s' = [c2s EXCEPT ![c] = Append(@, [xid |-> asked'[c], call |-> call])]
          /\ net' = IF call = Rank THEN net ELSE Counted(net, call)
     ELSE UNCHANGED <<c2s, net>>
  /\ UNCHANGED <<linked, s2c, voto>>

\* The client's process ends, and what it has sent may get through or not.
Leaves(c) ==
  /\ cpc' = [cpc EXCEPT ![c] = "off"]
  /\ s2c' = [s2c EXCEPT ![c] = <<>>]
  /\ \E k \in 0..Len(c2s[c]) :
       LET lost == SubSeq(c2s[c], k + 1, Len(c2s[c]))
       IN  /\ c2s' = [c2s EXCEPT ![c] = SubSeq(@, 1, k)]
           /\ net' = [i \in Candidates |-> net[i] - OnTheWay(lost, i)]
  /\ UNCHANGED <<linked, asked, voto>>

Ends(c) == cpc[c] # "off" /\ Leaves(c)

\* Without a result the main loop ignores a vote and gives up a ranking.
Fails(c) ==
  \/ Goto(c, "vote", "prompt") /\ UNCHANGED <<linked, asked, c2s, s2c, voto, net>>
  \/ cpc[c] = "rank" /\ Leaves(c)

\* Fault: the time limit is set for the ranking only.
ExpireRank(c) == cpc[c] = "rank" /\ Fails(c)

\* The 25 seconds of TIMEOUT are over.
Expire(c) == Calling(c) /\ Fails(c)

\* The connection has ended, and nothing is left to read.
Broken(c) == ~linked[c] /\ s2c[c] = <<>> /\ Fails(c)

\* Fault: the next answer is taken, whichever call it is for.
TakeAny(c) ==
  /\ Calling(c) /\ s2c[c] # <<>>
  /\ s2c' = [s2c EXCEPT ![c] = Tail(@)]
  /\ cpc' = [cpc EXCEPT ![c] = "prompt"]
  /\ UNCHANGED <<linked, asked, c2s, voto, net>>

\* clnt_call reads answers and drops those of calls given up before.
TakeAnswer(c) ==
  /\ Calling(c) /\ s2c[c] # <<>>
  /\ s2c' = [s2c EXCEPT ![c] = Tail(@)]
  /\ cpc' = IF Head(s2c[c]).xid = asked[c] THEN [cpc EXCEPT ![c] = "prompt"] ELSE cpc
  /\ UNCHANGED <<linked, asked, c2s, voto, net>>

Client(c) == TakeAnswer(c) \/ Broken(c) \/ Expire(c)

User(c) == \E call \in Votes \cup {Rank} : Request(c, call)

-------------------------------------------------------------------------------
(***************************************************************************)
(* The server.                                                             *)
(***************************************************************************)
\* svc_sendreply to a client that has gone has no effect.
Reply(c, body) ==
  s2c' = IF cpc[c] = "off" THEN s2c
         ELSE [s2c EXCEPT ![c] = Append(@, [xid |-> Head(c2s[c]).xid, body |-> body])]

Dispatch(c) == c2s[c] # <<>> /\ c2s' = [c2s EXCEPT ![c] = Tail(@)]

\* Fault: the table is filled in at every call.
VoteFresh(c) ==
  /\ Dispatch(c)
  /\ Head(c2s[c]).call # Rank
  /\ voto' = Counted(NoVotes, Head(c2s[c]).call)
  /\ Reply(c, <<>>) \/ UNCHANGED s2c
  /\ UNCHANGED <<cpc, linked, asked, net>>

\* Fault: a name that is not in the table gets a row.
VoteNew(c) ==
  /\ Dispatch(c)
  /\ Head(c2s[c]).call # Rank
  /\ voto' = LET v == Head(c2s[c]).call
                 rows == DOMAIN voto \cup {v.name}
             IN  Counted([k \in rows |-> IF k \in DOMAIN voto THEN voto[k] ELSE 0], v)
  /\ Reply(c, <<>>) \/ UNCHANGED s2c
  /\ UNCHANGED <<cpc, linked, asked, net>>

\* esprimi_voto_1_svc returns no value: what the dispatcher finds instead is NULL,
\* and there is no answer, or is not, and there is an empty one.
Vote(c) ==
  /\ Dispatch(c)
  /\ Head(c2s[c]).call # Rank
  /\ voto' = Counted(voto, Head(c2s[c]).call)
  /\ Reply(c, <<>>) \/ UNCHANGED s2c
  /\ UNCHANGED <<cpc, linked, asked, net>>

Classify(c) ==
  /\ Dispatch(c)
  /\ Head(c2s[c]).call = Rank
  /\ Reply(c, Classifica)
  /\ UNCHANGED <<cpc, linked, asked, voto, net>>

\* The server stops and is started again: votes and connections are gone.
Restart ==
  /\ linked' = [c \in Clients |-> FALSE]
  /\ c2s' = [c \in Clients |-> <<>>]
  /\ voto' = NoVotes
  /\ net' = NoVotes
  /\ UNCHANGED <<cpc, asked, s2c>>

Server(c) == Vote(c) \/ Classify(c)

Next ==
  \/ Restart
  \/ \E c \in Clients : Start(c) \/ User(c) \/ Ends(c) \/ Client(c) \/ Server(c)

Spec == Init /\ [][Next]_vars

\* Clients and the server are scheduled fairly, and svc_run looks at every
\* connection in each round.
FairSpec ==
  /\ Spec
  /\ \A c \in Clients : WF_vars(Client(c)) /\ WF_vars(Server(c))

-------------------------------------------------------------------------------
TypeOK ==
  /\ cpc \in [Clients -> {"off", "prompt", "vote", "rank"}]
  /\ linked \in [Clients -> BOOLEAN]
  /\ asked \in [Clients -> 0..MaxCalls]
  /\ c2s \in [Clients -> Seq([xid : 1..MaxCalls, call : Votes \cup {Rank}])]
  /\ s2c \in [Clients -> Seq([xid : 1..MaxCalls, body : Seq(STRING)])]
  /\ voto \in [Candidates -> Int]
  /\ net \in [Candidates -> Int]

\* A vote counts once: what the table has and what is on the way is what clients
\* have sent, also votes they have stopped waiting for, and whatever interleaving
\* of connections svc_run takes.
VotesKept ==
  \A k \in Candidates : net[k] = voto[k] + MapThenSumSet(LAMBDA c : OnTheWay(c2s[c], k), Clients)

\* The votes of all candidates of a judge.
TotalOf(judge) == SumOf({i \in Candidates : Judges[i] = judge})

\* Every ranking the server sends has each judge once, and nobody behind a judge
\* with fewer votes.
IsRanking(r) ==
  /\ ToSet(r) = ToSet(Judges) /\ Len(r) = Cardinality(ToSet(Judges))
  /\ \A i, j \in DOMAIN r : i < j => TotalOf(r[i]) >= TotalOf(r[j])

RankingSorted ==
  [][\A c \in Clients :
       Len(s2c'[c]) > Len(s2c[c]) /\ Last(s2c'[c]).body # <<>> => IsRanking(Last(s2c'[c]).body)]_vars

\* A client that gets the result of classifica_giudici has a ranking, not the late
\* answer to a vote, and all its votes are counted in it.
OwnVotesRanked ==
  [][\A c \in Clients :
       cpc[c] = "rank" /\ cpc'[c] = "prompt" => Head(s2c[c]).body # <<>> /\ c2s[c] = <<>>]_vars

\* Every call ends, although votes may get no answer.
CallsEnd == \A c \in Clients : Calling(c) ~> ~Calling(c)
===============================================================================
