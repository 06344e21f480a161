------------------------------ MODULE FileQueries ------------------------------
(***************************************************************************)
(* The two servers that answer questions about files over UDP, one request *)
(* at a time: serverDatagram of esercitazione_3/es1 (the longest word) and *)
(* the RPC program of esercitazione7 (contafile, contadir), with their     *)
(* clients.  A behaviour has one of them: the variable program says which. *)
(*                                                                         *)
(* The network loses, delays and reorders datagrams.  The client of the    *)
(* words waits for ever and never asks again; the RPC runtime, external,   *)
(* sends a request again until it has an answer with its number or the 25  *)
(* seconds of the call are over, and the server does not know a repetition *)
(* from a new request.  Number and port of a request are one number here.  *)
(***************************************************************************)
EXTENDS Integers, Sequences, FiniteSets, FiniteSetsExt, Functions

CONSTANTS
  Clients,
  Names,          \* the files and directories users name
  Texts,          \* the text of each name that is a file
  Dirs,           \* how many files each name has that is a directory
  Letter, Blank, Newline,   \* what texts are made of
  Sizes,          \* the sizes users compare with
  MaxCalls,       \* bound: the requests of all clients and all their runs
  MaxFds          \* the descriptors a server has beside its sockets

IsText(n) == n \in DOMAIN Texts
IsDir(n) == n \in DOMAIN Dirs

ASSUME DiskAssumption ==
  /\ DOMAIN Texts \cup DOMAIN Dirs \subseteq Names
  /\ \A n \in Names : ~(IsText(n) /\ IsDir(n))
  /\ \A n \in DOMAIN Texts : Texts[n] \in Seq({Letter, Blank, Newline})
  /\ \A n \in DOMAIN Dirs : Dirs[n] \in Nat
\* Something can be asked of the server of the words.
ASSUME NamesAssumption == \E n \in Names : ~IsDir(n)
ASSUME ClientsAssumption == IsFiniteSet(Clients)
ASSUME BoundsAssumption == Sizes \subseteq Int /\ MaxCalls \in Nat /\ MaxFds \in Nat

VARIABLES
  program,    \* "word" or "scan"
  cpc,        \* where each client is
  calls,      \* the number of its last request
  ask,        \* what that asks for
  answer,     \* the answer to it its user has seen, or None
  requests,   \* the requests on their way
  replies,    \* the answers on their way
  fds,        \* the descriptors that are open for good
  result      \* the variable result of serverDatagram

clientVars == <<cpc, calls, ask, answer>>
vars == <<program, clientVars, requests, replies, fds, result>>

Asks(p) ==
  IF p = "word" THEN [op : {"word"}, name : {n \in Names : ~IsDir(n)}, size : {0}]
  ELSE [op : {"file"}, name : {n \in Names : ~IsDir(n)}, size : {0}]
       \cup [op : {"dir"}, name : {n \in Names : ~IsText(n)}, size : Sizes]

None == [body |-> <<>>, lack |-> TRUE]

Init ==
  /\ program \in {"word", "scan"}
  /\ cpc = [c \in Clients |-> "off"]
  /\ calls = [c \in Clients |-> 0]
  /\ ask = [c \in Clients |-> CHOOSE a \in Asks("word") : TRUE]
  /\ answer = [c \in Clients |-> None]
  /\ requests = {} /\ replies = {}
  /\ fds = 0 /\ result = 0

-------------------------------------------------------------------------------
(***************************************************************************)
(* What the servers compute.                                               *)
(***************************************************************************)
Separators == {Blank, Newline}

\* Fault: the count of a word goes on in the next one.
ScanOn(text, start) ==
  LET state[i \in 0..Len(text)] ==
        IF i = 0 THEN [tmp |-> 0, max |-> start]
        ELSE LET s == state[i - 1] IN
             IF text[i] \notin Separators THEN [s EXCEPT !.tmp = @ + 1]
             ELSE [s EXCEPT !.max = IF @ < s.tmp THEN s.tmp ELSE @]
  IN  state[Len(text)].max

\* The loop over the characters: a separator ends the count of a word; a word that
\* the end of the file ends is not looked at.  start is what result was before.
Scan(text, start) ==
  LET state[i \in 0..Len(text)] ==
        IF i = 0 THEN [tmp |-> 0, max |-> start]
        ELSE LET s == state[i - 1] IN
             IF text[i] \notin Separators THEN [s EXCEPT !.tmp = @ + 1]
             ELSE [tmp |-> 0, max |-> IF s.max < s.tmp THEN s.tmp ELSE s.max]
  IN  state[Len(text)].max

\* contafile: characters, separators, ends of lines.
Counts(text) ==
  LET number(chars) == Cardinality({i \in DOMAIN text : text[i] \in chars})
  IN  <<Len(text), number(Separators), number({Newline})>>

Refused(op) == IF op = "file" THEN <<-1, -1, -1>> ELSE <<-1>>

-------------------------------------------------------------------------------
(***************************************************************************)
(* The clients.                                                            *)
(***************************************************************************)
Goto(c, from, to) == cpc[c] = from /\ cpc' = [cpc EXCEPT ![c] = to]

Calls == FoldFunction(LAMBDA x, y : x + y, 0, calls)

Start(c) ==
  /\ Calls < MaxCalls
  /\ Goto(c, "off", "prompt")
  /\ UNCHANGED <<program, calls, ask, answer, requests, replies, fds, result>>

Request(c) == [client |-> c, xid |-> calls[c], ask |-> ask[c]]

\* The request arrives some time, or is lost.
Call(c) ==
  /\ Calls < MaxCalls
  /\ Goto(c, "prompt", "call")
  /\ calls' = [calls EXCEPT ![c] = @ + 1]
  /\ \E a \in Asks(program) : ask' = [ask EXCEPT ![c] = a]
  /\ requests' = requests \cup {Request(c)'}
  /\ answer' = [answer EXCEPT ![c] = None]
  /\ UNCHANGED <<program, replies, fds, result>>

\* clnt_call sends its request again.
Resend(c) ==
  /\ program = "scan" /\ cpc[c] = "call"
  /\ requests' = requests \cup {Request(c)}
  /\ UNCHANGED <<program, clientVars, replies, fds, result>>

\* Fault: an answer to an earlier call is taken.
TakeAny(c, r) ==
  /\ r \in replies /\ r.client = c
  /\ Goto(c, "call", "prompt")
  /\ answer' = [answer EXCEPT ![c] = [body |-> r.body, lack |-> r.lack]]
  /\ replies' = replies \ {r}
  /\ UNCHANGED <<program, calls, ask, requests, fds, result>>

\* The answer to this call is taken; the user sees it.
Take(c, r) ==
  /\ r \in replies /\ r.client = c /\ r.xid = calls[c]
  /\ Goto(c, "call", "prompt")
  /\ answer' = [answer EXCEPT ![c] = [body |-> r.body, lack |-> r.lack]]
  /\ replies' = replies \ {r}
  /\ UNCHANGED <<program, calls, ask, requests, fds, result>>

Leaves(c) ==
  /\ cpc' = [cpc EXCEPT ![c] = "off"]
  /\ answer' = [answer EXCEPT ![c] = None]
  /\ UNCHANGED <<program, calls, ask, requests, replies, fds, result>>

\* Fault: only contafile has a time limit.
ExpireFile(c) == program = "scan" /\ cpc[c] = "call" /\ ask[c].op = "file" /\ Leaves(c)

\* The 25 seconds are over: the stub returns NULL and main exits.
Expire(c) == program = "scan" /\ cpc[c] = "call" /\ Leaves(c)

\* The end of input, or a signal.
Ends(c) == cpc[c] # "off" /\ Leaves(c)

-------------------------------------------------------------------------------
(***************************************************************************)
(* The servers.  A request is served in one step: nobody else changes what *)
(* a server uses, and a server that stops on the way loses its answer.     *)
(***************************************************************************)
Answer(m, body, lack) ==
  replies' = replies \cup {[client |-> m.client, xid |-> m.xid, ask |-> m.ask, body |-> body, lack |-> lack]}

Serve(m, op) ==
  /\ m \in requests /\ m.ask.op = op
  /\ requests' = requests \ {m}
  /\ UNCHANGED <<program, clientVars>>

\* Fault: more stays open than there is.
LeakAny(n) == fds' = fds + n

\* Up to n descriptors are opened and not closed.
Leak(n) == fds' = Min({fds + n, MaxFds})

\* The file stays open, and result starts from the request before.
ServeWord(m) ==
  /\ Serve(m, "word")
  /\ IF IsText(m.ask.name) /\ fds < MaxFds
     THEN /\ Leak(1)
          /\ result' = Scan(Texts[m.ask.name], result)
     ELSE result' = -1 /\ UNCHANGED fds
  /\ Answer(m, <<result'>>, IsText(m.ask.name) /\ fds = MaxFds)

Contafile(m) ==
  /\ Serve(m, "file")
  /\ IF IsText(m.ask.name) /\ fds < MaxFds
     THEN Answer(m, Counts(Texts[m.ask.name]), FALSE)
     ELSE Answer(m, Refused("file"), IsText(m.ask.name))
  /\ UNCHANGED <<fds, result>>

\* The arguments of lseek are the wrong way round: it goes to offset 2 and returns
\* that, whatever the size of the file.
LongEnough(size) == 2 >= size

\* The directory stays open, and so do its entries "." and "..", when there are
\* descriptors for them.  Files that come after them may find none left, and are
\* not counted.
Contadir(m) ==
  /\ Serve(m, "dir")
  /\ LET n == m.ask.name
         enough == fds + 3 < MaxFds
         counted == IF LongEnough(m.ask.size) THEN Dirs[n] ELSE 0
     IN  IF IsDir(n) /\ fds < MaxFds
         THEN /\ Leak(3)
              /\ \E k \in 0..counted :
                   /\ enough => k = counted
                   /\ fds + 1 = MaxFds => k = 0
                   /\ Answer(m, <<k>>, ~enough)
         ELSE Answer(m, Refused("dir"), IsDir(n)) /\ UNCHANGED fds
  /\ UNCHANGED result

\* The server stops and is started again.
Restart ==
  /\ requests' = {} /\ fds' = 0 /\ result' = 0
  /\ UNCHANGED <<program, clientVars, replies>>

Lose ==
  /\ \/ \E m \in requests : requests' = requests \ {m} /\ UNCHANGED replies
     \/ \E r \in replies : replies' = replies \ {r} /\ UNCHANGED requests
  /\ UNCHANGED <<program, clientVars, fds, result>>

Server(m) == ServeWord(m) \/ Contafile(m) \/ Contadir(m)

Next ==
  \/ Restart \/ Lose
  \/ \E m \in requests : Server(m)
  \/ \E c \in Clients : Start(c) \/ Call(c) \/ Resend(c) \/ Expire(c) \/ Ends(c)
                          \/ \E r \in replies : Take(c, r)

Spec == Init /\ [][Next]_vars

\* The server takes every request that arrives; calls run out of time.
FairSpec ==
  /\ Spec
  /\ WF_vars(\E m \in requests : Server(m))
  /\ \A c \in Clients : WF_vars(Expire(c) \/ \E r \in replies : Take(c, r))

-------------------------------------------------------------------------------
(***************************************************************************)
(* What is checked.                                                        *)
(***************************************************************************)
AllAsks == Asks("word") \cup Asks("scan")
Body(r) == \E n \in {1, 3} : r.body \in [1..n -> Nat \cup {-1}]

\* Every variable has its type; descriptors are never more than there are.
TypeOK ==
  /\ program \in {"word", "scan"}
  /\ cpc \in [Clients -> {"off", "prompt", "call"}]
  /\ calls \in [Clients -> 0..MaxCalls]
  /\ ask \in [Clients -> AllAsks]
  /\ \A c \in Clients : answer[c] = None \/ Body(answer[c])
  /\ requests \subseteq [client : Clients, xid : 1..MaxCalls, ask : AllAsks]
  /\ \A r \in replies : r.client \in Clients /\ r.xid \in 1..MaxCalls /\ Body(r)
  /\ fds \in 0..MaxFds
  /\ result \in Nat \cup {-1}

\* What a client shows for the question it asked last, by a server that had the
\* descriptors it needed.
Shown(c) == cpc[c] = "prompt" /\ ~answer[c].lack

\* Lost, late and repeated datagrams never show a user of esercitazione7 the counts
\* of another question: they are those of the file or directory asked about, as
\* the code computes them (implementazione.c:11, :41), or its -1 if it is missing.
Right(a) ==
  CASE IsText(a.name) -> Counts(Texts[a.name])
    [] IsDir(a.name) -> <<IF a.size <= 2 THEN Dirs[a.name] ELSE 0>>
    [] OTHER -> Refused(a.op)

AnswerRight ==
  program = "scan" => \A c \in Clients : Shown(c) => answer[c].body = Right(ask[c])

\* A procedure that is executed twice for one call, because its client repeated the
\* request, says the same both times unless descriptors were lacking.
RepeatsAgree ==
  program = "scan" => \A r, s \in replies :
    r.client = s.client /\ r.xid = s.xid /\ ~r.lack /\ ~s.lack => r.body = s.body

\* The longest of the words of a text that a separator ends, -1 if there is none.
Longest(text) ==
  Max({-1} \cup {k \in 0..Len(text) : \E i \in 0..(Len(text) - k - 1) :
                   /\ text[i + k + 1] \in Separators
                   /\ \A j \in (i + 1)..(i + k) : text[j] \notin Separators})

\* What the result that serverDatagram keeps from request to request (line 83) still
\* leaves true: no answer is less than the longest word of the file asked about, and
\* each is the length of some file's longest word, the initial 0, or -1.
WordBounds ==
  program = "word" => \A c \in Clients : Shown(c) =>
    LET n == ask[c].name  body == answer[c].body[1] IN
    IF IsText(n)
    THEN /\ body >= Longest(Texts[n])
         /\ body \in {Longest(Texts[x]) : x \in DOMAIN Texts} \cup {0, -1}
    ELSE body = -1

\* A call of esercitazione7 comes to an end, by an answer or by its time-out, though
\* every datagram be lost.
CallEnds == \A c \in Clients : (program = "scan" /\ cpc[c] = "call") ~> cpc[c] # "call"
===============================================================================
