----------------------------- MODULE SelectServer -----------------------------
(***************************************************************************)
(* server.c of esercitazione_4 with clientDatagram.c and, from module      *)
(* Listing, its TCP clients and children: one process selects on a         *)
(* listening socket and a datagram socket, forks a child for a connection, *)
(* and removes a word from a file itself for a datagram.                   *)
(*                                                                         *)
(* The server may read every file that exists and write in its directory;  *)
(* what makes an open fail are its descriptors: it closes no connection it *)
(* has accepted, and not the file when tmp.txt cannot be opened.           *)
(***************************************************************************)
EXTENDS Listing, WordRemoval

CONSTANTS
  Users,      \* the clients of the datagram service
  Files,      \* the names of files they may send, tmp.txt among them
  TmpFile,    \* tmp.txt
  Disk,       \* Disk[f]: the text of file f at the start, or Absent
  Absent,     \* no file
  Words,      \* the words they may send
  MaxFds      \* the descriptors the server has beside its two sockets

ASSUME TextAssumption ==
  /\ TmpFile \in Files
  /\ Absent \notin Texts
  /\ Disk \in [Files -> Texts \cup {Absent}]
  /\ Words \subseteq Seq(Letters) \ {<<>>}

\* Somebody uses the service of the words.
ASSUME UsersAssumption == Users # {} /\ Words # {}

ASSUME FdsAssumption == MaxFds \in Nat

VARIABLES
  backlog,    \* the connections that wait to be accepted, oldest first
  spc,        \* where the server is
  ready,      \* select found the datagram socket ready
  fds,        \* how many descriptors are open that nobody closes any more
  request,    \* the datagram being served
  result,     \* its result
  fs,         \* fs[f]: the text of file f, or Absent
  upc,        \* upc[u]: user u is at the prompt or awaits an answer
  datagrams,  \* what has arrived at the datagram socket
  answers     \* answers[u]: what has arrived at the socket of u

userVars == <<upc, answers>>
wordVars == <<request, result, fs, datagrams, userVars>>
loopVars == <<backlog, spc, ready, fds>>
vars == <<listingVars, loopVars, wordVars>>

Requests == [user : Users, file : Files, word : Words]

Init ==
  /\ ListingInit
  /\ backlog = <<>>
  /\ spc = "select"
  /\ ready = FALSE
  /\ fds = 0
  /\ request = CHOOSE r \in Requests : TRUE
  /\ result = 0
  /\ fs = Disk
  /\ upc = [u \in Users |-> "prompt"]
  /\ datagrams = <<>>
  /\ answers = [u \in Users |-> <<>>]

-------------------------------------------------------------------------------
(***************************************************************************)
(* The loop of the server.                                                 *)
(***************************************************************************)
Goto(from, to) == spc = from /\ spc' = to

\* select returns with one of the sockets ready, or both.
Select ==
  /\ backlog # <<>> \/ datagrams # <<>>
  /\ Goto("select", IF backlog # <<>> THEN "accept" ELSE "receive")
  /\ ready' = (datagrams # <<>>)
  /\ UNCHANGED <<listingVars, backlog, fds, wordVars>>

AfterAccept == Goto("accept", IF ready THEN "receive" ELSE "select")

\* Fault: the loop starts again after a connection.
AcceptFailsAgain ==
  /\ Goto("accept", "select")
  /\ fds = MaxFds
  /\ UNCHANGED <<listingVars, backlog, ready, fds, wordVars>>

\* No descriptor is left for the connection: accept returns -1, and the child
\* forked all the same reads from it and exits.  The connection waits on.
AcceptFails ==
  /\ AfterAccept
  /\ fds = MaxFds
  /\ UNCHANGED <<listingVars, backlog, ready, fds, wordVars>>

\* The connection gets a child.  The parent keeps its descriptor.
AcceptForks ==
  /\ AfterAccept
  /\ fds < MaxFds
  /\ fds' = fds + 1
  /\ backlog' = Tail(backlog)
  /\ KidGoto(Head(backlog), "none", "read")
  /\ UNCHANGED <<clientVars, subs, names, requests, s2c, ready, wordVars>>

\* fork returns -1: the connection is accepted, and nobody serves it.
ForkFails ==
  /\ AfterAccept
  /\ fds < MaxFds
  /\ fds' = fds + 1
  /\ backlog' = Tail(backlog)
  /\ UNCHANGED <<listingVars, ready, wordVars>>

File == request.file

\* A datagram is taken, and there is no such file, it is a directory, or no
\* descriptor is left to open it.
ReceiveRefused ==
  /\ Goto("receive", "send")
  /\ request' = Head(datagrams)
  /\ datagrams' = Tail(datagrams)
  /\ fs[Head(datagrams).file] = Absent \/ fds = MaxFds
  /\ result' = -1
  /\ UNCHANGED <<listingVars, backlog, ready, fds, fs, userVars>>

\* The file takes the last descriptor: tmp.txt is not opened, the file not closed.
ReceiveLeaks ==
  /\ Goto("receive", "send")
  /\ request' = Head(datagrams)
  /\ datagrams' = Tail(datagrams)
  /\ fs[Head(datagrams).file] # Absent /\ fds + 1 = MaxFds
  /\ fds' = fds + 1
  /\ result' = -1
  /\ UNCHANGED <<listingVars, backlog, ready, fs, userVars>>

\* Fault: tmp.txt is opened without O_TRUNC.
ReceiveKeepsTmp ==
  /\ Goto("receive", "copy")
  /\ request' = Head(datagrams)
  /\ datagrams' = Tail(datagrams)
  /\ fs[Head(datagrams).file] # Absent /\ fds + 2 <= MaxFds
  /\ fs' = [fs EXCEPT ![TmpFile] = IF @ = Absent THEN <<>> ELSE @]
  /\ result' = 0
  /\ UNCHANGED <<listingVars, backlog, ready, fds, userVars>>

\* Both files are open; tmp.txt is empty now, also when it is the file itself.
ReceiveOpens ==
  /\ Goto("receive", "copy")
  /\ request' = Head(datagrams)
  /\ datagrams' = Tail(datagrams)
  /\ fs[Head(datagrams).file] # Absent /\ fds + 2 <= MaxFds
  /\ fs' = [fs EXCEPT ![TmpFile] = <<>>]
  /\ result' = 0
  /\ UNCHANGED <<listingVars, backlog, ready, fds, userVars>>

\* What was in the file behind the part that is written stays there.
Overwrite(old, new) == new \o SubSeq(old, Len(new) + 1, Len(old))

\* The loop over the file, and the close of both.
Copy ==
  /\ Goto("copy", "rename")
  /\ LET r == Removal(fs[File], request.word) IN
       /\ fs' = [fs EXCEPT ![TmpFile] = Overwrite(@, r.out)]
       /\ result' = r.found
  /\ UNCHANGED <<listingVars, backlog, ready, fds, request, datagrams, userVars>>

Rename ==
  /\ Goto("rename", "send")
  /\ fs' = IF File = TmpFile THEN fs ELSE [fs EXCEPT ![File] = fs[TmpFile], ![TmpFile] = Absent]
  /\ UNCHANGED <<listingVars, backlog, ready, fds, request, result, datagrams, userVars>>

\* The file may not be replaced; the answer is the same.
RenameFails ==
  /\ Goto("rename", "send")
  /\ UNCHANGED <<listingVars, backlog, ready, fds, wordVars>>

\* The answer arrives at its user, or is lost.
Send ==
  /\ Goto("send", "select")
  /\ \/ answers' = [answers EXCEPT ![request.user] = Append(@, result)]
     \/ UNCHANGED answers
  /\ UNCHANGED <<listingVars, backlog, ready, fds, request, result, fs, datagrams, upc>>

\* The process is killed, at any moment; its children go on.
ServerDies ==
  /\ spc # "down"
  /\ spc' = "down"
  /\ datagrams' = <<>>
  /\ UNCHANGED <<listingVars, backlog, ready, fds, request, result, fs, userVars>>

Server ==
  \/ Select \/ AcceptFails \/ AcceptForks \/ ForkFails
  \/ ReceiveRefused \/ ReceiveLeaks \/ ReceiveOpens \/ Copy \/ Rename \/ RenameFails \/ Send

-------------------------------------------------------------------------------
\* clientDatagram: a file and a word go to the server in one datagram, which
\* arrives or is lost.  The client waits for the answer without a time limit.
AskWord(u) ==
  /\ upc[u] = "prompt"
  /\ upc' = [upc EXCEPT ![u] = "await"]
  /\ \/ /\ spc # "down"
        /\ \E f \in Files, w \in Words :
             datagrams' = Append(datagrams, [user |-> u, file |-> f, word |-> w])
     \/ UNCHANGED datagrams
  /\ UNCHANGED <<listingVars, loopVars, request, result, fs, answers>>

ReadAnswer(u) ==
  /\ upc[u] = "await" /\ answers[u] # <<>>
  /\ upc' = [upc EXCEPT ![u] = "prompt"]
  /\ answers' = [answers EXCEPT ![u] = Tail(@)]
  /\ UNCHANGED <<listingVars, loopVars, request, result, fs, datagrams>>

-------------------------------------------------------------------------------
\* The TCP clients: as long as there is a server, connect gets into its backlog.
Connect(c) ==
  /\ spc # "down"
  /\ ClientGoto(c, "start", "prompt")
  /\ backlog' = Append(backlog, c)
  /\ UNCHANGED <<asked, res, early, kidVars, requests, s2c, spc, ready, fds, wordVars>>

\* The parent's descriptor keeps a connection open after its child has gone: only
\* when the server has gone as well does the client read the end.
LoseConnection(c) == spc = "down" /\ ReadEof(c) /\ UNCHANGED <<loopVars, wordVars>>

Client(c) == ClientReads(c) /\ UNCHANGED <<loopVars, wordVars>>

User(c) == (Ask(c) \/ ClientEnds(c) \/ Relaunch(c)) /\ UNCHANGED <<loopVars, wordVars>>

Kid(c) == KidStep(c) /\ UNCHANGED <<loopVars, wordVars>>

KidSignalled(c) == KidKilled(c) /\ UNCHANGED <<loopVars, wordVars>>

Next ==
  \/ Server \/ ServerDies
  \/ \E u \in Users : AskWord(u) \/ ReadAnswer(u)
  \/ \E c \in Clients : Connect(c) \/ User(c) \/ Client(c) \/ LoseConnection(c)
                          \/ Kid(c) \/ KidSignalled(c)

Spec == Init /\ [][Next]_vars

\* The server, the children and the clients that are not at their prompt are
\* scheduled fairly.
FairSpec ==
  /\ Spec
  /\ WF_vars(Server)
  /\ \A u \in Users : WF_vars(ReadAnswer(u))
  /\ \A c \in Clients : WF_vars(Client(c)) /\ WF_vars(Kid(c))

-------------------------------------------------------------------------------
TypeOK ==
  /\ ListingTypeOK
  /\ backlog \in Seq(Clients)
  /\ spc \in {"select", "accept", "receive", "copy", "rename", "send", "down"}
  /\ ready \in BOOLEAN
  /\ fds \in 0..MaxFds
  /\ request \in Requests
  /\ result \in Nat \cup {-1}
  /\ fs \in [Files -> Texts \cup {Absent}]
  /\ upc \in [Users -> {"prompt", "await"}]
  /\ datagrams \in Seq(Requests)
  /\ answers \in [Users -> Seq(Nat \cup {-1})]

\* A file is at all times its first text without all the occurrences of some of
\* the words, whatever was left in tmp.txt by a rename that failed, and wherever the
\* server was stopped.  (tmp.txt itself may be asked for, and is lost then.)
FilesLoseWordsOnly ==
  \A f \in Files \ {TmpFile} :
    IF Disk[f] = Absent THEN fs[f] = Absent
    ELSE \E ws \in SUBSET Words : fs[f] = Without(Disk[f], ws)

\* The result that the loop has counted is the number of places where the word
\* stands in the file, also at its beginning and, without a separator, at its end.
CountIsRight ==
  spc = "rename" /\ File # TmpFile =>
    result = Cardinality(Occurrences(fs[File], request.word))

\* As long as no read of the names stopped with more to come, client and child are
\* at the same request: a result is read where a result is, names where names are.
InStepUnlessEarly ==
  \A c \in Clients \ early :
    /\ cpc[c] = "result" /\ s2c[c] # <<>> => Head(s2c[c]) \in {"ok", "error"}
    /\ cpc[c] = "names" => ToSet(s2c[c]) \subseteq {"part"} /\ requests[c] = <<>>
    /\ cpc[c] = "prompt" => ~Outstanding(c)

\* A datagram is served some time later however many connections come, also when
\* they can no longer be accepted and the socket stays ready.
DatagramServed ==
  \A u \in Users :
    (\E i \in DOMAIN datagrams : datagrams[i].user = u)
      ~> ~(\E i \in DOMAIN datagrams : datagrams[i].user = u)

\* A request that a child has to answer is answered, or the child has crashed.
RequestAnswered ==
  \A c \in Clients :
    cpc[c] = "result" /\ kid[c] \in {"read", "list"} ~> cpc[c] # "result" \/ kid[c] \in Gone

\* Esercitazione4.pptx, slide 4, has -1 as the result for a file that does not
\* exist, and clientDatagram.c:130 tells the user so.
RefusedIsMissing == spc = "send" /\ result = -1 => fs[File] = Absent
===============================================================================
