-------------------------------- MODULE SeqPut --------------------------------
(***************************************************************************)
(* ServerSeq of esercitazione_2: the clients of module PutClient wait in   *)
(* the backlog of the server socket, and one after the other is served to  *)
(* the end of its connection, with a time limit of 30 seconds on every     *)
(* read.  Unlike MultiplePut, most failures stop the whole server.         *)
(***************************************************************************)
EXTENDS PutClient

CONSTANT Junk         \* the byte 255, which is what (byte) -1 is in a file

ASSUME JunkAssumption == Junk \notin Blocks /\ Absent \notin Seq(Blocks \cup {Junk})

VARIABLES
  backlog,    \* the connections that wait to be accepted, oldest first
  serving,    \* the client whose connection is open, or Nobody
  spc,        \* where the server is
  rest,       \* the files its loop has still to receive
  target,     \* the file it has created and is to fill, or Absent
  dim,        \* the length announced for it, 0 before
  written,    \* how many of its blocks have been written
  exit,       \* the status the server has exited with, 0 while it runs
  dir,        \* dir[f]: the blocks in file f, or Absent
  received    \* history: the files the server has reported as received whole

serverVars == <<backlog, serving, spc, rest, target, dim, written, exit, dir, received>>
seqVars == <<clientVars, serverVars>>

ServerLabels == {"accept", "int", "utf", "long", "data"}

SeqInit ==
  /\ ClientInit
  /\ backlog = <<>>
  /\ serving = Nobody
  /\ spc = "accept"
  /\ rest = 0
  /\ target = Absent
  /\ dim = 0
  /\ written = 0
  /\ exit = 0
  /\ dir = [f \in Files |-> Absent]
  /\ received = {}

-------------------------------------------------------------------------------
Running == exit = 0

\* The server is at a read of the connection with c.
At(c, l) == Running /\ serving = c /\ spc = l

\* The read fails: the stream is at its end, nothing has come for 30 seconds, or
\* the connection was reset.
EndOfStream(c) == AtEnd(c)
TimedOut(c) == c2s[c] = <<>> /\ cpc[c] \notin {"done", "dead"}
Reset(c) == cpc[c] = "dead"

SeqNextFile ==
  /\ spc' = IF rest > 1 THEN "utf" ELSE "int"
  /\ rest' = rest - 1

SeqFinishFile ==
  /\ SeqNextFile
  /\ received' = received \cup {target}
  /\ target' = Absent
  /\ dim' = 0
  /\ written' = 0

\* socket.accept() and setSoTimeout, once the connection before is closed.
SeqAccept ==
  /\ Running /\ spc = "accept" /\ backlog # <<>>
  /\ serving' = Head(backlog)
  /\ backlog' = Tail(backlog)
  /\ spc' = "int"
  /\ UNCHANGED <<clientVars, rest, target, dim, written, exit, dir, received>>

\* numFile=inSock.readInt()
SeqReadCount(c) ==
  /\ At(c, "int") /\ Take(c, "int")
  /\ rest' = Taken(c)
  /\ spc' = IF Taken(c) > 0 THEN "utf" ELSE "int"
  /\ UNCHANGED <<cpc, todo, sent, s2c, backlog, serving, target, dim, written, exit, dir, received>>

Close ==
  /\ spc' = "accept"
  /\ serving' = Nobody
  /\ UNCHANGED <<clientVars, backlog, rest, target, dim, written, exit, dir, received>>

\* Fault: the time limit is not set.
CountNotTimed(c) ==
  /\ At(c, "int") /\ (EndOfStream(c) \/ Reset(c))
  /\ Close

\* Any exception of readInt closes the connection, and the next is accepted.
ReadCountFails(c) ==
  /\ At(c, "int") /\ (EndOfStream(c) \/ TimedOut(c) \/ Reset(c))
  /\ Close

\* nome=inSock.readUTF(), and createNewFile where there is no such file yet.
SeqCreateFile(c) ==
  /\ At(c, "utf") /\ Take(c, "utf")
  /\ dir[Trim[Taken(c)]] = Absent
  /\ spc' = "long"
  /\ target' = Trim[Taken(c)]
  /\ dir' = [dir EXCEPT ![Trim[Taken(c)]] = <<>>]
  /\ Answer(c, "attiva")
  /\ UNCHANGED <<cpc, todo, sent, backlog, serving, rest, dim, written, exit, received>>

\* Fault: a round of the loop that skips a file is not counted.
SkipUncounted(c) ==
  /\ At(c, "utf") /\ Take(c, "utf")
  /\ dir[Trim[Taken(c)]] # Absent
  /\ Answer(c, "non attivare")
  /\ UNCHANGED <<cpc, todo, sent, backlog, serving, spc, rest, target, dim, written, exit, dir,
                 received>>

\* createNewFile answers false.
SeqSkipFile(c) ==
  /\ At(c, "utf") /\ Take(c, "utf")
  /\ dir[Trim[Taken(c)]] # Absent
  /\ SeqNextFile
  /\ Answer(c, "non attivare")
  /\ UNCHANGED <<cpc, todo, sent, backlog, serving, target, dim, written, exit, dir, received>>

\* dim=inSock.readLong(), and the opening of the file, which empties it.
SeqReadLength(c) ==
  /\ At(c, "long") /\ Take(c, "long")
  /\ IF Taken(c) = 0
     THEN SeqFinishFile
     ELSE spc' = "data" /\ dim' = Taken(c) /\ UNCHANGED <<rest, target, written, received>>
  /\ dir' = [dir EXCEPT ![target] = <<>>]
  /\ UNCHANGED <<cpc, todo, sent, s2c, backlog, serving, exit>>

\* What the loop does with what read has returned.
WriteBlock(b) ==
  /\ IF written + 1 < dim
     THEN spc' = "data" /\ written' = written + 1 /\ UNCHANGED <<rest, target, dim, received>>
     ELSE SeqFinishFile
  /\ dir' = [dir EXCEPT ![target] = Append(@, b)]

\* Fault: the loop stops one short of the length.
CopyOneLess(c) ==
  /\ At(c, "data") /\ Take(c, "block")
  /\ IF written + 2 < dim
     THEN spc' = "data" /\ written' = written + 1 /\ UNCHANGED <<rest, target, dim, received>>
     ELSE SeqFinishFile
  /\ dir' = [dir EXCEPT ![target] = Append(@, Taken(c))]
  /\ UNCHANGED <<cpc, todo, sent, s2c, backlog, serving, exit>>

\* buffer=inSock.read(); out.write(buffer)
SeqCopyBlock(c) ==
  /\ At(c, "data") /\ Take(c, "block")
  /\ WriteBlock(Taken(c))
  /\ UNCHANGED <<cpc, todo, sent, s2c, backlog, serving, exit>>

\* At the end of the stream read returns -1 again and again, and out.write
\* writes the low byte of it.
SeqCopyEof(c) ==
  /\ At(c, "data") /\ EndOfStream(c)
  /\ WriteBlock(Junk)
  /\ UNCHANGED <<clientVars, backlog, serving, exit>>

\* System.exit ends the server with all its connections.
Exit(n) ==
  /\ exit' = n
  /\ UNCHANGED <<clientVars, backlog, serving, spc, rest, target, dim, written, dir, received>>

\* The reads of a name, a length and a byte have no way back to accept.
ReadNameExits(c) ==
  At(c, "utf") /\ (EndOfStream(c) \/ TimedOut(c) \/ Reset(c)) /\ Exit(7)

ReadLengthExits(c) ==
  At(c, "long") /\ (EndOfStream(c) \/ TimedOut(c) \/ Reset(c)) /\ Exit(9)

ReadByteExits(c) ==
  At(c, "data") /\ (TimedOut(c) \/ Reset(c)) /\ Exit(11)

\* createNewFile, the opening of the file or a write to it throws.
DiskExits ==
  /\ Running
  /\ \E l \in {<<"utf", 5>>, <<"long", 10>>, <<"data", 12>>} : spc = l[1] /\ Exit(l[2])

-------------------------------------------------------------------------------
\* A client gets into the backlog as long as the server runs; afterwards its
\* connect is refused and it ends at its first use of the missing streams.
Join(c) ==
  /\ Running
  /\ Connect(c)
  /\ backlog' = Append(backlog, c)
  /\ UNCHANGED <<serving, spc, rest, target, dim, written, exit, dir, received>>

JoinRefused(c) ==
  /\ ~Running
  /\ cpc[c] = "start"
  /\ ClientEnds(c, "dead")
  /\ UNCHANGED <<c2s, serverVars>>

\* The server has no connection with c, or has exited.
Unconnected(c) == ~Running \/ (serving # c /\ c \notin ToSet(backlog))

SeqClientLoses(c) == Unconnected(c) /\ ClientFails(c) /\ UNCHANGED serverVars

SeqAgain(c) == Unconnected(c) /\ Relaunch(c) /\ UNCHANGED serverVars

SeqClient(c) == ClientStep(c) /\ UNCHANGED serverVars

SeqUser(c) == (ChooseDir(c) \/ Quit(c) \/ ClientDies(c)) /\ UNCHANGED serverVars

\* What the server does with the connection it serves.
Serve(c) ==
  \/ SeqReadCount(c) \/ SeqCreateFile(c) \/ SeqSkipFile(c) \/ SeqReadLength(c)
  \/ SeqCopyBlock(c) \/ SeqCopyEof(c)

Fail(c) ==
  ReadCountFails(c) \/ ReadNameExits(c) \/ ReadLengthExits(c) \/ ReadByteExits(c)

Server == SeqAccept \/ \E c \in Clients : Serve(c) \/ Fail(c)

SeqNext ==
  \/ Server \/ DiskExits
  \/ \E c \in Clients : Join(c) \/ JoinRefused(c) \/ SeqClientLoses(c) \/ SeqAgain(c)
                          \/ SeqClient(c) \/ SeqUser(c)

SeqSpec == SeqInit /\ [][SeqNext]_seqVars

\* The server's thread and the clients are scheduled fairly, and the time limit
\* runs out on a client that sends nothing: a read never waits for ever.
SeqFairSpec ==
  /\ SeqSpec
  /\ WF_seqVars(Server)
  /\ \A c \in Clients : WF_seqVars(SeqClient(c)) /\ WF_seqVars(SeqClientLoses(c))

-------------------------------------------------------------------------------
\* Client and server agree on where in the dialogue they are, also in a
\* connection that has waited in the backlog while its client went ahead.
SeqStreamAligned ==
  \A c \in Clients :
    serving = c /\ c2s[c] # <<>> => Head(c2s[c]).kind = Expected[spc]

\* A file that the server reports as received has the length of one client's
\* file and that file's blocks up to some point; only junk can follow, when the
\* client broke off there.  It is never cut short and never mixed.
ReceivedOrPadded ==
  \A f \in received :
    \E c \in Clients : \E s \in Sources(c, f), k \in 0..MaxLen :
      /\ Len(dir[f]) = Len(s)
      /\ \A i \in DOMAIN s : dir[f][i] = IF i <= k THEN s[i] ELSE Junk

\* When the users come to an end of naming directories, every connection in the
\* backlog is accepted, or the server exits.  It is the time limit that sees to
\* it when the client that is served stays at its prompt.
BacklogServed ==
  (\A d \in Clients : <>[][~ChooseDir(d)]_seqVars) =>
    \A c \in Clients : (c \in ToSet(backlog) /\ Running) ~> (c \notin ToSet(backlog) \/ ~Running)

\* ServerSeq.java:228 reports the file as received whole once its loop has
\* ended: what is in it is what a client has.
ReceivedWhole == \A f \in received : \E c \in Clients : dir[f] \in Sources(c, f)
===============================================================================
