----------------------------- MODULE MultiplePut -----------------------------
(***************************************************************************)
(* ServerMultiplePut of esercitazione_2: the accept loop gives every       *)
(* client a ClientHandler thread of its own; the handlers share the output *)
(* directory.  createNewFile, which creates a file or finds it there in    *)
(* one step, is all that keeps two of them off the same file.              *)
(***************************************************************************)
EXTENDS PutClient

VARIABLES
  hpc,        \* hpc[c]: where the handler of client c is
  left,       \* left[c]: the files its loop has still to receive
  file,       \* file[c]: the file it has created and is to fill, or Absent
  length,     \* length[c]: the length announced for it, 0 before
  got,        \* got[c]: how many of its blocks have been received
  fs,         \* fs[f]: the blocks in file f of the output directory, or Absent
  cut         \* history: the files whose handler ended before they were complete

handlerVars == <<hpc, left, file, length, got>>
vars == <<clientVars, handlerVars, fs, cut>>

\* A handler that has ended has closed its socket after the client's end of
\* stream (closed) or an IOException (failed), has left it open when an
\* unchecked exception ended the thread (died), or has gone with the whole
\* server (killed).
Ended == {"closed", "failed", "died", "killed"}

HandlerLabels == {"none", "int", "utf", "long", "data"} \cup Ended

Init ==
  /\ ClientInit
  /\ hpc = [c \in Clients |-> "none"]
  /\ left = [c \in Clients |-> 0]
  /\ file = [c \in Clients |-> Absent]
  /\ length = [c \in Clients |-> 0]
  /\ got = [c \in Clients |-> 0]
  /\ fs = [f \in Files |-> Absent]
  /\ cut = {}

-------------------------------------------------------------------------------
Goto(c, from, to) ==
  /\ hpc[c] = from
  /\ hpc' = [hpc EXCEPT ![c] = to]

\* The end of a round of the for loop: on to the next name, or count.
NextFile(c, from) ==
  /\ Goto(c, from, IF left[c] > 1 THEN "utf" ELSE "int")
  /\ left' = [left EXCEPT ![c] = @ - 1]

\* The file of this round is closed.
FinishFile(c, from) ==
  /\ NextFile(c, from)
  /\ file' = [file EXCEPT ![c] = Absent]
  /\ length' = [length EXCEPT ![c] = 0]
  /\ got' = [got EXCEPT ![c] = 0]

\* sv.accept(), and a thread for the client.
Accept(c) ==
  /\ cpc[c] # "start"
  /\ Goto(c, "none", "int")
  /\ UNCHANGED <<clientVars, left, file, length, got, fs, cut>>

\* Fault: the loop counts the files it has to receive from one too few.
ReadCountLess(c) ==
  /\ Take(c, "int")
  /\ Goto(c, "int", IF Taken(c) > 1 THEN "utf" ELSE "int")
  /\ left' = [left EXCEPT ![c] = Taken(c) - 1]
  /\ UNCHANGED <<cpc, todo, sent, s2c, file, length, got, fs, cut>>

\* numFiles = sockReader.readInt()
ReadCount(c) ==
  /\ Take(c, "int")
  /\ Goto(c, "int", IF Taken(c) > 0 THEN "utf" ELSE "int")
  /\ left' = [left EXCEPT ![c] = Taken(c)]
  /\ UNCHANGED <<cpc, todo, sent, s2c, file, length, got, fs, cut>>

\* EOFException: the client has finished.
ReadCountEof(c) ==
  /\ AtEnd(c)
  /\ Goto(c, "int", "closed")
  /\ UNCHANGED <<clientVars, left, file, length, got, fs, cut>>

\* Fault: a file that is there already is received all the same.
CreateAnyway(c) ==
  /\ Take(c, "utf")
  /\ Goto(c, "utf", "long")
  /\ file' = [file EXCEPT ![c] = Trim[Taken(c)]]
  /\ fs' = [fs EXCEPT ![Trim[Taken(c)]] = <<>>]
  /\ Answer(c, "attiva")
  /\ UNCHANGED <<cpc, todo, sent, left, length, got, cut>>

\* Fault: a file of length 0 counts as missing, so that an interrupted upload can
\* be sent again.
CreateIfEmpty(c) ==
  /\ Take(c, "utf")
  /\ fs[Trim[Taken(c)]] \in {Absent, <<>>}
  /\ Goto(c, "utf", "long")
  /\ file' = [file EXCEPT ![c] = Trim[Taken(c)]]
  /\ fs' = [fs EXCEPT ![Trim[Taken(c)]] = <<>>]
  /\ Answer(c, "attiva")
  /\ UNCHANGED <<cpc, todo, sent, left, length, got, cut>>

\* readUTF, and createNewFile where there is no such file yet.
CreateFile(c) ==
  /\ Take(c, "utf")
  /\ fs[Trim[Taken(c)]] = Absent
  /\ Goto(c, "utf", "long")
  /\ file' = [file EXCEPT ![c] = Trim[Taken(c)]]
  /\ fs' = [fs EXCEPT ![Trim[Taken(c)]] = <<>>]
  /\ Answer(c, "attiva")
  /\ UNCHANGED <<cpc, todo, sent, left, length, got, cut>>

\* Fault: the client is not told.
SkipSilently(c) ==
  /\ Take(c, "utf")
  /\ fs[Trim[Taken(c)]] # Absent
  /\ NextFile(c, "utf")
  /\ UNCHANGED <<cpc, todo, sent, s2c, file, length, got, fs, cut>>

\* createNewFile answers false.
SkipFile(c) ==
  /\ Take(c, "utf")
  /\ fs[Trim[Taken(c)]] # Absent
  /\ NextFile(c, "utf")
  /\ Answer(c, "salta")
  /\ UNCHANGED <<cpc, todo, sent, file, length, got, fs, cut>>

\* readLong, then the file is opened, which empties it; an empty file is
\* complete.
ReadLength(c) ==
  /\ Take(c, "long")
  /\ IF Taken(c) = 0
     THEN FinishFile(c, "long")
     ELSE /\ Goto(c, "long", "data")
          /\ length' = [length EXCEPT ![c] = Taken(c)]
          /\ UNCHANGED <<left, file, got>>
  /\ fs' = [fs EXCEPT ![file[c]] = <<>>]
  /\ UNCHANGED <<cpc, todo, sent, s2c, cut>>

\* One round of the copying loop, and the way out of it after the last one.
CopyBlock(c) ==
  /\ Take(c, "block")
  /\ IF got[c] + 1 < length[c]
     THEN /\ Goto(c, "data", "data")
          /\ got' = [got EXCEPT ![c] = @ + 1]
          /\ UNCHANGED <<left, file, length>>
     ELSE FinishFile(c, "data")
  /\ fs' = [fs EXCEPT ![file[c]] = Append(@, Taken(c))]
  /\ UNCHANGED <<cpc, todo, sent, s2c, cut>>

Writing(c) == hpc[c] \in {"long", "data"}

\* Handlers end before their time; the files they are at stay as they are.
Abandon(C, label) ==
  /\ hpc' = [c \in Clients |-> IF c \in C THEN label ELSE hpc[c]]
  /\ cut' = cut \cup {file[c] : c \in {c \in C : Writing(c)}}
  /\ left' = [c \in Clients |-> IF c \in C THEN 0 ELSE left[c]]
  /\ file' = [c \in Clients |-> IF c \in C THEN Absent ELSE file[c]]
  /\ length' = [c \in Clients |-> IF c \in C THEN 0 ELSE length[c]]
  /\ got' = [c \in Clients |-> IF c \in C THEN 0 ELSE got[c]]
  /\ UNCHANGED <<clientVars, fs>>

\* Fault: the copying loop takes -1 for the end of the file and goes on.
CopyEofBreaks(c) ==
  /\ AtEnd(c)
  /\ FinishFile(c, "data")
  /\ UNCHANGED <<clientVars, fs, cut>>

\* read returns -1 and write(buffer, 0, -1) throws an unchecked exception: the
\* thread ends with the socket open and the file as far as it got.
CopyEof(c) ==
  /\ AtEnd(c)
  /\ hpc[c] = "data"
  /\ Abandon({c}, "died")

\* readUTF or readLong at the end of the stream, or any read or write after the
\* connection was reset: the IOException closes the socket.
ConnectionFails(c) ==
  /\ \/ AtEnd(c) /\ hpc[c] \in {"utf", "long"}
     \/ cpc[c] = "dead" /\ hpc[c] \in {"int", "utf", "long", "data"}
  /\ Abandon({c}, "failed")

\* createNewFile, the opening of the file or a write to it throws.
DiskFails(c) ==
  /\ hpc[c] \in {"utf", "long", "data"} /\ c2s[c] # <<>>
  /\ Abandon({c}, "failed")

\* The server is stopped and started again: its connections are gone, the
\* output directory stays.
ServerStops ==
  /\ LET open == {c \in Clients : cpc[c] # "start" /\ hpc[c] \notin Ended} IN
       open # {} /\ Abandon(open, "killed")

\* A client notices that the server has closed its connection.
ClientLoses(c) ==
  /\ hpc[c] \in {"failed", "killed"}
  /\ ClientFails(c)
  /\ UNCHANGED <<handlerVars, fs, cut>>

\* A client is run again; its new connection waits to be accepted.
Again(c) ==
  /\ Relaunch(c)
  /\ hpc[c] \in Ended
  /\ hpc' = [hpc EXCEPT ![c] = "none"]
  /\ UNCHANGED <<left, file, length, got, fs, cut>>

Handler(c) ==
  \/ Accept(c) \/ ReadCount(c) \/ ReadCountEof(c) \/ CreateFile(c) \/ SkipFile(c)
  \/ ReadLength(c) \/ CopyBlock(c) \/ CopyEof(c) \/ ConnectionFails(c)

Client(c) == ClientStep(c) /\ UNCHANGED <<handlerVars, fs, cut>>

User(c) == (UserStep(c) \/ ClientDies(c)) /\ UNCHANGED <<handlerVars, fs, cut>>

Next ==
  \/ \E c \in Clients : Handler(c) \/ DiskFails(c) \/ ClientLoses(c) \/ Client(c) \/ User(c)
                       \/ Again(c)
  \/ ServerStops

Spec == Init /\ [][Next]_vars

\* The accept loop, the handler threads and the clients are scheduled fairly,
\* and a broken connection is noticed in the end.  Users, crashes and disk
\* errors need not happen.
FairSpec ==
  /\ Spec
  /\ \A c \in Clients : WF_vars(Handler(c)) /\ WF_vars(Client(c)) /\ WF_vars(ClientLoses(c))

-------------------------------------------------------------------------------
TypeOK ==
  /\ ClientTypeOK
  /\ hpc \in [Clients -> HandlerLabels]
  /\ left \in [Clients -> Nat]
  /\ file \in [Clients -> Files \cup {Absent}]
  /\ length \in [Clients -> Nat]
  /\ got \in [Clients -> Nat]
  /\ fs \in [Files -> Seq(Blocks) \cup {Absent}]
  /\ cut \subseteq Files

\* Two handlers never have the same file open: of the clients that send a file
\* of one name at the same time, one gets "attiva".
OneWriterPerFile ==
  \A c, d \in Clients : Writing(c) /\ Writing(d) /\ file[c] = file[d] => c = d

\* Client and handler agree on where in the dialogue they are: the two passes
\* of the client over its directory, the count, the answers and the lengths
\* keep every read at an item of its kind, for directory after directory.
StreamAligned ==
  \A c \in Clients :
    hpc[c] \in DOMAIN Expected /\ c2s[c] # <<>> => Head(c2s[c]).kind = Expected[hpc[c]]

Complete(f) == \E c \in Clients : fs[f] \in Sources(c, f)

\* A file that is not complete is being received, or the handler that received
\* it ended in a failure: no handler that has gone on to other files, or has
\* closed its connection at the client's word, leaves one behind.
PartialFileExplained ==
  \A f \in Files :
    fs[f] # Absent /\ ~Complete(f) => f \in cut \/ \E c \in Clients : file[c] = f /\ Writing(c)

\* The client whose handler has the file open; see OneWriterPerFile.
Writer ==
  [f \in Files |-> IF \E c \in Clients : Writing(c) /\ file[c] = f
                   THEN CHOOSE c \in Clients : Writing(c) /\ file[c] = f
                   ELSE Nobody]

\* The handlers together are a store in which every file is written once, by
\* one client, with blocks of one of its files in order, and never again.
Store == INSTANCE WriteOnceStore WITH
  Writers <- Clients,
  Data <- Sources,
  content <- fs,
  writer <- Writer

ImplementsStore == Store!StoreSpec

\* A client that sends a directory is through with it some time later, or its
\* connection has failed: nobody waits for somebody who waits for them.
UploadEnds ==
  \A c \in Clients :
    cpc[c] \in {"send", "await", "stream"} ~> cpc[c] \in {"prompt", "done", "dead"}
===============================================================================
