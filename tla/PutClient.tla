------------------------------ MODULE PutClient ------------------------------
(***************************************************************************)
(* ClientMultiplePut of esercitazione_2: the user names directories, the   *)
(* client sends the number of their files, then for every file its name,   *)
(* and where the server answers "attiva" its length and its content.       *)
(* Modules MultiplePut and SeqPut compose it with the two servers.         *)
(*                                                                         *)
(* TCP is one sequence of items per direction: what writeInt, writeUTF,    *)
(* writeLong and write put on the stream, a block being the unit of file   *)
(* length.  A directory is the sequence of its entries; it does not change *)
(* while it is sent.                                                       *)
(***************************************************************************)
EXTENDS Integers, Sequences, FiniteSets, SequencesExt

CONSTANTS
  Clients,    \* the places clients run at: one process and connection at a time
  Names,      \* the names of files
  MaxLen,     \* the length of the longest file, in blocks
  Dirs,       \* the directories the users may name, as listFiles returns them
  Window,     \* how many items the buffers of a connection hold
  MinSize,    \* files shorter than this are not sent
  Files,      \* the names of the files in the server's directory
  Trim,       \* Trim[n]: the file name that trim() makes of a name n
  Absent,     \* no such file
  Nobody      \* no client

Entries == [name : Names, len : 0..MaxLen, isDir : BOOLEAN]

Blocks == Clients \X Entries \X (1..MaxLen)

ASSUME DirsAssumption == Dirs \subseteq Seq(Entries)

ASSUME SizeAssumption == MaxLen \in Nat /\ MinSize \in Int /\ Window \in Nat \ {0}

ASSUME TrimAssumption == Trim \in [Names -> Files] /\ Absent \notin Files

ASSUME NobodyAssumption == Nobody \notin Clients /\ Absent \notin Seq(Blocks)

VARIABLES
  cpc,        \* cpc[c]: where client c is
  todo,       \* todo[c]: the entries of the directory still to be gone through
  sent,       \* sent[c]: how many blocks of the file being read have been sent
  c2s,        \* c2s[c]: the items on their way to the server
  s2c         \* s2c[c]: the answers on their way to client c

clientVars == <<cpc, todo, sent, c2s, s2c>>

ClientLabels == {"start", "prompt", "send", "await", "stream", "done", "dead"}

\* What client c has in the file of an entry: blocks of its own.
Content(c, e) == [i \in 1..e.len |-> <<c, e, i>>]

Int32(n) == [kind |-> "int", val |-> n]
Utf(n) == [kind |-> "utf", val |-> n]
Int64(n) == [kind |-> "long", val |-> n]
Block(b) == [kind |-> "block", val |-> b]

Items == [kind : {"int", "long"}, val : Nat] \cup [kind : {"utf"}, val : Names]
           \cup [kind : {"block"}, val : Blocks]

Replies == {"attiva", "salta", "non attivare"}

ClientInit ==
  /\ cpc = [c \in Clients |-> "start"]
  /\ todo = [c \in Clients |-> <<>>]
  /\ sent = [c \in Clients |-> 0]
  /\ c2s = [c \in Clients |-> <<>>]
  /\ s2c = [c \in Clients |-> <<>>]

-------------------------------------------------------------------------------
ClientGoto(c, from, to) ==
  /\ cpc[c] = from
  /\ cpc' = [cpc EXCEPT ![c] = to]

\* A write waits for room in the buffers of TCP.
Send(c, item) ==
  /\ Len(c2s[c]) < Window
  /\ c2s' = [c2s EXCEPT ![c] = Append(@, item)]

NextEntry(c) == todo' = [todo EXCEPT ![c] = Tail(@)]

Current(c) == Head(todo[c])

\* files[i].length()>=minimumSize && !files[i].isDirectory()
Sendable(e) == e.len >= MinSize /\ ~e.isDir

\* Fault: the pass that counts takes the directories in.
CountAll(d) == Cardinality({i \in DOMAIN d : d[i].len >= MinSize})

\* How many files of a directory the first pass over it counts.
NumFilesToSend(d) == Cardinality({i \in DOMAIN d : Sendable(d[i])})

\* A process is over, or not begun: it has no state.
ClientEnds(c, label) ==
  /\ cpc' = [cpc EXCEPT ![c] = label]
  /\ todo' = [todo EXCEPT ![c] = <<>>]
  /\ sent' = [sent EXCEPT ![c] = 0]
  /\ s2c' = [s2c EXCEPT ![c] = <<>>]

\* The connection is made; the server may be busy elsewhere.
Connect(c) ==
  /\ ClientGoto(c, "start", "prompt")
  /\ UNCHANGED <<todo, sent, c2s, s2c>>

\* The user names a directory: its files are counted and announced.
ChooseDir(c) ==
  /\ ClientGoto(c, "prompt", "send")
  /\ \E d \in Dirs :
       /\ todo' = [todo EXCEPT ![c] = d]
       /\ Send(c, Int32(NumFilesToSend(d)))
  /\ UNCHANGED <<sent, s2c>>

\* The second pass: an entry that is not to be sent is passed over,
SkipEntry(c) ==
  /\ cpc[c] = "send" /\ todo[c] # <<>> /\ ~Sendable(Current(c))
  /\ NextEntry(c)
  /\ UNCHANGED <<cpc, sent, c2s, s2c>>

\* the name of one that is goes to the server,
SendName(c) ==
  /\ todo[c] # <<>> /\ Sendable(Current(c))
  /\ ClientGoto(c, "send", "await")
  /\ Send(c, Utf(Current(c).name))
  /\ UNCHANGED <<todo, sent, s2c>>

\* and its length when the server wants it.  Any other answer than "attiva"
\* means that the server has the file.
TakeReply(c) ==
  /\ s2c[c] # <<>>
  /\ s2c' = [s2c EXCEPT ![c] = Tail(@)]
  /\ IF Head(s2c[c]) = "attiva"
     THEN /\ ClientGoto(c, "await", "stream")
          /\ Send(c, Int64(Current(c).len))
          /\ UNCHANGED todo
     ELSE /\ ClientGoto(c, "await", "send")
          /\ NextEntry(c)
          /\ UNCHANGED c2s
  /\ UNCHANGED sent

SendBlock(c) ==
  /\ cpc[c] = "stream" /\ sent[c] < Current(c).len
  /\ Send(c, Block(Content(c, Current(c))[sent[c] + 1]))
  /\ sent' = [sent EXCEPT ![c] = @ + 1]
  /\ UNCHANGED <<cpc, todo, s2c>>

\* read returns -1 at the end of the file.
EndFile(c) ==
  /\ ClientGoto(c, "stream", "send")
  /\ sent[c] = Current(c).len
  /\ sent' = [sent EXCEPT ![c] = 0]
  /\ NextEntry(c)
  /\ UNCHANGED <<c2s, s2c>>

EndDir(c) ==
  /\ todo[c] = <<>>
  /\ ClientGoto(c, "send", "prompt")
  /\ UNCHANGED <<todo, sent, c2s, s2c>>

\* The user ends the input: shutdownOutput and close, behind everything sent.
Quit(c) ==
  /\ cpc[c] = "prompt"
  /\ ClientEnds(c, "done")
  /\ UNCHANGED c2s

\* The process ends at any moment: it is killed, a file of the directory cannot
\* be read, the directory does not exist.  Some of what it sent gets through.
ClientDies(c) ==
  /\ cpc[c] \notin {"start", "done", "dead"}
  /\ ClientEnds(c, "dead")
  /\ \E k \in 0..Len(c2s[c]) : c2s' = [c2s EXCEPT ![c] = SubSeq(@, 1, k)]

\* The server's end of the connection is closed: reading the answer or writing
\* to the socket throws.
ClientFails(c) ==
  /\ cpc[c] \in {"send", "await", "stream"} /\ s2c[c] = <<>>
  /\ ClientEnds(c, "dead")
  /\ UNCHANGED c2s

\* The user runs the client again: a new process, a new connection.
Relaunch(c) ==
  /\ cpc[c] \in {"done", "dead"}
  /\ ClientEnds(c, "start")
  /\ c2s' = [c2s EXCEPT ![c] = <<>>]

\* What the user decides, and what the client does about it.
UserStep(c) == Connect(c) \/ ChooseDir(c) \/ Quit(c)

ClientStep(c) ==
  SkipEntry(c) \/ SendName(c) \/ TakeReply(c) \/ SendBlock(c) \/ EndFile(c) \/ EndDir(c)

-------------------------------------------------------------------------------
(***************************************************************************)
(* The server's end of the connection with c.                              *)
(***************************************************************************)
\* A read that finds an item of its kind takes it off the stream.
Take(c, kind) ==
  /\ c2s[c] # <<>> /\ Head(c2s[c]).kind = kind
  /\ c2s' = [c2s EXCEPT ![c] = Tail(@)]

Taken(c) == Head(c2s[c]).val

Answer(c, reply) == s2c' = [s2c EXCEPT ![c] = Append(@, reply)]

\* The client's end is closed and everything it sent has been read.
AtEnd(c) == cpc[c] \in {"done", "dead"} /\ c2s[c] = <<>>

\* What a read of the server's expects next on the stream, by the place it is at.
Expected == [int |-> "int", utf |-> "utf", long |-> "long", data |-> "block"]

\* What client c may send under a name that is stored as f.
Sources(c, f) ==
  {Content(c, e) : e \in {e \in UNION {ToSet(d) : d \in Dirs} : Sendable(e) /\ Trim[e.name] = f}}

-------------------------------------------------------------------------------
ClientTypeOK ==
  /\ cpc \in [Clients -> ClientLabels]
  /\ todo \in [Clients -> Seq(Entries)]
  /\ sent \in [Clients -> 0..MaxLen]
  /\ c2s \in [Clients -> Seq(Items)]
  /\ s2c \in [Clients -> Seq(Replies)]
===============================================================================
