------------------------------ MODULE LineFilter ------------------------------
(***************************************************************************)
(* serverTCP of esercitazione_3/es2 with its two clients, clientTCP and    *)
(* clientTCPselect: the client sends a file character by character, the    *)
(* child of the server sends back every line but one, the client puts what *)
(* it receives in a file of its own and renames it over the file.          *)
(* clientTCP receives after each line, clientTCPselect when a select finds *)
(* something.  Children share nothing, so there is one connection here.    *)
(*                                                                         *)
(* The buffers of TCP hold what is sent, and a line that is sent at once   *)
(* arrives at once.                                                        *)
(***************************************************************************)
EXTENDS Integers, Sequences, FiniteSets, SequencesExt

CONSTANTS
  Letters,    \* the characters of lines
  Newline,    \* the end of a line
  Texts,      \* the files users may have
  Rows,       \* the numbers of lines they may ask to remove
  MaxAsked    \* bound: the requests over one connection

Chars == Letters \cup {Newline}

ASSUME TextsAssumption ==
  Newline \notin Letters /\ Texts \subseteq Seq(Chars) /\ Rows \subseteq Int /\ MaxAsked \in Nat

VARIABLES
  kind,         \* which client it is: "lockstep" or "select"
  cpc,          \* where the client is
  asked,        \* how many files it has sent
  file,         \* the user's file
  riga,         \* the line to remove
  pos,          \* how many characters of the file have been sent
  countLinee,   \* how many lines of it
  out,          \* what has been written to the temporary file
  tmp,          \* what was in the temporary file before
  c2s,          \* the headers and characters on their way to the child
  s2c,          \* the characters on their way to the client
  kid,          \* where the child is
  header,       \* the header it has read
  got,          \* how many characters of the file it has read
  lineCounter,  \* how many lines
  buff,         \* its buffer
  stray         \* history: something was, or will be, left unread on the connection

sendVars == <<riga, pos, countLinee, out, tmp>>
clientVars == <<kind, cpc, asked, file, sendVars, stray>>
kidVars == <<kid, header, got, lineCounter, buff>>
vars == <<clientVars, kidVars, c2s, s2c>>

NoHeader == [riga |-> 0, dim |-> 0]

Init ==
  /\ kind \in {"lockstep", "select"} /\ file \in Texts
  /\ cpc = "prompt" /\ asked = 0 /\ stray = FALSE
  /\ riga = 0 /\ pos = 0 /\ countLinee = 0 /\ out = <<>> /\ tmp = <<>>
  /\ c2s = <<>> /\ s2c = <<>>
  /\ kid = "none" /\ header = NoHeader /\ got = 0 /\ lineCounter = 0 /\ buff = <<>>

-------------------------------------------------------------------------------
(***************************************************************************)
(* The clients.                                                            *)
(***************************************************************************)
Goto(from, to) == cpc = from /\ cpc' = to

\* The text ends in a line without an end, and that is not the line to remove.
LastLineOpen(text, n) ==
  /\ text # <<>> /\ Last(text) # Newline
  /\ n # 1 + Cardinality({i \in DOMAIN text : text[i] = Newline})

\* The name, the line to remove and the length of the file go to the child.
Ask ==
  /\ asked < MaxAsked
  /\ Goto("prompt", "send")
  /\ asked' = asked + 1
  /\ riga' \in Rows
  /\ c2s' = Append(c2s, [riga |-> riga', dim |-> Len(file)])
  /\ pos' = 0 /\ countLinee' = 0 /\ out' = <<>>
  /\ stray' = (stray \/ (kind = "lockstep" /\ LastLineOpen(file, riga')))
  /\ UNCHANGED <<kind, file, tmp, kidVars, s2c>>

\* Fault: clientTCP receives a line for the removed one too.
SendCharAlways ==
  /\ pos < Len(file)
  /\ pos' = pos + 1
  /\ c2s' = Append(c2s, file[pos'])
  /\ countLinee' = IF file[pos'] = Newline THEN countLinee + 1 ELSE countLinee
  /\ Goto("send", IF file[pos'] # Newline THEN "send"
                  ELSE IF kind = "select" THEN "poll" ELSE "recv")
  /\ UNCHANGED <<kind, asked, file, riga, out, tmp, kidVars, s2c, stray>>

\* A character; after the end of a line clientTCP waits for that line, unless it
\* is the one to remove, and clientTCPselect looks whether something has come.
SendChar ==
  /\ pos < Len(file)
  /\ pos' = pos + 1
  /\ c2s' = Append(c2s, file[pos'])
  /\ countLinee' = IF file[pos'] = Newline THEN countLinee + 1 ELSE countLinee
  /\ Goto("send", IF file[pos'] # Newline THEN "send"
                  ELSE IF kind = "select" THEN "poll"
                  ELSE IF countLinee' # riga THEN "recv" ELSE "send")
  /\ UNCHANGED <<kind, asked, file, riga, out, tmp, kidVars, s2c, stray>>

\* recv takes what there is and write puts it behind the rest.
Receive(from, to) ==
  /\ s2c # <<>>
  /\ Goto(from, to)
  /\ out' = out \o s2c
  /\ s2c' = <<>>
  /\ UNCHANGED <<kind, asked, file, riga, pos, countLinee, tmp, kidVars, c2s, stray>>

\* The select with time zero has found nothing; it may be on its way.
PollMisses ==
  /\ Goto("poll", "send")
  /\ UNCHANGED <<kind, asked, file, sendVars, kidVars, c2s, s2c, stray>>

\* clientTCPselect has sent everything and reads on until a select finds nothing.
StartDrain ==
  /\ kind = "select" /\ pos = Len(file)
  /\ Goto("send", "drain")
  /\ UNCHANGED <<kind, asked, file, sendVars, kidVars, c2s, s2c, stray>>

\* The temporary file is opened without O_TRUNC: what was in it stays behind what
\* has been written.
Written == out \o SubSeq(tmp, Len(out) + 1, Len(tmp))

\* rename puts the temporary file in the place of the file, or fails.
Replace ==
  \/ file' = Written /\ tmp' = <<>>
  \/ tmp' = Written /\ UNCHANGED file

FinishLockstep ==
  /\ kind = "lockstep" /\ pos = Len(file)
  /\ Goto("send", "prompt")
  /\ Replace
  /\ UNCHANGED <<kind, asked, riga, pos, countLinee, out, kidVars, c2s, s2c, stray>>

\* The child has not sent everything, or it has not arrived.
Outstanding == c2s # <<>> \/ s2c # <<>> \/ kid # "name"

\* The three seconds are over, for all selects together.
FinishSelect ==
  /\ Goto("drain", "prompt")
  /\ Replace
  /\ stray' = (stray \/ Outstanding)
  /\ UNCHANGED <<kind, asked, riga, pos, countLinee, out, kidVars, c2s, s2c>>

\* The end of input, or a signal: what has been sent may get through or not.
ClientEnds ==
  /\ cpc # "done"
  /\ cpc' = "done"
  /\ s2c' = <<>>
  /\ \E k \in 0..Len(c2s) : c2s' = SubSeq(c2s, 1, k)
  /\ UNCHANGED <<kind, asked, file, sendVars, stray, kidVars>>

\* Another client, with a file of its own.
Relaunch ==
  /\ cpc = "done" /\ kid \in {"exited", "crashed", "lost"}
  /\ kind' \in {"lockstep", "select"} /\ file' \in Texts
  /\ cpc' = "prompt" /\ asked' = 0 /\ stray' = FALSE
  /\ riga' = 0 /\ pos' = 0 /\ countLinee' = 0 /\ out' = <<>> /\ tmp' = <<>>
  /\ c2s' = <<>> /\ s2c' = <<>>
  /\ kid' = "none" /\ header' = NoHeader /\ got' = 0 /\ lineCounter' = 0 /\ buff' = <<>>

Client ==
  \/ SendChar \/ Receive("recv", "send") \/ Receive("poll", "send") \/ Receive("drain", "drain")
  \/ PollMisses \/ StartDrain \/ FinishLockstep \/ FinishSelect

-------------------------------------------------------------------------------
(***************************************************************************)
(* The server and the child.                                               *)
(***************************************************************************)
KidGoto(from, to) == kid = from /\ kid' = to

\* The connection is accepted and the child knows the name of the host.
Accept ==
  /\ KidGoto("none", "name")
  /\ UNCHANGED <<clientVars, header, got, lineCounter, buff, c2s, s2c>>

\* It does not: continue takes the child to the accept loop of its parent, and
\* nobody reads from the connection, which stays open.
LookupFails ==
  /\ KidGoto("none", "lost")
  /\ UNCHANGED <<clientVars, header, got, lineCounter, buff, c2s, s2c>>

ReadHeader ==
  /\ c2s # <<>>
  /\ KidGoto("name", "data")
  /\ header' = Head(c2s)
  /\ c2s' = Tail(c2s)
  /\ got' = 0 /\ lineCounter' = 0 /\ buff' = <<>>
  /\ UNCHANGED <<clientVars, s2c>>

\* send to a client that has gone is lost, or raises SIGPIPE (KidKilled).
SendLine(line) == s2c' = IF cpc = "done" THEN s2c ELSE s2c \o line

\* Fault: the count starts again at every line.
ReadCharUncounted ==
  /\ kid = "data" /\ got < header.dim /\ c2s # <<>>
  /\ got' = got + 1
  /\ c2s' = Tail(c2s)
  /\ IF Head(c2s) = Newline
     THEN /\ lineCounter' = 1
          /\ buff' = <<>>
          /\ IF lineCounter' # header.riga THEN SendLine(Append(buff, Newline)) ELSE UNCHANGED s2c
     ELSE buff' = Append(buff, Head(c2s)) /\ UNCHANGED <<lineCounter, s2c>>
  /\ UNCHANGED <<clientVars, kid, header>>

\* Fault: one character more than announced.
ReadCharPastEnd ==
  /\ kid = "data" /\ got <= header.dim /\ c2s # <<>>
  /\ got' = got + 1
  /\ c2s' = Tail(c2s)
  /\ IF Head(c2s) = Newline
     THEN /\ lineCounter' = lineCounter + 1
          /\ buff' = <<>>
          /\ IF lineCounter' # header.riga THEN SendLine(Append(buff, Newline)) ELSE UNCHANGED s2c
     ELSE buff' = Append(buff, Head(c2s)) /\ UNCHANGED <<lineCounter, s2c>>
  /\ UNCHANGED <<clientVars, kid, header>>

\* A character goes into the buffer; the end of a line sends it.
ReadChar ==
  /\ kid = "data" /\ got < header.dim /\ c2s # <<>>
  /\ got' = got + 1
  /\ c2s' = Tail(c2s)
  /\ IF Head(c2s) = Newline
     THEN /\ lineCounter' = lineCounter + 1
          /\ buff' = <<>>
          /\ IF lineCounter' # header.riga THEN SendLine(Append(buff, Newline)) ELSE UNCHANGED s2c
     ELSE buff' = Append(buff, Head(c2s)) /\ UNCHANGED <<lineCounter, s2c>>
  /\ UNCHANGED <<clientVars, kid, header>>

\* What is left in the buffer is the last line, without an end.
EndFile ==
  /\ got = header.dim
  /\ KidGoto("data", "name")
  /\ lineCounter' = lineCounter + 1
  /\ IF lineCounter' # header.riga THEN SendLine(buff) ELSE UNCHANGED s2c
  /\ UNCHANGED <<clientVars, header, got, buff, c2s>>

AtEnd == cpc = "done" /\ c2s = <<>>

KidEnds(label) ==
  /\ kid' = label
  /\ UNCHANGED <<clientVars, header, got, lineCounter, buff, c2s, s2c>>

\* Fault: the end of the connection is taken for an empty request.
KidStays == kid = "name" /\ AtEnd /\ UNCHANGED vars

\* recv of a name returns 0.
KidExits == kid = "name" /\ AtEnd /\ KidEnds("exited")

\* recv of a character returns 0 and got never reaches the length: the character
\* before is taken again and again, until the buffer is overrun or a line is sent
\* to the client that has gone.
RunsAway == kid = "data" /\ got < header.dim /\ AtEnd /\ KidEnds("crashed")

\* A second send to a client that has gone.
KidKilled == kid = "data" /\ cpc = "done" /\ KidEnds("crashed")

Kid == ReadHeader \/ ReadChar \/ EndFile \/ KidExits \/ RunsAway

Server == Accept \/ LookupFails

Next == Ask \/ ClientEnds \/ Relaunch \/ Client \/ Server \/ Kid \/ KidKilled

Spec == Init /\ [][Next]_vars

\* Everybody is scheduled fairly who does not wait for the user.
FairSpec == Spec /\ WF_vars(Client) /\ WF_vars(Server) /\ WF_vars(Kid)

-------------------------------------------------------------------------------
TypeOK ==
  /\ kind \in {"lockstep", "select"}
  /\ cpc \in {"prompt", "send", "recv", "poll", "drain", "done"}
  /\ asked \in 0..MaxAsked
  /\ file \in Seq(Chars) /\ out \in Seq(Chars) /\ tmp \in Seq(Chars)
  /\ riga \in Rows \cup {0}
  /\ pos \in 0..Len(file) \/ cpc \in {"prompt", "done"}
  /\ countLinee \in 0..pos
  /\ c2s \in Seq(Chars \cup [riga : Rows, dim : Nat])
  /\ s2c \in Seq(Chars)
  /\ kid \in {"none", "lost", "name", "data", "exited", "crashed"}
  /\ header \in [riga : Rows \cup {0}, dim : Nat]
  /\ got \in 0..header.dim
  /\ lineCounter \in 0..(got + 1)
  /\ buff \in Seq(Chars)
  /\ stray \in BOOLEAN

\* The number of the line that the character at i belongs to.
LineOf(text, i) == 1 + Cardinality({j \in 1..(i - 1) : text[j] = Newline})

\* text without line n.
Filtered(text, n) ==
  LET kept == {i \in DOMAIN text : LineOf(text, i) # n}
  IN  [k \in 1..Cardinality(kept) |->
         text[CHOOSE i \in kept : Cardinality({j \in kept : j <= i}) = k]]

\* A file that is replaced is replaced by itself without the line asked for, and
\* there are two ways only in which it is not: something was left unread on the
\* connection, in this request or an earlier one (a last line that clientTCP does
\* not wait for, the end of a file that clientTCPselect does not wait for any
\* longer), or the temporary file had a content before.
Finishes == cpc \in {"send", "drain"} /\ cpc' = "prompt"

ExactUnlessStray ==
  [][Finishes /\ ~stray' /\ tmp = <<>> => (file' = Filtered(file, riga) \/ tmp' = Filtered(file, riga))]_vars

\* A client gets through its file: clientTCP and the child agree on the lines for
\* which there is an answer, also when clientTCP has read something in between
\* that was left over.  Unless nobody reads from the connection.
FilterEnds ==
  cpc \in {"send", "recv", "poll", "drain"} ~> cpc \in {"prompt", "done"} \/ kid = "lost"

\* The child of a client that has gone ends.
ChildEnds == cpc = "done" ~> kid \in {"exited", "crashed", "lost"}
===============================================================================
