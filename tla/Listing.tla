------------------------------- MODULE Listing -------------------------------
(***************************************************************************)
(* The TCP service of esercitazione_4: clientTCP asks for directories, the *)
(* child that server.c forks for its connection answers 1 or -1, and after *)
(* a 1 sends the names of the files of all subdirectories, each 256 bytes  *)
(* long.  Nothing marks the last name: the client stops reading when a     *)
(* select finds nothing.  Module SelectServer composes it with the server. *)
(*                                                                         *)
(* The stream to the client is made of units of 4 bytes, the length of a   *)
(* result; NameUnits of them are a name (64 in the code).  Which name it   *)
(* is makes no difference, so a directory is the number of files in each   *)
(* of its subdirectories.                                                  *)
(***************************************************************************)
EXTENDS Integers, Sequences, FiniteSets, SequencesExt

CONSTANTS
  Clients,    \* the places clients run at: one process and connection at a time
  Dirs,       \* the names the users may give
  Tree,       \* Tree[d]: the files in each subdirectory of d, or Missing
  Missing,    \* no such directory
  NameUnits,  \* how many units a name takes
  MaxAsked    \* bound: how many directories the user of a client names

ASSUME TreeAssumption ==
  /\ Missing \notin Seq(Nat)
  /\ Tree \in [Dirs -> Seq(Nat) \cup {Missing}]

ASSUME UnitAssumption == NameUnits \in Nat \ {0} /\ MaxAsked \in Nat

VARIABLES
  cpc,        \* cpc[c]: where client c is
  asked,      \* asked[c]: how many directories its user has named
  res,        \* res[c]: its variable res is not negative
  requests,   \* requests[c]: the names on their way to the child
  s2c,        \* s2c[c]: the units on their way to the client
  kid,        \* kid[c]: where the child for its connection is
  subs,       \* subs[c]: the subdirectories the child has still to open
  names,      \* names[c]: the names it has still to send of the open one
  early       \* history: clients that stopped reading with more to come

clientVars == <<cpc, asked, res, early>>
kidVars == <<kid, subs, names>>
listingVars == <<clientVars, kidVars, requests, s2c>>

ClientLabels == {"start", "prompt", "result", "names", "spin", "done"}
KidLabels == {"none", "read", "list", "exited", "crashed"}
Units == {"ok", "error", "part"}

Gone == {"exited", "crashed"}

ListingInit ==
  /\ cpc = [c \in Clients |-> "start"]
  /\ asked = [c \in Clients |-> 0]
  /\ res = [c \in Clients |-> TRUE]
  /\ requests = [c \in Clients |-> <<>>]
  /\ s2c = [c \in Clients |-> <<>>]
  /\ kid = [c \in Clients |-> "none"]
  /\ subs = [c \in Clients |-> <<>>]
  /\ names = [c \in Clients |-> 0]
  /\ early = {}

-------------------------------------------------------------------------------
(***************************************************************************)
(* The client.                                                             *)
(***************************************************************************)
ClientGoto(c, from, to) ==
  /\ cpc[c] = from
  /\ cpc' = [cpc EXCEPT ![c] = to]

\* The user names a directory.
Ask(c) ==
  /\ asked[c] < MaxAsked
  /\ ClientGoto(c, "prompt", "result")
  /\ asked' = [asked EXCEPT ![c] = @ + 1]
  /\ \E d \in Dirs : requests' = [requests EXCEPT ![c] = Append(@, d)]
  /\ UNCHANGED <<res, early, kidVars, s2c>>

\* recv of 4 bytes.  Bytes of a name make any number.
ReadResult(c) ==
  /\ s2c[c] # <<>>
  /\ s2c' = [s2c EXCEPT ![c] = Tail(@)]
  /\ \E r \in CASE Head(s2c[c]) = "ok" -> {TRUE}
                [] Head(s2c[c]) = "error" -> {FALSE}
                [] OTHER -> BOOLEAN :
       /\ res' = [res EXCEPT ![c] = r]
       /\ ClientGoto(c, "result", IF r THEN "names" ELSE "prompt")
  /\ UNCHANGED <<asked, early, kidVars, requests>>

\* select finds something and recv takes what is there, up to a name.
ReadName(c) ==
  /\ cpc[c] = "names" /\ s2c[c] # <<>>
  /\ \E n \in 1..NameUnits :
       n <= Len(s2c[c]) /\ s2c' = [s2c EXCEPT ![c] = SubSeq(@, n + 1, Len(@))]
  /\ UNCHANGED <<clientVars, kidVars, requests>>

\* There is more to come for c than it has read.
Outstanding(c) == s2c[c] # <<>> \/ requests[c] # <<>> \/ kid[c] = "list"

\* select finds nothing: its second is over, or was used up by the selects
\* before, and what the child has written may still be on its way.
Expire(c) ==
  /\ ClientGoto(c, "names", "prompt")
  /\ early' = IF Outstanding(c) THEN early \cup {c} ELSE early
  /\ UNCHANGED <<asked, res, kidVars, requests, s2c>>

\* The other end is closed and recv returns 0, which leaves res as it was.
\* Among the names that goes on for ever: select finds the socket readable, recv
\* returns 0 and is not looked at.
ReadEof(c) ==
  /\ kid[c] \in Gone /\ s2c[c] = <<>>
  /\ \/ ClientGoto(c, "result", IF res[c] THEN "spin" ELSE "prompt")
     \/ ClientGoto(c, "names", "spin")
  /\ requests' = [requests EXCEPT ![c] = <<>>]
  /\ UNCHANGED <<asked, res, early, kidVars, s2c>>

\* The end of input, or a signal at any moment.  What has been asked may get
\* through or not.
ClientEnds(c) ==
  /\ cpc[c] \notin {"start", "done"}
  /\ cpc' = [cpc EXCEPT ![c] = "done"]
  /\ s2c' = [s2c EXCEPT ![c] = <<>>]
  /\ \E k \in 0..Len(requests[c]) : requests' = [requests EXCEPT ![c] = SubSeq(@, 1, k)]
  /\ UNCHANGED <<asked, res, early, kidVars>>

\* The user runs the client again, for a new connection and a new child.
Relaunch(c) ==
  /\ kid[c] \in Gone
  /\ ClientGoto(c, "done", "start")
  /\ asked' = [asked EXCEPT ![c] = 0]
  /\ res' = [res EXCEPT ![c] = TRUE]
  /\ kid' = [kid EXCEPT ![c] = "none"]
  /\ requests' = [requests EXCEPT ![c] = <<>>]
  /\ early' = early \ {c}
  /\ UNCHANGED <<subs, names, s2c>>

ClientReads(c) == ReadResult(c) \/ ReadName(c) \/ Expire(c)

-------------------------------------------------------------------------------
(***************************************************************************)
(* The child.                                                              *)
(***************************************************************************)
KidGoto(c, from, to) ==
  /\ kid[c] = from
  /\ kid' = [kid EXCEPT ![c] = to]

\* What is written to a client that has ended is lost.
Write(c, units) ==
  s2c' = [s2c EXCEPT ![c] = IF cpc[c] = "done" THEN @ ELSE @ \o units]

\* Fault: the child does not say that it could open the directory.
OpenUnnotified(c) ==
  /\ requests[c] # <<>> /\ Tree[Head(requests[c])] # Missing
  /\ KidGoto(c, "read", "list")
  /\ requests' = [requests EXCEPT ![c] = Tail(@)]
  /\ subs' = [subs EXCEPT ![c] = Tree[Head(requests[c])]]
  /\ UNCHANGED <<clientVars, names, s2c>>

\* A name has come: the directory can be opened,
OpenDir(c) ==
  /\ requests[c] # <<>> /\ Tree[Head(requests[c])] # Missing
  /\ KidGoto(c, "read", "list")
  /\ requests' = [requests EXCEPT ![c] = Tail(@)]
  /\ subs' = [subs EXCEPT ![c] = Tree[Head(requests[c])]]
  /\ Write(c, <<"ok">>)
  /\ UNCHANGED <<clientVars, names>>

\* Fault: a directory that cannot be opened is passed over in silence.
RefuseSilently(c) ==
  /\ kid[c] = "read" /\ requests[c] # <<>>
  /\ requests' = [requests EXCEPT ![c] = Tail(@)]
  /\ UNCHANGED <<clientVars, kidVars, s2c>>

\* or it cannot: there is none, or the child, which closes no directory, has no
\* descriptor left.
RefuseDir(c) ==
  /\ kid[c] = "read" /\ requests[c] # <<>>
  /\ requests' = [requests EXCEPT ![c] = Tail(@)]
  /\ Write(c, <<"error">>)
  /\ UNCHANGED <<clientVars, kidVars>>

NextSub(c) == kid[c] = "list" /\ names[c] = 0 /\ subs[c] # <<>>

OpenSub(c) ==
  /\ NextSub(c)
  /\ names' = [names EXCEPT ![c] = Head(subs[c])]
  /\ subs' = [subs EXCEPT ![c] = Tail(@)]
  /\ UNCHANGED <<clientVars, kid, requests, s2c>>

KidEnds(c, label) ==
  /\ kid' = [kid EXCEPT ![c] = label]
  /\ subs' = [subs EXCEPT ![c] = <<>>]
  /\ names' = [names EXCEPT ![c] = 0]
  /\ UNCHANGED <<clientVars, requests, s2c>>

\* opendir of a subdirectory returns NULL, and readdir is called with it.
OpenSubFails(c) == NextSub(c) /\ KidEnds(c, "crashed")

\* Fault: the end of the subdirectory is seen one name too late.
SendNamePastEnd(c) ==
  /\ kid[c] = "list" /\ names[c] >= 0
  /\ names' = [names EXCEPT ![c] = @ - 1]
  /\ Write(c, [i \in 1..NameUnits |-> "part"])
  /\ UNCHANGED <<clientVars, kid, subs, requests>>

SendName(c) ==
  /\ kid[c] = "list" /\ names[c] > 0
  /\ names' = [names EXCEPT ![c] = @ - 1]
  /\ Write(c, [i \in 1..NameUnits |-> "part"])
  /\ UNCHANGED <<clientVars, kid, subs, requests>>

\* Back to the read of the next name.
EndList(c) ==
  /\ names[c] = 0 /\ subs[c] = <<>>
  /\ KidGoto(c, "list", "read")
  /\ UNCHANGED <<clientVars, subs, names, requests, s2c>>

\* read returns 0 once the client has ended.
KidExits(c) ==
  /\ kid[c] = "read" /\ requests[c] = <<>> /\ cpc[c] = "done"
  /\ KidEnds(c, "exited")

\* A write to a client that has gone raises SIGPIPE.
KidKilled(c) == kid[c] \in {"read", "list"} /\ cpc[c] = "done" /\ KidEnds(c, "exited")

KidStep(c) ==
  \/ OpenDir(c) \/ RefuseDir(c) \/ OpenSub(c) \/ OpenSubFails(c) \/ SendName(c)
  \/ EndList(c) \/ KidExits(c)

-------------------------------------------------------------------------------
ListingTypeOK ==
  /\ cpc \in [Clients -> ClientLabels]
  /\ asked \in [Clients -> 0..MaxAsked]
  /\ res \in [Clients -> BOOLEAN]
  /\ requests \in [Clients -> Seq(Dirs)]
  /\ s2c \in [Clients -> Seq(Units)]
  /\ kid \in [Clients -> KidLabels]
  /\ subs \in [Clients -> Seq(Nat)]
  /\ names \in [Clients -> Nat]
  /\ early \subseteq Clients
===============================================================================
