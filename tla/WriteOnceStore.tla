---------------------------- MODULE WriteOnceStore ----------------------------
(***************************************************************************)
(* What the servers of the multiple put promise about the files they       *)
(* receive: a file is created once, by one client; only that client adds   *)
(* to it, the blocks of one of its own files in their order; and once the  *)
(* client has left it, complete or not, it never changes again.            *)
(***************************************************************************)
EXTENDS SequencesExt

CONSTANTS
  Writers,    \* who may write
  Files,      \* the names of the files
  Absent,     \* no file
  Nobody,     \* no writer
  Data(_, _)  \* Data(w, f): the contents that writer w may have for file f

VARIABLES
  content,    \* content[f]: the blocks in file f, or Absent
  writer      \* writer[f]: who is writing file f, or Nobody

StoreInit ==
  /\ content = [f \in Files |-> Absent]
  /\ writer = [f \in Files |-> Nobody]

Create(w, f) ==
  /\ content[f] = Absent
  /\ content' = [content EXCEPT ![f] = <<>>]
  /\ writer' = [writer EXCEPT ![f] = w]

\* The next block of a content that the file is the beginning of; with the last
\* one the writer may leave.
Grow(w, f) ==
  /\ writer[f] = w
  /\ \E d \in Data(w, f) :
       /\ IsStrictPrefix(content[f], d)
       /\ content' = [content EXCEPT ![f] = Append(@, d[Len(@) + 1])]
       /\ writer' \in {writer, [writer EXCEPT ![f] = Nobody]}

\* Writers leave their files, several at a time when the server stops.
Leave(F) ==
  /\ F # {} /\ \A f \in F : writer[f] # Nobody
  /\ writer' = [f \in Files |-> IF f \in F THEN Nobody ELSE writer[f]]
  /\ UNCHANGED content

StoreNext ==
  \/ \E w \in Writers, f \in Files : Create(w, f) \/ Grow(w, f)
  \/ \E F \in SUBSET Files : Leave(F)

StoreSpec == StoreInit /\ [][StoreNext]_<<content, writer>>
================================================================================
