------------------------------ MODULE ServerImpl ------------------------------
(***************************************************************************)
(* The RMI service of esercitazione5: conta_righe counts the rows of a     *)
(* file that have enough words, elimina_riga removes one row of a file by  *)
(* copying the others to a temporary file, deleting the file and renaming  *)
(* the copy.  RMI runs every call on a thread of its own; the threads      *)
(* share the disk and a table (files, status) that is to keep two          *)
(* elimina_riga off the same file.                                         *)
(*                                                                         *)
(* The two accessors of the table are synchronized, so each is one step.   *)
(* A file that is being read is never written in place (a new version      *)
(* arrives by rename), so a reader sees the version it opened: rows[t].    *)
(* The copy is private to its thread until the rename, so copying all the  *)
(* rows is one step.                                                       *)
(***************************************************************************)
EXTENDS Integers, Sequences, FiniteSets, SequencesExt

CONSTANTS
  Threads,    \* the RMI threads that run the calls
  Paths,      \* the file names that the clients send
  Rows,       \* the rows the files are made of
  Words,      \* Words[r]: the number of words of row r
  Disk,       \* Disk[p]: the rows of file p at the start, or Absent
  Args,       \* the numbers clients send: a row to remove, a number of words
  TableSize,  \* the length of the arrays files and status (256 in the code)
  Absent      \* no such file

ASSUME DiskAssumption ==
  /\ Absent \notin Seq(Rows)
  /\ Disk \in [Paths -> Seq(Rows) \cup {Absent}]

ASSUME TableAssumption == TableSize \in Nat \ {0} /\ Args \subseteq Int

ASSUME WordsAssumption == Words \in [Rows -> Nat]

VARIABLES
  fs,         \* fs[p]: the rows of file p now, or Absent
  tmp,        \* tmp[t, p]: the temporary file of thread t for p, or Absent
  files,      \* the paths entered in the table, in order of first use
  status,     \* status[i]: files[i] is taken
  pc,         \* pc[t]: where thread t is
  call,       \* call[t]: the call t runs, or ran last
  rows,       \* rows[t]: the version of the file that t has opened
  index,      \* index[t]: how many rows t has read
  reply,      \* reply[t]: what t answered last
  versions    \* history: the contents each path has ever shown

vars == <<fs, tmp, files, status, pc, call, rows, index, reply, versions>>

Calls == [op : {"conta", "elimina"}, path : Paths, arg : Args]

Labels == {"idle", "check", "count", "spin", "open", "copy", "delete",
           "rename", "release", "short", "catch"}

NoReply == [tag |-> "none", n |-> 0]
Exception == [tag |-> "exception", n |-> 0]
Text(n) == [tag |-> "text", n |-> n]      \* the string n + filename
Count(n) == [tag |-> "count", n |-> n]

Init ==
  /\ fs = Disk
  /\ tmp = [tp \in Threads \X Paths |-> Absent]
  /\ files = <<>>
  /\ status = <<>>
  /\ pc = [t \in Threads |-> "idle"]
  /\ call \in [Threads -> {[op |-> "conta", path |-> p, arg |-> a] : p \in Paths, a \in Args}]
  /\ rows = [t \in Threads |-> <<>>]
  /\ index = [t \in Threads |-> 0]
  /\ reply = [t \in Threads |-> NoReply]
  /\ versions = [p \in Paths |-> {Disk[p]} \ {Absent}]

-------------------------------------------------------------------------------
(***************************************************************************)
(* The table.  A path is looked for from the first entry on and entered    *)
(* behind the last one; an entry is never removed.                         *)
(***************************************************************************)
Known(p) == \E i \in DOMAIN files : files[i] = p

Slot(p) == CHOOSE i \in DOMAIN files : files[i] = p /\ \A j \in 1..(i - 1) : files[j] # p

TableFull == Len(files) = TableSize

Busy(p) == Known(p) /\ status[Slot(p)]

\* Fault: the entry is made without its status.
EnterPathOnly(p, s) ==
  /\ files' = Append(files, p)
  /\ UNCHANGED status

Enter(p, s) ==
  /\ files' = Append(files, p)
  /\ status' = Append(status, s)

\* setStatusFile: overwrites the entry of p, or enters p.
SetStatus(p, s) ==
  IF Known(p)
  THEN status' = [status EXCEPT ![Slot(p)] = s] /\ UNCHANGED files
  ELSE ~TableFull /\ Enter(p, s)

\* Fault: the status of a known file is not looked at.
GetStatusUnasked(p) ==
  IF Known(p)
  THEN UNCHANGED <<files, status>>
  ELSE ~TableFull /\ Enter(p, TRUE)

\* Fault: a file that is free is taken again, as a lock would do.
GetStatusTakes(p) ==
  IF Known(p)
  THEN ~Busy(p) /\ SetStatus(p, TRUE)
  ELSE ~TableFull /\ Enter(p, TRUE)

\* getStatusFile answering false: the entry of p is left as it is, or p is
\* entered as taken by the caller.
GetStatusFalse(p) ==
  IF Known(p)
  THEN ~Busy(p) /\ UNCHANGED <<files, status>>
  ELSE ~TableFull /\ Enter(p, TRUE)

-------------------------------------------------------------------------------
Goto(t, from, to) ==
  /\ pc[t] = from
  /\ pc' = [pc EXCEPT ![t] = to]

\* The file that the call of t is about.
Path(t) == call[t].path

\* The name of its temporary file is made of the file's and the thread's, so no
\* other thread writes it: filename + Thread.currentThread().getId() + ".txt".
Tmp(t) == tmp[t, Path(t)]

SetTmp(t, content) == tmp' = [tmp EXCEPT ![<<t, Path(t)>>] = content]

table == <<files, status>>
disk == <<fs, tmp, versions>>
locals == <<rows, index>>

\* The call ends: its answer goes to the client, its locals go out of scope.
Return(t, from, r) ==
  /\ Goto(t, from, "idle")
  /\ reply' = [reply EXCEPT ![t] = r]
  /\ rows' = [rows EXCEPT ![t] = <<>>]
  /\ index' = [index EXCEPT ![t] = 0]

\* The rows that the copying loop writes: all but row number k.
Without(s, k) == IF k \in DOMAIN s THEN RemoveAt(s, k) ELSE s

\* How many rows have n words or more.
Wordy(s, n) == Cardinality({i \in DOMAIN s : Words[s[i]] >= n})

\* A client calls one of the two methods; an idle thread takes the call.
Call(t) ==
  /\ Goto(t, "idle", "check")
  /\ \E c \in Calls : call' = [call EXCEPT ![t] = c]
  /\ reply' = [reply EXCEPT ![t] = NoReply]
  /\ UNCHANGED <<disk, table, locals>>

\* if(!file.exists() || !file.isFile()) throw new RemoteException()
CheckMissing(t) ==
  /\ fs[Path(t)] = Absent
  /\ Return(t, "check", Exception)
  /\ UNCHANGED <<disk, table, call>>

CheckFound(t) ==
  /\ Goto(t, "check", IF call[t].op = "conta" THEN "count" ELSE "spin")
  /\ fs[Path(t)] # Absent
  /\ UNCHANGED <<disk, table, locals, call, reply>>

\* conta_righe from here on: one version of the file is opened and read.
CountRows(t) ==
  /\ fs[Path(t)] # Absent
  /\ Return(t, "count", Count(Wordy(fs[Path(t)], call[t].arg)))
  /\ UNCHANGED <<disk, table, call>>

\* The file has gone since the check, or cannot be read: the IOException is
\* caught and the rows counted so far are the answer.
CountFails(t) ==
  /\ IF fs[Path(t)] = Absent
     THEN Return(t, "count", Count(0))
     ELSE \E k \in 0..Len(fs[Path(t)]) :
            Return(t, "count", Count(Wordy(SubSeq(fs[Path(t)], 1, k), call[t].arg)))
  /\ UNCHANGED <<disk, table, call>>

\* while(getStatusFile(file)); the rounds that find the file taken change
\* nothing, this is the round that leaves the loop.
EnterGate(t) ==
  /\ Goto(t, "spin", "open")
  /\ GetStatusFalse(Path(t))
  /\ UNCHANGED <<disk, locals, call, reply>>

\* The table has no room for a new file: files[i] is out of bounds and the
\* call ends in an unchecked exception, before its try block.
GateOverflow(t) ==
  /\ ~Known(Path(t)) /\ TableFull
  /\ Return(t, "spin", Exception)
  /\ UNCHANGED <<disk, table, call>>

\* The reader opens the version of the file that is there now, the writer
\* creates the temporary file, which truncates one that an earlier call left there.
OpenFiles(t) ==
  /\ Goto(t, "open", "copy")
  /\ fs[Path(t)] # Absent
  /\ rows' = [rows EXCEPT ![t] = fs[Path(t)]]
  /\ SetTmp(t, <<>>)
  /\ UNCHANGED <<fs, versions, table, index, call, reply>>

\* The file has gone since the check, or one of the two cannot be opened.
OpenFails(t) ==
  /\ Goto(t, "open", "catch")
  /\ UNCHANGED <<disk, table, locals, call, reply>>

\* Fault: the writer is not closed, the rows stay in its buffer.
CopyRowsUnflushed(t) ==
  /\ LET short == Len(rows[t]) < call[t].arg IN
       /\ Goto(t, "copy", IF short THEN "short" ELSE "delete")
       /\ SetTmp(t, IF short THEN Absent ELSE <<>>)
  /\ index' = [index EXCEPT ![t] = Len(rows[t])]
  /\ UNCHANGED <<fs, versions, table, rows, call, reply>>

\* The loop copies every row but the target; a file with fewer rows than the
\* target has its temporary file deleted.
CopyRows(t) ==
  /\ LET short == Len(rows[t]) < call[t].arg IN
       /\ Goto(t, "copy", IF short THEN "short" ELSE "delete")
       /\ SetTmp(t, IF short THEN Absent ELSE Without(rows[t], call[t].arg))
  /\ index' = [index EXCEPT ![t] = Len(rows[t])]
  /\ UNCHANGED <<fs, versions, table, rows, call, reply>>

\* Fault: the exception of readLine is swallowed inside the loop, and what has
\* been copied so far replaces the file.
CopyGoesOn(t) ==
  /\ Goto(t, "copy", "delete")
  /\ \E k \in 0..Len(rows[t]) :
       /\ SetTmp(t, Without(SubSeq(rows[t], 1, k), call[t].arg))
       /\ index' = [index EXCEPT ![t] = k]
  /\ UNCHANGED <<fs, versions, table, rows, call, reply>>

\* readLine throws after k rows: the temporary file stays behind.
CopyFails(t) ==
  /\ Goto(t, "copy", "catch")
  /\ \E k \in 0..Len(rows[t]) :
       /\ SetTmp(t, Without(SubSeq(rows[t], 1, k), call[t].arg))
       /\ index' = [index EXCEPT ![t] = k]
  /\ UNCHANGED <<fs, versions, table, rows, call, reply>>

\* The file is too short: its entry is freed and a RemoteException thrown.
\* RemoteException is an IOException, so the catch clause below takes it.
ShortRelease(t) ==
  /\ Goto(t, "short", "catch")
  /\ SetStatus(Path(t), FALSE)
  /\ UNCHANGED <<disk, locals, call, reply>>

\* file.delete()
DeleteFile(t) ==
  /\ Goto(t, "delete", "rename")
  /\ fs' = [fs EXCEPT ![Path(t)] = Absent]
  /\ UNCHANGED <<tmp, versions, table, locals, call, reply>>

\* Fault: the name of the temporary file lacks the thread's, so renaming it
\* takes it away from the others that work on the same file.
RenameSharedTmp(t) ==
  /\ Goto(t, "rename", "release")
  /\ fs' = [fs EXCEPT ![Path(t)] = IF Tmp(t) = Absent THEN @ ELSE Tmp(t)]
  /\ versions' = [versions EXCEPT ![Path(t)] = @ \cup ({Tmp(t)} \ {Absent})]
  /\ tmp' = [tp \in Threads \X Paths |-> IF tp[2] = Path(t) THEN Absent ELSE tmp[tp]]
  /\ UNCHANGED <<table, locals, call, reply>>

\* Fault: renameTo fails, as it does across file systems, and nobody looks.
RenameFails(t) ==
  /\ Goto(t, "rename", "release")
  /\ UNCHANGED <<disk, table, locals, call, reply>>

\* tmp.renameTo(new File(filename))
RenameTmp(t) ==
  /\ Goto(t, "rename", "release")
  /\ fs' = [fs EXCEPT ![Path(t)] = Tmp(t)]
  /\ versions' = [versions EXCEPT ![Path(t)] = @ \cup {Tmp(t)}]
  /\ SetTmp(t, Absent)
  /\ UNCHANGED <<table, locals, call, reply>>

\* setStatusFile(file, false), and the answer index-1 + filename.
ReleaseEntry(t) ==
  /\ SetStatus(Path(t), FALSE)
  /\ Return(t, "release", Text(index[t] - 1))
  /\ UNCHANGED <<disk, call>>

\* Fault: the catch clause does not free the entry.
CatchKeeps(t) ==
  /\ Return(t, "catch", Text(index[t] - 1))
  /\ UNCHANGED <<disk, table, call>>

\* The catch clause frees the entry too and falls through to the same answer.
CatchRelease(t) ==
  /\ SetStatus(Path(t), FALSE)
  /\ Return(t, "catch", Text(index[t] - 1))
  /\ UNCHANGED <<disk, call>>

\* What a thread does by itself once it has a call.
Step(t) ==
  \/ CheckMissing(t) \/ CheckFound(t)
  \/ CountRows(t) \/ CountFails(t)
  \/ EnterGate(t) \/ GateOverflow(t)
  \/ OpenFiles(t) \/ OpenFails(t)
  \/ CopyRows(t) \/ CopyFails(t)
  \/ ShortRelease(t) \/ DeleteFile(t) \/ RenameTmp(t)
  \/ ReleaseEntry(t) \/ CatchRelease(t)

Next == \E t \in Threads : Call(t) \/ Step(t)

Spec == Init /\ [][Next]_vars

\* The threads of the virtual machine are scheduled fairly; the clients may
\* stop calling.
FairSpec == Spec /\ \A t \in Threads : WF_vars(Step(t))

-------------------------------------------------------------------------------
TypeOK ==
  /\ fs \in [Paths -> Seq(Rows) \cup {Absent}]
  /\ tmp \in [Threads \X Paths -> Seq(Rows) \cup {Absent}]
  /\ files \in Seq(Paths)
  /\ status \in Seq(BOOLEAN)
  /\ Len(status) = Len(files)
  /\ pc \in [Threads -> Labels]
  /\ call \in [Threads -> Calls]
  /\ rows \in [Threads -> Seq(Rows)]
  /\ index \in [Threads -> Nat]
  /\ reply \in [Threads -> [tag : {"none", "exception", "text", "count"}, n : Int]]
  /\ versions \in [Paths -> SUBSET Seq(Rows)]

\* elimina_riga between the two calls on the table.
Critical == {"open", "copy", "delete", "rename", "release", "short", "catch"}

Inside(t, p) == pc[t] \in Critical /\ Path(t) = p

\* The two accessors search and enter in one synchronized step, so a file has
\* one entry, whatever the threads that ask for it at the same time; and the
\* arrays are never overrun.
OneEntryPerFile == IsInjective(files) /\ Len(files) <= TableSize

\* While the table says that a file is taken, exactly one thread works on it:
\* the first use of every file is exclusive, and no way out of elimina_riga
\* leaves the file taken.
FirstUseExclusive ==
  \A p \in Paths :
    Busy(p) => \E t \in Threads : \A u \in Threads : Inside(u, p) <=> u = t

\* A file that was there and is missing is about to be put back: some thread
\* holds a finished temporary file for it and renames it next.  Two threads
\* that delete the same file do not lose it between them.
MissingFileHasCopy ==
  \A p \in Paths :
    fs[p] = Absent /\ Disk[p] # Absent =>
      \E t \in Threads : pc[t] = "rename" /\ Path(t) = p /\ tmp[t, p] \in Seq(Rows)

\* What the clients see under a path is always the original file or an earlier
\* version of it with one row less: never a copy cut short by
\* a failed read, never rows of another file, whoever interferes.
OneRowPerVersion ==
  \A p \in Paths :
    /\ fs[p] \in versions[p] \cup {Absent}
    /\ \A v \in versions[p] :
         v = Disk[p] \/ \E u \in versions[p] \ {v}, k \in Args : v = Without(u, k)

\* The table is a gate that admits one thread first and then stands open: an
\* entry that has been freed is never taken again.
Gate == INSTANCE OneShotGate WITH
  gate <- [p \in Paths |-> IF Known(p) THEN IF Busy(p) THEN "first" ELSE "open"
                                       ELSE "untouched"]

ImplementsGate == Gate!GateSpec

\* Every call is answered: the busy wait ends, because the thread that holds
\* the file frees it on every path and nobody takes it again.
CallsReturn == \A t \in Threads : pc[t] # "idle" ~> pc[t] = "idle"

\* A file that a replacement has deleted is there again some time later.
MissingFileReturns ==
  \A p \in Paths : Disk[p] # Absent => (fs[p] = Absent ~> fs[p] # Absent)

\* ServerImpl.java:19 and 110 call the table and the wait on it the mutual
\* exclusion of elimina_riga: two threads are never both inside, on one file.
MutualExclusion ==
  \A p \in Paths : \A t, u \in Threads : Inside(t, p) /\ Inside(u, p) => t = u
===============================================================================
