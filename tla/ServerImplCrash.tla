---------------------------- MODULE ServerImplCrash ----------------------------
(***************************************************************************)
(* ServerImpl whose virtual machine may stop at any moment and be started  *)
(* again.  The disk is all that stays: the table, the threads and their    *)
(* calls are gone, and the threads of the new machine get the same         *)
(* identifiers, so they write the same temporary files.                    *)
(***************************************************************************)
EXTENDS ServerImpl

\* A thread that is stopped while it copies leaves the first kept[t] rows it
\* has read, without the target, in its temporary file.
LeftBehind(kept) ==
  [tp \in Threads \X Paths |->
     LET t == tp[1] IN
       IF pc[t] = "copy" /\ Path(t) = tp[2]
       THEN Without(SubSeq(rows[t], 1, kept[t]), call[t].arg)
       ELSE tmp[tp]]

\* The machine stops and main starts the service again, with an empty table.
Crash ==
  /\ \E kept \in [Threads -> 0..Max({Len(rows[t]) : t \in Threads})] :
       /\ \A t \in Threads : kept[t] <= Len(rows[t])
       /\ tmp' = LeftBehind(kept)
  /\ files' = <<>>
  /\ status' = <<>>
  /\ pc' = [t \in Threads |-> "idle"]
  /\ rows' = [t \in Threads |-> <<>>]
  /\ index' = [t \in Threads |-> 0]
  /\ reply' = [t \in Threads |-> NoReply]
  /\ UNCHANGED <<fs, versions, call>>

CrashNext == Next \/ Crash

CrashSpec == Init /\ [][CrashNext]_vars

-------------------------------------------------------------------------------
\* The rows of a file are never lost: when the machine stops between file.delete
\* and renameTo the file is missing for good, no call puts it back, but a
\* finished copy of one of its versions stays on the disk, and no thread of any
\* later machine overwrites it while the file is missing.
RowsSurvive ==
  \A p \in Paths :
    fs[p] = Absent /\ Disk[p] # Absent =>
      \E t \in Threads, v \in versions[p], k \in Args : tmp[t, p] = Without(v, k)
================================================================================
