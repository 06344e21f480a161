--------------------------- MODULE ServerImplProofs ---------------------------
(***************************************************************************)
(* Proofs about ServerImpl, and about ServerImplCrash, whose machine stops *)
(* and starts again, for every set of threads and files, every disk and    *)
(* every length of the table.                                              *)
(***************************************************************************)
EXTENDS ServerImplCrash, SequenceTheorems, FiniteSetTheorems, TLAPS

-------------------------------------------------------------------------------
(***************************************************************************)
(* What the operators of the service return.                               *)
(***************************************************************************)

\* Copying a file without one of its rows yields a file of the same rows.
LEMMA WithoutType ==
  ASSUME NEW S, NEW s \in Seq(S), NEW k \in Int
  PROVE  Without(s, k) \in Seq(S)
<1>1. CASE k \in DOMAIN s
  <2>1. k \in 1..Len(s)
    BY <1>1
  <2>2. SubSeq(s, 1, k - 1) \in Seq(S)
    BY <2>1
  <2>3. SubSeq(s, k + 1, Len(s)) \in Seq(S)
    BY <2>1
  <2>. QED
    BY <1>1, <2>2, <2>3, ConcatProperties DEF Without, RemoveAt
<1>2. CASE k \notin DOMAIN s
  BY <1>2 DEF Without
<1>. QED
  BY <1>1, <1>2

\* Counting the rows of a file that have enough words yields a number.
LEMMA WordyType ==
  ASSUME NEW s \in Seq(Rows), NEW n
  PROVE  Wordy(s, n) \in Nat
<1>. DEFINE enough == {i \in DOMAIN s : Words[s[i]] >= n}
<1>1. IsFiniteSet(1..Len(s))
  BY FS_Interval
<1>2. enough \in SUBSET (1..Len(s))
  OBVIOUS
<1>3. IsFiniteSet(enough)
  BY <1>1, <1>2, FS_Subset
<1>4. Cardinality(enough) \in Nat
  BY <1>3, FS_CardinalityType
<1>. QED
  BY <1>4 DEF Wordy

\* Reading the first rows of a file yields rows of the file.
LEMMA PrefixType ==
  ASSUME NEW S, NEW s \in Seq(S), NEW k \in 0..Len(s)
  PROVE  SubSeq(s, 1, k) \in Seq(S)
OBVIOUS

\* The entry of a path that is in the table is where Slot points.
SlotIn(f, p) == CHOOSE i \in DOMAIN f : f[i] = p /\ \A j \in 1..(i - 1) : f[j] # p

LEMMA SlotInFacts ==
  ASSUME NEW f \in Seq(Paths), IsInjective(f), NEW i \in DOMAIN f
  PROVE  SlotIn(f, f[i]) = i
<1>1. f[i] = f[i] /\ \A j \in 1..(i - 1) : f[j] # f[i]
  BY DEF IsInjective
<1>2. \A k \in DOMAIN f : f[k] = f[i] => k = i
  BY DEF IsInjective
<1>. QED
  BY <1>1, <1>2 DEF SlotIn

-------------------------------------------------------------------------------
(***************************************************************************)
(* The table: what its two operations do to what is known and what is      *)
(* taken.                                                                  *)
(***************************************************************************)
TableTypeOK ==
  /\ files \in Seq(Paths)
  /\ status \in Seq(BOOLEAN)
  /\ Len(status) = Len(files)

TableOK == TableTypeOK /\ OneEntryPerFile

LEMMA EnterEffect ==
  ASSUME TableOK, NEW p \in Paths, NEW s \in BOOLEAN, ~Known(p), ~TableFull, Enter(p, s)
  PROVE  /\ TableOK'
         /\ \A q \in Paths : /\ Known(q)' <=> (Known(q) \/ q = p)
                             /\ Busy(q)' <=> (IF q = p THEN s ELSE Busy(q))
<1>. USE DEF TableOK, TableTypeOK, OneEntryPerFile
<1>1. /\ files' \in Seq(Paths) /\ Len(files') = Len(files) + 1
      /\ \A i \in 1..Len(files) : files'[i] = files[i]
      /\ files'[Len(files) + 1] = p
  BY AppendProperties DEF Enter
<1>2. /\ status' \in Seq(BOOLEAN) /\ Len(status') = Len(status) + 1
      /\ \A i \in 1..Len(status) : status'[i] = status[i]
      /\ status'[Len(status) + 1] = s
  BY AppendProperties DEF Enter
<1>3. IsInjective(files')
  <2>. SUFFICES ASSUME NEW i \in DOMAIN files', NEW j \in DOMAIN files', files'[i] = files'[j]
                PROVE  i = j
    BY DEF IsInjective
  <2>1. \A k \in 1..Len(files) : files[k] # p
    BY DEF Known
  <2>2. i \in 1..(Len(files) + 1) /\ j \in 1..(Len(files) + 1)
    BY <1>1
  <2>3. CASE i \in 1..Len(files) /\ j \in 1..Len(files)
    BY <2>3, <1>1 DEF IsInjective
  <2>4. CASE i = Len(files) + 1 \/ j = Len(files) + 1
    BY <2>1, <2>2, <2>4, <1>1
  <2>. QED
    BY <2>2, <2>3, <2>4
<1>4. TableOK'
  BY <1>1, <1>2, <1>3, TableAssumption DEF TableFull
<1>5. ASSUME NEW q \in Paths
      PROVE  /\ Known(q)' <=> (Known(q) \/ q = p)
             /\ Busy(q)' <=> (IF q = p THEN s ELSE Busy(q))
  <2>1. Known(q)' <=> (Known(q) \/ q = p)
    BY <1>1 DEF Known
  <2>2. CASE q = p
    <3>1. Slot(p)' = Len(files) + 1
      <4>1. SlotIn(files', files'[Len(files) + 1]) = Len(files) + 1
        BY <1>1, <1>3, SlotInFacts
      <4>2. Slot(p)' = SlotIn(files', p)
        BY DEF Slot, SlotIn
      <4>. QED
        BY <4>1, <4>2, <1>1
    <3>. QED
      BY <2>1, <2>2, <3>1, <1>2 DEF Busy
  <2>3. CASE q # p /\ Known(q)
    <3>1. PICK i \in 1..Len(files) : files[i] = q
      BY <2>3 DEF Known
    <3>2. Slot(q) = i
      <4>1. SlotIn(files, files[i]) = i
        BY SlotInFacts
      <4>. QED
        BY <3>1, <4>1 DEF Slot, SlotIn
    <3>3. Slot(q)' = i
      <4>1. SlotIn(files', files'[i]) = i
        BY <1>1, <1>3, SlotInFacts
      <4>2. Slot(q)' = SlotIn(files', q)
        BY DEF Slot, SlotIn
      <4>. QED
        BY <3>1, <4>1, <4>2, <1>1
    <3>. QED
      BY <2>1, <2>3, <3>2, <3>3, <1>2 DEF Busy
  <2>4. CASE q # p /\ ~Known(q)
    BY <2>1, <2>4 DEF Busy
  <2>. QED
    BY <2>1, <2>2, <2>3, <2>4
<1>. QED
  BY <1>4, <1>5

LEMMA SetStatusEffect ==
  ASSUME TableOK, NEW p \in Paths, NEW s \in BOOLEAN, SetStatus(p, s)
  PROVE  /\ TableOK'
         /\ \A q \in Paths : /\ Known(q)' <=> (Known(q) \/ q = p)
                             /\ Busy(q)' <=> (IF q = p THEN s ELSE Busy(q))
<1>1. CASE ~Known(p)
  BY <1>1, EnterEffect DEF SetStatus
<1>2. CASE Known(p)
  <2>. USE DEF TableOK, TableTypeOK, OneEntryPerFile
  <2>1. PICK i \in 1..Len(files) : files[i] = p
    BY <1>2 DEF Known
  <2>2. Slot(p) = i
    BY <2>1, SlotInFacts DEF Slot, SlotIn
  <2>3. status' = [status EXCEPT ![i] = s] /\ UNCHANGED files
    BY <1>2, <2>2 DEF SetStatus
  <2>4. /\ status' \in Seq(BOOLEAN) /\ Len(status') = Len(status)
        /\ \A j \in 1..Len(status) : status'[j] = IF j = i THEN s ELSE status[j]
    BY <2>3, ExceptSeq
  <2>5. TableOK'
    BY <2>3, <2>4
  <2>6. ASSUME NEW q \in Paths
        PROVE  /\ Known(q)' <=> (Known(q) \/ q = p)
               /\ Busy(q)' <=> (IF q = p THEN s ELSE Busy(q))
    <3>1. (Known(q)' <=> Known(q)) /\ Slot(q)' = Slot(q)
      BY <2>3 DEF Known, Slot
    <3>2. CASE q = p
      BY <3>1, <3>2, <1>2, <2>1, <2>2, <2>4 DEF Busy
    <3>3. CASE q # p /\ Known(q)
      <4>1. PICK k \in 1..Len(files) : files[k] = q
        BY <3>3 DEF Known
      <4>2. SlotIn(files, files[k]) = k
        BY SlotInFacts
      <4>3. Slot(q) = k /\ k # i
        BY <3>3, <4>1, <4>2, <2>1 DEF Slot, SlotIn
      <4>. QED
        BY <3>1, <3>3, <4>3, <2>4 DEF Busy
    <3>4. CASE q # p /\ ~Known(q)
      BY <3>1, <3>4 DEF Busy
    <3>. QED
      BY <1>2, <3>1, <3>2, <3>3, <3>4
  <2>. QED
    BY <2>5, <2>6
<1>. QED
  BY <1>1, <1>2

\* Leaving the busy wait takes a file that was not in the table, and nothing
\* else.
LEMMA GetStatusEffect ==
  ASSUME TableOK, NEW p \in Paths, GetStatusFalse(p)
  PROVE  /\ TableOK'
         /\ ~Busy(p)
         /\ \A q \in Paths : /\ Known(q)' <=> (Known(q) \/ q = p)
                             /\ Busy(q)' <=> (IF q = p THEN ~Known(p) ELSE Busy(q))
<1>1. CASE Known(p)
  <2>1. ~Busy(p) /\ UNCHANGED <<files, status>>
    BY <1>1 DEF GetStatusFalse
  <2>2. TableOK'
    BY <2>1 DEF TableOK, TableTypeOK, OneEntryPerFile
  <2>3. \A q \in Paths : (Known(q)' <=> Known(q)) /\ (Busy(q)' <=> Busy(q))
    BY <2>1 DEF Known, Busy, Slot
  <2>. QED
    BY <1>1, <2>1, <2>2, <2>3
<1>2. CASE ~Known(p)
  <2>1. ~TableFull /\ Enter(p, TRUE) /\ ~Busy(p)
    BY <1>2 DEF GetStatusFalse, Busy
  <2>. QED
    BY <1>2, <2>1, EnterEffect
<1>. QED
  BY <1>1, <1>2

LEMMA TableUnchanged ==
  ASSUME UNCHANGED <<files, status>>
  PROVE  /\ TableOK => TableOK'
         /\ \A q \in Paths : (Known(q)' <=> Known(q)) /\ (Busy(q)' <=> Busy(q))
BY DEF TableOK, TableTypeOK, OneEntryPerFile, Known, Busy, Slot

-------------------------------------------------------------------------------
(***************************************************************************)
(* The inductive invariant.  FirstUseExclusive needs to know that whoever  *)
(* is inside has an entry, so that the thread that makes the entry is the  *)
(* only one; the properties of the files need to know what the private     *)
(* copies hold before they are renamed.                                    *)
(***************************************************************************)
InsideKnown == \A t \in Threads : pc[t] \in Critical => Known(Path(t))

CopyComplete ==
  \A t \in Threads :
    /\ pc[t] \in {"copy", "delete", "rename"} => rows[t] \in versions[Path(t)]
    /\ pc[t] \in {"delete", "rename"} => Tmp(t) = Without(rows[t], call[t].arg)

GateInv == OneEntryPerFile /\ InsideKnown /\ FirstUseExclusive

FileInv == CopyComplete /\ MissingFileHasCopy /\ OneRowPerVersion

IInv == TypeOK /\ GateInv /\ FileInv

LEMMA TableFacts ==
  ASSUME TypeOK, GateInv
  PROVE  TableOK
BY DEF TypeOK, GateInv, TableOK, TableTypeOK

\* The steps that do not go through the table.
Quiet(t) ==
  \/ Call(t) \/ CheckMissing(t) \/ CheckFound(t) \/ CountRows(t) \/ CountFails(t)
  \/ GateOverflow(t) \/ OpenFiles(t) \/ OpenFails(t) \/ CopyRows(t) \/ CopyFails(t)
  \/ DeleteFile(t) \/ RenameTmp(t)

\* They take nobody in or out.
LEMMA QuietFrame ==
  ASSUME TypeOK, NEW t \in Threads, Quiet(t)
  PROVE  /\ UNCHANGED <<files, status>>
         /\ \A u \in Threads, p \in Paths : Inside(u, p)' <=> Inside(u, p)
<1>. USE DEF TypeOK, Goto, Return, table, Inside, Critical, Path
<1>1. CASE Call(t)
  BY <1>1 DEF Call
<1>2. CASE CheckMissing(t)
  BY <1>2 DEF CheckMissing
<1>3. CASE CheckFound(t)
  BY <1>3 DEF CheckFound
<1>4. CASE CountRows(t)
  BY <1>4 DEF CountRows
<1>5. CASE CountFails(t)
  BY <1>5 DEF CountFails
<1>6. CASE GateOverflow(t)
  BY <1>6 DEF GateOverflow
<1>7. CASE OpenFiles(t)
  BY <1>7 DEF OpenFiles
<1>8. CASE OpenFails(t)
  BY <1>8 DEF OpenFails
<1>9. CASE CopyRows(t)
  BY <1>9 DEF CopyRows
<1>10. CASE CopyFails(t)
  BY <1>10 DEF CopyFails
<1>11. CASE DeleteFile(t)
  BY <1>11 DEF DeleteFile
<1>12. CASE RenameTmp(t)
  BY <1>12 DEF RenameTmp
<1>. QED
  BY <1>1, <1>2, <1>3, <1>4, <1>5, <1>6, <1>7, <1>8, <1>9, <1>10, <1>11, <1>12 DEF Quiet

\* A thread that frees the entry of its file stays inside or leaves; nobody
\* else moves.
Releases(t) == ShortRelease(t) \/ ReleaseEntry(t) \/ CatchRelease(t)

LEMMA ReleaseFrame ==
  ASSUME TypeOK, NEW t \in Threads, Releases(t)
  PROVE  /\ pc[t] \in Critical
         /\ SetStatus(Path(t), FALSE)
         /\ \A u \in Threads \ {t}, p \in Paths : Inside(u, p)' <=> Inside(u, p)
         /\ \A u \in Threads, p \in Paths : Inside(u, p)' => Inside(u, p)
<1>. USE DEF TypeOK, Goto, Return, Inside, Critical, Path
<1>1. CASE ShortRelease(t)
  BY <1>1 DEF ShortRelease
<1>2. CASE ReleaseEntry(t)
  BY <1>2 DEF ReleaseEntry
<1>3. CASE CatchRelease(t)
  BY <1>3 DEF CatchRelease
<1>. QED
  BY <1>1, <1>2, <1>3 DEF Releases

LEMMA EnterFrame ==
  ASSUME TypeOK, NEW t \in Threads, EnterGate(t)
  PROVE  /\ pc[t] \notin Critical
         /\ GetStatusFalse(Path(t))
         /\ \A u \in Threads, p \in Paths :
              Inside(u, p)' <=> (Inside(u, p) \/ (u = t /\ p = Path(t)))
BY DEF EnterGate, TypeOK, Goto, Inside, Critical, Path

LEMMA StepCases ==
  ASSUME Next
  PROVE  \E t \in Threads : Quiet(t) \/ EnterGate(t) \/ Releases(t)
BY DEF Next, Step, Quiet, Releases

LEMMA PathType ==
  ASSUME TypeOK, NEW t \in Threads
  PROVE  Path(t) \in Paths /\ call[t].arg \in Args /\ call[t] \in Calls
BY DEF TypeOK, Path, Calls

\* Every step keeps the table and whoever is behind it in order.
LEMMA GateStep ==
  ASSUME TypeOK, GateInv, [Next]_vars
  PROVE  TableOK' /\ InsideKnown' /\ FirstUseExclusive'
<1>. DEFINE Exclusive(p) == \E t \in Threads : \A u \in Threads : Inside(u, p) <=> u = t
<1>0. /\ TableOK
      /\ \A t \in Threads, p \in Paths : Inside(t, p) => Known(p)
      /\ \A p \in Paths : Busy(p) => Exclusive(p)
  BY TableFacts DEF GateInv, InsideKnown, FirstUseExclusive, Inside
<1>. SUFFICES /\ TableOK'
              /\ \A t \in Threads, p \in Paths : Inside(t, p)' => Known(p)'
              /\ \A p \in Paths : Busy(p)' => Exclusive(p)'
  <2>1. \A t \in Threads : Path(t)' \in Paths
    <3>1. CASE UNCHANGED vars
      BY <3>1, PathType DEF vars, Path
    <3>2. CASE Next
      <4>1. call' \in [Threads -> Calls]
        BY <3>2 DEF Next, Step, TypeOK, Call, CheckMissing, CheckFound, CountRows, CountFails,
             EnterGate, GateOverflow, OpenFiles, OpenFails, CopyRows, CopyFails, ShortRelease,
             DeleteFile, RenameTmp, ReleaseEntry, CatchRelease
      <4>. QED
        BY <4>1 DEF Path, Calls
    <3>. QED
      BY <3>1, <3>2
  <2>. QED
    BY <2>1 DEF InsideKnown, FirstUseExclusive, Inside
<1>1. CASE UNCHANGED vars
  <2>1. UNCHANGED <<files, status>> /\ \A t \in Threads, p \in Paths : Inside(t, p)' <=> Inside(t, p)
    BY <1>1 DEF vars, Inside, Path
  <2>. QED
    BY <1>0, <2>1, TableUnchanged
<1>2. ASSUME NEW t \in Threads, Quiet(t)
      PROVE  /\ TableOK'
             /\ \A u \in Threads, p \in Paths : Inside(u, p)' => Known(p)'
             /\ \A p \in Paths : Busy(p)' => Exclusive(p)'
  BY <1>0, <1>2, QuietFrame, TableUnchanged
<1>3. ASSUME NEW t \in Threads, EnterGate(t)
      PROVE  /\ TableOK'
             /\ \A u \in Threads, p \in Paths : Inside(u, p)' => Known(p)'
             /\ \A p \in Paths : Busy(p)' => Exclusive(p)'
  <2>1. Path(t) \in Paths
    BY PathType
  <2>2. /\ TableOK'
        /\ \A q \in Paths : /\ Known(q)' <=> (Known(q) \/ q = Path(t))
                            /\ Busy(q)' <=> (IF q = Path(t) THEN ~Known(Path(t)) ELSE Busy(q))
    BY <1>0, <1>3, <2>1, EnterFrame, GetStatusEffect
  <2>3. \A u \in Threads, p \in Paths :
          Inside(u, p)' <=> (Inside(u, p) \/ (u = t /\ p = Path(t)))
    BY <1>3, EnterFrame
  <2>4. ASSUME NEW p \in Paths, Busy(p)'
        PROVE  Exclusive(p)'
    <3>1. CASE p = Path(t)
      <4>1. \A u \in Threads : ~Inside(u, p)
        BY <1>0, <2>2, <2>4, <3>1
      <4>. QED
        BY <2>3, <3>1, <4>1
    <3>2. CASE p # Path(t)
      BY <1>0, <2>2, <2>3, <2>4, <3>2
    <3>. QED
      BY <3>1, <3>2
  <2>. QED
    BY <1>0, <2>2, <2>3, <2>4
<1>4. ASSUME NEW t \in Threads, Releases(t)
      PROVE  /\ TableOK'
             /\ \A u \in Threads, p \in Paths : Inside(u, p)' => Known(p)'
             /\ \A p \in Paths : Busy(p)' => Exclusive(p)'
  <2>1. Path(t) \in Paths
    BY PathType
  <2>2. /\ TableOK'
        /\ \A q \in Paths : /\ Known(q)' <=> (Known(q) \/ q = Path(t))
                            /\ Busy(q)' <=> (IF q = Path(t) THEN FALSE ELSE Busy(q))
    BY <1>0, <1>4, <2>1, ReleaseFrame, SetStatusEffect
  <2>3. ASSUME NEW p \in Paths, Busy(p)'
        PROVE  Exclusive(p)'
    <3>1. p # Path(t) /\ Busy(p)
      BY <2>2, <2>3
    <3>2. \A u \in Threads : Inside(u, p)' <=> Inside(u, p)
      BY <1>4, <3>1, ReleaseFrame DEF Inside
    <3>. QED
      BY <1>0, <3>1, <3>2
  <2>. QED
    BY <1>0, <1>4, <2>2, <2>3, ReleaseFrame
<1>. QED
  BY <1>1, <1>2, <1>3, <1>4, StepCases

\* The finished copy of a thread that has come to the replacement.
LEMMA CopyType ==
  ASSUME TypeOK, CopyComplete, NEW t \in Threads, pc[t] \in {"delete", "rename"}
  PROVE  Tmp(t) \in Seq(Rows) /\ Tmp(t) # Absent
<1>1. rows[t] \in Seq(Rows) /\ call[t].arg \in Int
  BY TableAssumption DEF TypeOK, Calls
<1>2. Without(rows[t], call[t].arg) \in Seq(Rows)
  BY <1>1, WithoutType
<1>. QED
  BY <1>2, DiskAssumption DEF CopyComplete

\* Every step keeps the types.
LEMMA TypeStep ==
  ASSUME TypeOK, GateInv, CopyComplete, [Next]_vars
  PROVE  TypeOK'
<1>. USE DEF TypeOK
<1>1. TypeOK /\ CopyComplete /\ TableTypeOK'
  BY GateStep DEF TableOK
<1>. SUFFICES /\ fs' \in [Paths -> Seq(Rows) \cup {Absent}]
              /\ tmp' \in [Threads \X Paths -> Seq(Rows) \cup {Absent}]
              /\ pc' \in [Threads -> Labels]
              /\ call' \in [Threads -> Calls]
              /\ rows' \in [Threads -> Seq(Rows)]
              /\ index' \in [Threads -> Nat]
              /\ reply' \in [Threads -> [tag : {"none", "exception", "text", "count"}, n : Int]]
              /\ versions' \in [Paths -> SUBSET Seq(Rows)]
  BY <1>1 DEF TableTypeOK
<1>2. CASE UNCHANGED vars
  BY <1>1, <1>2 DEF vars
<1>3. CASE Next
  <2>1. PICK t \in Threads : Call(t) \/ Step(t)
    BY <1>3 DEF Next
  <2>2. /\ Path(t) \in Paths
        /\ call[t].arg \in Int
        /\ rows[t] \in Seq(Rows)
        /\ index[t] \in Nat
    BY <1>1, PathType, TableAssumption
  <2>. USE <1>1, <2>2 DEF Goto, Return, SetTmp, disk, table, locals, Labels
  <2>3. CASE Call(t)
    BY <2>3 DEF Call, NoReply
  <2>4. CASE CheckMissing(t)
    BY <2>4 DEF CheckMissing, Exception
  <2>5. CASE CheckFound(t)
    BY <2>5 DEF CheckFound
  <2>6. CASE CountRows(t)
    <3>1. fs[Path(t)] \in Seq(Rows)
      BY <2>6 DEF CountRows
    <3>2. Wordy(fs[Path(t)], call[t].arg) \in Int
      BY <3>1, WordyType
    <3>. QED
      BY <2>6, <3>2 DEF CountRows, Count
  <2>7. CASE CountFails(t)
    <3>. HIDE DEF Return
    <3>1. PICK n \in Int : Return(t, "count", Count(n))
      <4>1. CASE fs[Path(t)] = Absent
        <5>1. Return(t, "count", Count(0))
          BY <2>7, <4>1 DEF CountFails
        <5>. QED
          BY <5>1
      <4>2. CASE fs[Path(t)] # Absent
        <5>1. \A k \in 0..Len(fs[Path(t)]) : SubSeq(fs[Path(t)], 1, k) \in Seq(Rows)
          BY <4>2, PrefixType
        <5>2. PICK s \in Seq(Rows) : Return(t, "count", Count(Wordy(s, call[t].arg)))
          BY <2>7, <4>2, <5>1 DEF CountFails
        <5>3. Wordy(s, call[t].arg) \in Int
          BY WordyType
        <5>. QED
          BY <5>2, <5>3
      <4>. QED
        BY <4>1, <4>2
    <3>. QED
      BY <2>7, <3>1 DEF CountFails, Count, Return
  <2>8. CASE EnterGate(t)
    BY <2>8 DEF EnterGate
  <2>9. CASE GateOverflow(t)
    BY <2>9 DEF GateOverflow, Exception
  <2>10. CASE OpenFiles(t)
    <3>1. fs[Path(t)] \in Seq(Rows) /\ <<>> \in Seq(Rows)
      BY <2>10 DEF OpenFiles
    <3>. QED
      BY <2>10, <3>1 DEF OpenFiles
  <2>11. CASE OpenFails(t)
    BY <2>11 DEF OpenFails
  <2>12. CASE CopyRows(t)
    <3>1. Without(rows[t], call[t].arg) \in Seq(Rows)
      BY WithoutType
    <3>2. PICK l \in {"short", "delete"}, c \in Seq(Rows) \cup {Absent} :
            Goto(t, "copy", l) /\ SetTmp(t, c)
      BY <2>12, <3>1 DEF CopyRows
    <3>3. tmp' \in [Threads \X Paths -> Seq(Rows) \cup {Absent}]
      BY <3>2
    <3>4. pc' \in [Threads -> Labels] /\ index' \in [Threads -> Nat]
      BY <2>12, <3>2 DEF CopyRows
    <3>. QED
      BY <2>12, <3>3, <3>4 DEF CopyRows
  <2>13. CASE CopyFails(t)
    <3>1. PICK k \in 0..Len(rows[t]) :
            /\ SetTmp(t, Without(SubSeq(rows[t], 1, k), call[t].arg))
            /\ index' = [index EXCEPT ![t] = k]
      BY <2>13 DEF CopyFails
    <3>2. Without(SubSeq(rows[t], 1, k), call[t].arg) \in Seq(Rows)
      <4>1. SubSeq(rows[t], 1, k) \in Seq(Rows)
        BY PrefixType
      <4>. QED
        BY <4>1, WithoutType
    <3>3. tmp' \in [Threads \X Paths -> Seq(Rows) \cup {Absent}]
      BY <3>1, <3>2
    <3>4. index' \in [Threads -> Nat]
      BY <3>1
    <3>. QED
      BY <2>13, <3>3, <3>4 DEF CopyFails
  <2>14. CASE ShortRelease(t)
    BY <2>14 DEF ShortRelease
  <2>15. CASE DeleteFile(t)
    BY <2>15 DEF DeleteFile
  <2>16. CASE RenameTmp(t)
    <3>1. Tmp(t) \in Seq(Rows)
      BY <2>16, CopyType DEF RenameTmp
    <3>. QED
      BY <2>16, <3>1 DEF RenameTmp
  <2>17. CASE ReleaseEntry(t)
    BY <2>17 DEF ReleaseEntry, Text
  <2>18. CASE CatchRelease(t)
    BY <2>18 DEF CatchRelease, Text
  <2>. QED
    BY <2>1, <2>3, <2>4, <2>5, <2>6, <2>7, <2>8, <2>9, <2>10, <2>11, <2>12, <2>13, <2>14,
       <2>15, <2>16, <2>17, <2>18 DEF Step
<1>. QED
  BY <1>2, <1>3

-------------------------------------------------------------------------------
(***************************************************************************)
(* The files.                                                              *)
(***************************************************************************)
\* No step but the last two of the copying enters copy, delete or rename, and
\* a thread that is there keeps its file, its rows and its copy.
LEMMA OthersKeepCopies ==
  ASSUME TypeOK, NEW t \in Threads, Call(t) \/ Step(t), NEW u \in Threads \ {t}
  PROVE  /\ pc'[u] = pc[u] /\ rows'[u] = rows[u] /\ call'[u] = call[u]
         /\ \A p \in Paths : tmp'[u, p] = tmp[u, p]
<1>. USE DEF TypeOK, Goto, Return, SetTmp, disk, table, locals, Path
<1>1. /\ \E l : pc' = [pc EXCEPT ![t] = l]
      /\ \E r : rows' = [rows EXCEPT ![t] = r] \/ rows' = rows
      /\ \E c : call' = [call EXCEPT ![t] = c] \/ call' = call
      /\ \E c : tmp' = [tmp EXCEPT ![<<t, call[t].path>>] = c] \/ tmp' = tmp
  <2>1. CASE Call(t)
    BY <2>1 DEF Call
  <2>2. CASE CheckMissing(t) \/ CheckFound(t)
    BY <2>2 DEF CheckMissing, CheckFound
  <2>3. CASE CountRows(t)
    BY <2>3 DEF CountRows
  <2>4. CASE CountFails(t)
    BY <2>4 DEF CountFails
  <2>5. CASE EnterGate(t) \/ GateOverflow(t)
    BY <2>5 DEF EnterGate, GateOverflow
  <2>6. CASE OpenFiles(t) \/ OpenFails(t)
    BY <2>6 DEF OpenFiles, OpenFails
  <2>7. CASE CopyRows(t)
    BY <2>7 DEF CopyRows
  <2>8. CASE CopyFails(t)
    BY <2>8 DEF CopyFails
  <2>9. CASE ShortRelease(t) \/ DeleteFile(t) \/ RenameTmp(t)
    BY <2>9 DEF ShortRelease, DeleteFile, RenameTmp
  <2>10. CASE ReleaseEntry(t) \/ CatchRelease(t)
    BY <2>10 DEF ReleaseEntry, CatchRelease
  <2>. QED
    BY <2>1, <2>2, <2>3, <2>4, <2>5, <2>6, <2>7, <2>8, <2>9, <2>10 DEF Step
<1>. QED
  BY <1>1

\* The disk changes in two steps only.
Replaces(t) == DeleteFile(t) \/ RenameTmp(t)

LEMMA DiskFrame ==
  ASSUME TypeOK, NEW t \in Threads, Call(t) \/ Step(t), ~Replaces(t)
  PROVE  /\ UNCHANGED <<fs, versions>>
         /\ pc[t] # "rename" /\ pc'[t] # "rename"
BY DEF TypeOK, Replaces, Call, Step, CheckMissing, CheckFound, CountRows, CountFails,
       EnterGate, GateOverflow, OpenFiles, OpenFails, CopyRows, CopyFails, ShortRelease,
       ReleaseEntry, CatchRelease, Goto, Return, disk

\* Versions are only ever added.
LEMMA VersionsGrow ==
  ASSUME TypeOK, NEW t \in Threads, Call(t) \/ Step(t), NEW p \in Paths
  PROVE  versions[p] \subseteq versions'[p]
<1>1. CASE RenameTmp(t)
  BY <1>1, PathType DEF RenameTmp, TypeOK
<1>2. CASE DeleteFile(t)
  BY <1>2 DEF DeleteFile
<1>3. CASE ~Replaces(t)
  BY <1>3, DiskFrame
<1>. QED
  BY <1>1, <1>2, <1>3 DEF Replaces

LEMMA CopyStep ==
  ASSUME TypeOK, CopyComplete, OneRowPerVersion, NEW t \in Threads, Call(t) \/ Step(t)
  PROVE  CopyComplete'
<1>1. TypeOK /\ CopyComplete /\ OneRowPerVersion
  OBVIOUS
<1>. SUFFICES ASSUME NEW u \in Threads
              PROVE  /\ pc'[u] \in {"copy", "delete", "rename"} =>
                          rows'[u] \in versions'[call'[u].path]
                     /\ pc'[u] \in {"delete", "rename"} =>
                          tmp'[u, call'[u].path] = Without(rows'[u], call'[u].arg)
  BY DEF CopyComplete, Tmp, Path
<1>2. CASE u # t
  <2>1. /\ pc'[u] = pc[u] /\ rows'[u] = rows[u] /\ call'[u] = call[u]
        /\ tmp'[u, Path(u)] = tmp[u, Path(u)]
    BY <1>1, <1>2, OthersKeepCopies, PathType
  <2>2. versions[Path(u)] \subseteq versions'[Path(u)]
    BY <1>1, VersionsGrow, PathType
  <2>. QED
    BY <1>1, <2>1, <2>2 DEF CopyComplete, Tmp, Path
<1>3. CASE u = t
  <2>. USE <1>3 DEF TypeOK, Goto
  <2>1. CASE OpenFiles(t)
    <3>1. fs[Path(t)] \in versions[Path(t)]
      BY <1>1, <2>1, PathType DEF OneRowPerVersion, OpenFiles
    <3>. QED
      BY <1>1, <2>1, <3>1 DEF OpenFiles, Path
  <2>2. CASE CopyRows(t)
    <3>. DEFINE short == Len(rows[t]) < call[t].arg
    <3>1. /\ pc[t] = "copy" /\ pc'[t] = IF short THEN "short" ELSE "delete"
          /\ SetTmp(t, IF short THEN Absent ELSE Without(rows[t], call[t].arg))
          /\ UNCHANGED <<rows, call, versions>>
      BY <1>1, <2>2 DEF CopyRows
    <3>2. tmp'[t, Path(t)] = IF short THEN Absent ELSE Without(rows[t], call[t].arg)
      BY <1>1, <3>1, PathType DEF SetTmp
    <3>. QED
      BY <1>1, <3>1, <3>2 DEF CopyComplete, Path
  <2>3. CASE DeleteFile(t)
    BY <1>1, <2>3 DEF DeleteFile, CopyComplete, Tmp, Path, table, locals
  <2>4. CASE ~OpenFiles(t) /\ ~CopyRows(t) /\ ~DeleteFile(t)
    <3>1. pc'[t] \notin {"copy", "delete", "rename"}
      BY <1>1, <2>4 DEF Call, Step, CheckMissing, CheckFound, CountRows, CountFails, EnterGate,
           GateOverflow, OpenFails, CopyFails, ShortRelease, RenameTmp, ReleaseEntry,
           CatchRelease, Return
    <3>. QED
      BY <3>1
  <2>. QED
    BY <2>1, <2>2, <2>3, <2>4
<1>. QED
  BY <1>2, <1>3

LEMMA MissingStep ==
  ASSUME IInv, NEW t \in Threads, Call(t) \/ Step(t)
  PROVE  MissingFileHasCopy'
<1>1. TypeOK /\ CopyComplete /\ MissingFileHasCopy
  BY DEF IInv, FileInv
<1>. SUFFICES ASSUME NEW p \in Paths, fs'[p] = Absent, Disk[p] # Absent
              PROVE  \E u \in Threads :
                       pc'[u] = "rename" /\ call'[u].path = p /\ tmp'[u, p] \in Seq(Rows)
  BY DEF MissingFileHasCopy, Path
<1>2. CASE DeleteFile(t) /\ p = Path(t)
  <2>1. Tmp(t) \in Seq(Rows)
    BY <1>1, <1>2, CopyType DEF DeleteFile, Goto
  <2>. QED
    BY <1>1, <1>2, <2>1 DEF DeleteFile, Goto, Tmp, Path, TypeOK, locals
<1>3. CASE ~(DeleteFile(t) /\ p = Path(t))
  <2>1. fs[p] = Absent /\ ~(pc[t] = "rename" /\ Path(t) = p)
    <3>1. CASE RenameTmp(t)
      <4>1. Tmp(t) # Absent
        BY <1>1, <3>1, CopyType DEF RenameTmp, Goto
      <4>. QED
        BY <1>1, <3>1, <4>1, PathType DEF RenameTmp, TypeOK
    <3>2. CASE DeleteFile(t)
      BY <1>1, <1>3, <3>2, PathType DEF DeleteFile, Goto, TypeOK
    <3>3. CASE ~Replaces(t)
      BY <1>1, <3>3, DiskFrame
    <3>. QED
      BY <3>1, <3>2, <3>3 DEF Replaces
  <2>2. PICK u \in Threads : pc[u] = "rename" /\ Path(u) = p /\ tmp[u, p] \in Seq(Rows)
    BY <1>1, <2>1 DEF MissingFileHasCopy
  <2>3. u # t
    BY <2>1, <2>2
  <2>4. pc'[u] = pc[u] /\ call'[u] = call[u] /\ tmp'[u, p] = tmp[u, p]
    BY <1>1, <2>3, OthersKeepCopies
  <2>5. pc'[u] = "rename" /\ call'[u].path = p /\ tmp'[u, p] \in Seq(Rows)
    BY <2>2, <2>4 DEF Path
  <2>. QED
    BY <2>5
<1>. QED
  BY <1>2, <1>3

LEMMA VersionStep ==
  ASSUME TypeOK, CopyComplete, OneRowPerVersion, NEW t \in Threads, Call(t) \/ Step(t)
  PROVE  OneRowPerVersion'
<1>1. TypeOK /\ CopyComplete /\ OneRowPerVersion
  OBVIOUS
<1>2. CASE RenameTmp(t)
  <2>. DEFINE p == Path(t)  new == Without(rows[t], call[t].arg)
  <2>1. /\ p \in Paths /\ call[t].arg \in Args /\ rows[t] \in versions[p] /\ Tmp(t) = new
    BY <1>1, <1>2, PathType DEF RenameTmp, Goto, CopyComplete
  <2>2. /\ fs' = [fs EXCEPT ![p] = new]
        /\ versions' = [versions EXCEPT ![p] = @ \cup {new}]
    BY <1>2, <2>1 DEF RenameTmp
  <2>. HIDE DEF p, new
  <2>3. /\ fs'[p] = new /\ versions'[p] = versions[p] \cup {new}
        /\ \A q \in Paths \ {p} : fs'[q] = fs[q] /\ versions'[q] = versions[q]
    BY <1>1, <2>1, <2>2 DEF TypeOK
  <2>4. ASSUME NEW v \in versions'[p]
        PROVE  v = Disk[p] \/ \E u \in versions'[p] \ {v}, k \in Args : v = Without(u, k)
    <3>1. CASE v \in versions[p]
      BY <1>1, <2>1, <2>3, <3>1 DEF OneRowPerVersion
    <3>2. CASE v = new /\ v \notin versions[p]
      BY <2>1, <2>3, <3>2 DEF new
    <3>. QED
      BY <2>3, <2>4, <3>1, <3>2
  <2>. QED
    BY <1>1, <2>1, <2>3, <2>4 DEF OneRowPerVersion
<1>3. CASE DeleteFile(t)
  BY <1>1, <1>3, PathType DEF DeleteFile, OneRowPerVersion, TypeOK
<1>4. CASE ~Replaces(t)
  BY <1>1, <1>4, DiskFrame DEF OneRowPerVersion
<1>. QED
  BY <1>2, <1>3, <1>4 DEF Replaces

-------------------------------------------------------------------------------
(***************************************************************************)
(* The theorems.                                                           *)
(***************************************************************************)
LEMMA InitIInv == Init => IInv
<1>. SUFFICES ASSUME Init PROVE IInv
  OBVIOUS
<1>1. TypeOK
  <2>1. call \in [Threads -> Calls]
    BY DEF Init, Calls
  <2>. QED
    BY <2>1, DiskAssumption DEF Init, TypeOK, Labels, NoReply
<1>2. files = <<>> /\ status = <<>> /\ \A t \in Threads : pc[t] = "idle"
  BY DEF Init
<1>3. GateInv
  BY <1>2, TableAssumption DEF GateInv, OneEntryPerFile, InsideKnown, FirstUseExclusive,
       Critical, Known, Busy, IsInjective
<1>4. FileInv
  BY <1>2, DiskAssumption DEF Init, FileInv, CopyComplete, MissingFileHasCopy, OneRowPerVersion
<1>. QED
  BY <1>1, <1>3, <1>4 DEF IInv

LEMMA NextIInv == IInv /\ [Next]_vars => IInv'
<1>. SUFFICES ASSUME IInv, [Next]_vars PROVE IInv'
  OBVIOUS
<1>1. TypeOK'
  BY TypeStep DEF IInv, FileInv
<1>2. GateInv'
  BY GateStep DEF IInv, GateInv, TableOK
<1>3. FileInv'
  <2>1. CASE UNCHANGED vars
    BY <2>1 DEF IInv, FileInv, CopyComplete, MissingFileHasCopy, OneRowPerVersion, Tmp, Path,
         vars
  <2>2. ASSUME NEW t \in Threads, Call(t) \/ Step(t)
        PROVE  FileInv'
    BY <2>2, CopyStep, MissingStep, VersionStep DEF FileInv, IInv
  <2>. QED
    BY <2>1, <2>2 DEF Next
<1>. QED
  BY <1>1, <1>2, <1>3 DEF IInv

\* Every reachable state satisfies the inductive invariant.
THEOREM Invariance == Spec => []IInv
<1>1. Init => IInv
  BY InitIInv
<1>2. IInv /\ [Next]_vars => IInv'
  BY NextIInv
<1>. QED
  BY <1>1, <1>2, PTL DEF Spec

\* The variables of the service keep their types: what the copying writes, what
\* the replies say, what the table holds.
THEOREM TypeCorrect == Spec => []TypeOK
<1>1. IInv => TypeOK
  BY DEF IInv
<1>. QED
  BY <1>1, Invariance, PTL

\* getStatusFile and setStatusFile give every file one entry and never write
\* behind the end of the arrays.
THEOREM TableCorrect == Spec => []OneEntryPerFile
<1>1. IInv => OneEntryPerFile
  BY DEF IInv, GateInv
<1>. QED
  BY <1>1, Invariance, PTL

\* While the table has a file as taken, exactly one thread is in elimina_riga
\* with it, however many threads and files there are.
THEOREM FirstUseIsExclusive == Spec => []FirstUseExclusive
<1>1. IInv => FirstUseExclusive
  BY DEF IInv, GateInv
<1>. QED
  BY <1>1, Invariance, PTL

\* A file that is missing between file.delete and renameTo has a finished copy
\* in the hands of a thread that renames it next.
THEOREM MissingFilesHaveCopies == Spec => []MissingFileHasCopy
<1>1. IInv => MissingFileHasCopy
  BY DEF IInv, FileInv
<1>. QED
  BY <1>1, Invariance, PTL

\* Whatever threads elimina_riga lets in together, each version of a file is an
\* earlier one without one row.
THEOREM VersionsLoseOneRow == Spec => []OneRowPerVersion
<1>1. IInv => OneRowPerVersion
  BY DEF IInv, FileInv
<1>. QED
  BY <1>1, Invariance, PTL

-------------------------------------------------------------------------------
(***************************************************************************)
(* The table implements the gate.                                          *)
(***************************************************************************)
gateOf == [p \in Paths |-> IF Known(p) THEN IF Busy(p) THEN "first" ELSE "open"
                                      ELSE "untouched"]

LEMMA InitGate == Init => Gate!GateInit
BY DEF Init, Gate!GateInit, Known

LEMMA StepGate == IInv /\ [Next]_vars => [Gate!GateNext]_gateOf
<1>. SUFFICES ASSUME IInv, [Next]_vars PROVE Gate!GateNext \/ gateOf' = gateOf
  OBVIOUS
<1>1. TypeOK /\ GateInv /\ TableOK
  BY TableFacts DEF IInv
<1>2. ASSUME UNCHANGED <<files, status>>
      PROVE  gateOf' = gateOf
  BY <1>2, TableUnchanged DEF gateOf
<1>3. CASE UNCHANGED vars
  BY <1>2, <1>3 DEF vars
<1>4. ASSUME NEW t \in Threads, Quiet(t)
      PROVE  gateOf' = gateOf
  BY <1>1, <1>2, <1>4, QuietFrame
<1>5. ASSUME NEW t \in Threads, EnterGate(t)
      PROVE  Gate!GateNext \/ gateOf' = gateOf
  <2>1. Path(t) \in Paths
    BY <1>1, PathType
  <2>2. /\ ~Busy(Path(t))
        /\ \A q \in Paths : /\ Known(q)' <=> (Known(q) \/ q = Path(t))
                            /\ Busy(q)' <=> (IF q = Path(t) THEN ~Known(Path(t)) ELSE Busy(q))
    BY <1>1, <1>5, <2>1, EnterFrame, GetStatusEffect
  <2>3. CASE Known(Path(t))
    BY <2>1, <2>2, <2>3 DEF gateOf
  <2>4. CASE ~Known(Path(t))
    <3>1. gateOf[Path(t)] = "untouched"
      BY <2>1, <2>4 DEF gateOf
    <3>2. gateOf' = [gateOf EXCEPT ![Path(t)] = "first"]
      BY <2>1, <2>2, <2>4 DEF gateOf
    <3>. QED
      BY <2>1, <3>1, <3>2 DEF Gate!GateNext, Gate!Admit, gateOf
  <2>. QED
    BY <2>3, <2>4
<1>6. ASSUME NEW t \in Threads, Releases(t)
      PROVE  Gate!GateNext \/ gateOf' = gateOf
  <2>1. Path(t) \in Paths
    BY <1>1, PathType
  <2>2. Known(Path(t))
    BY <1>1, <1>6, ReleaseFrame DEF GateInv, InsideKnown
  <2>3. \A q \in Paths : /\ Known(q)' <=> (Known(q) \/ q = Path(t))
                         /\ Busy(q)' <=> (IF q = Path(t) THEN FALSE ELSE Busy(q))
    BY <1>1, <1>6, <2>1, ReleaseFrame, SetStatusEffect
  <2>4. CASE ~Busy(Path(t))
    BY <2>1, <2>2, <2>3, <2>4 DEF gateOf
  <2>5. CASE Busy(Path(t))
    <3>1. gateOf[Path(t)] = "first"
      BY <2>1, <2>2, <2>5 DEF gateOf
    <3>2. gateOf' = [gateOf EXCEPT ![Path(t)] = "open"]
      BY <2>1, <2>2, <2>3 DEF gateOf
    <3>. QED
      BY <2>1, <3>1, <3>2 DEF Gate!GateNext, Gate!Unlock, gateOf
  <2>. QED
    BY <2>4, <2>5
<1>. QED
  BY <1>3, <1>4, <1>5, <1>6, StepCases

\* The table is a one-shot gate per file: the first thread goes in alone, and
\* once it has released the file nothing keeps anybody out any more.
THEOREM TableIsOneShotGate == Spec => ImplementsGate
<1>1. Init => Gate!GateInit
  BY InitGate
<1>2. IInv /\ [Next]_vars => [Gate!GateNext]_gateOf
  BY StepGate
<1>. QED
  BY <1>1, <1>2, Invariance, PTL DEF Spec, ImplementsGate, Gate!GateSpec, gateOf

-------------------------------------------------------------------------------
(***************************************************************************)
(* Over stops and starts of the machine, in ServerImplCrash: the inductive *)
(* invariant.  MissingFileHasCopy does not survive a crash:                *)
(* a file that is missing is either about to be put back, or on nobody's   *)
(* hands any more and kept in a temporary file that nobody opens again.    *)
(***************************************************************************)
\* Some thread renames a copy to p next.
Held(p) == \E t \in Threads : pc[t] = "rename" /\ Path(t) = p

\* Nobody works on p with a copy of it, and a finished copy is on the disk.
Stored(p) ==
  /\ \A t \in Threads : pc[t] \in {"copy", "delete", "rename"} => Path(t) # p
  /\ \E t \in Threads, v \in versions[p], k \in Args : tmp[t, p] = Without(v, k)

MissingKept == \A p \in Paths : fs[p] = Absent /\ Disk[p] # Absent => Held(p) \/ Stored(p)

CrashInv == TypeOK /\ GateInv /\ CopyComplete /\ OneRowPerVersion /\ MissingKept

LEMMA KeptSurvive == CrashInv => RowsSurvive
<1>. SUFFICES ASSUME CrashInv, NEW p \in Paths, fs[p] = Absent, Disk[p] # Absent
              PROVE  \E t \in Threads, v \in versions[p], k \in Args : tmp[t, p] = Without(v, k)
  BY DEF RowsSurvive
<1>1. CASE Stored(p)
  BY <1>1 DEF Stored
<1>2. CASE Held(p)
  <2>1. PICK t \in Threads : pc[t] = "rename" /\ Path(t) = p
    BY <1>2 DEF Held
  <2>2. rows[t] \in versions[p] /\ tmp[t, p] = Without(rows[t], call[t].arg)
    BY <2>1 DEF CrashInv, CopyComplete, Tmp
  <2>3. call[t].arg \in Args
    BY PathType DEF CrashInv
  <2>. QED
    BY <2>2, <2>3
<1>. QED
  BY <1>1, <1>2 DEF CrashInv, MissingKept

-------------------------------------------------------------------------------
(***************************************************************************)
(* The steps of the threads.                                               *)
(***************************************************************************)
\* A thread writes its temporary file of a path that is missing only if it had
\* the file open before, and it does not come to a missing file.
LEMMA MissingFrame ==
  ASSUME TypeOK, NEW t \in Threads, Call(t) \/ Step(t), NEW p \in Paths, fs[p] = Absent,
         pc[t] \in {"copy", "delete", "rename"} => Path(t) # p
  PROVE  /\ pc'[t] \in {"copy", "delete", "rename"} => Path(t)' # p
         /\ tmp'[t, p] = tmp[t, p]
<1>. USE PathType DEF TypeOK, Goto, Path, disk
<1>1. CASE OpenFiles(t)
  BY <1>1 DEF OpenFiles, SetTmp
<1>2. CASE CopyRows(t)
  BY <1>2 DEF CopyRows, SetTmp
<1>3. CASE CopyFails(t)
  BY <1>3 DEF CopyFails, SetTmp
<1>4. CASE RenameTmp(t)
  BY <1>4 DEF RenameTmp, SetTmp
<1>5. CASE DeleteFile(t)
  BY <1>5 DEF DeleteFile
<1>6. CASE ~OpenFiles(t) /\ ~CopyRows(t) /\ ~CopyFails(t) /\ ~RenameTmp(t) /\ ~DeleteFile(t)
  <2>1. tmp' = tmp /\ pc'[t] \notin {"copy", "delete", "rename"}
    BY <1>6 DEF Call, Step, CheckMissing, CheckFound, CountRows, CountFails, EnterGate,
         GateOverflow, OpenFails, ShortRelease, ReleaseEntry, CatchRelease, Return
  <2>. QED
    BY <2>1
<1>. QED
  BY <1>1, <1>2, <1>3, <1>4, <1>5, <1>6

LEMMA KeptStep ==
  ASSUME CrashInv, NEW t \in Threads, Call(t) \/ Step(t)
  PROVE  MissingKept'
<1>1. TypeOK /\ CopyComplete /\ MissingKept
  BY DEF CrashInv
<1>. SUFFICES ASSUME NEW p \in Paths, fs'[p] = Absent, Disk[p] # Absent
              PROVE  Held(p)' \/ Stored(p)'
  BY DEF MissingKept
<1>2. CASE DeleteFile(t) /\ p = Path(t)
  <2>1. pc'[t] = "rename" /\ Path(t)' = p
    BY <1>1, <1>2 DEF DeleteFile, Goto, Path, TypeOK
  <2>. QED
    BY <2>1 DEF Held
<1>3. CASE ~(DeleteFile(t) /\ p = Path(t))
  <2>1. fs[p] = Absent /\ ~(pc[t] = "rename" /\ Path(t) = p)
    <3>1. CASE RenameTmp(t)
      <4>1. Tmp(t) # Absent
        BY <1>1, <3>1, CopyType DEF RenameTmp, Goto
      <4>. QED
        BY <1>1, <3>1, <4>1, PathType DEF RenameTmp, TypeOK
    <3>2. CASE DeleteFile(t)
      BY <1>1, <1>3, <3>2, PathType DEF DeleteFile, Goto, TypeOK
    <3>3. CASE ~Replaces(t)
      BY <1>1, <3>3, DiskFrame
    <3>. QED
      BY <3>1, <3>2, <3>3 DEF Replaces
  <2>2. \A u \in Threads \ {t} :
          pc'[u] = pc[u] /\ Path(u)' = Path(u) /\ tmp'[u, p] = tmp[u, p]
    BY <1>1, OthersKeepCopies DEF Path
  <2>3. CASE Held(p)
    BY <2>1, <2>2, <2>3 DEF Held
  <2>4. CASE Stored(p)
    <3>1. /\ pc'[t] \in {"copy", "delete", "rename"} => Path(t)' # p
          /\ tmp'[t, p] = tmp[t, p]
      BY <1>1, <2>1, <2>4, MissingFrame DEF Stored
    <3>2. versions[p] \subseteq versions'[p]
      BY <1>1, VersionsGrow
    <3>3. \A u \in Threads : pc'[u] \in {"copy", "delete", "rename"} => Path(u)' # p
      BY <2>2, <2>4, <3>1 DEF Stored
    <3>4. \E u \in Threads, v \in versions'[p], k \in Args : tmp'[u, p] = Without(v, k)
      <4>1. PICK u \in Threads, v \in versions[p], k \in Args : tmp[u, p] = Without(v, k)
        BY <2>4 DEF Stored
      <4>2. tmp'[u, p] = tmp[u, p]
        BY <2>2, <3>1
      <4>. QED
        BY <3>2, <4>1, <4>2
    <3>. QED
      BY <3>3, <3>4 DEF Stored
  <2>. QED
    BY <1>1, <2>1, <2>3, <2>4 DEF MissingKept
<1>. QED
  BY <1>2, <1>3

-------------------------------------------------------------------------------
(***************************************************************************)
(* The crash.                                                              *)
(***************************************************************************)
\* What a stopped thread leaves of its copy is rows of the file.
LEMMA LeftBehindType ==
  ASSUME TypeOK, NEW kept, \A t \in Threads : kept[t] \in 0..Len(rows[t])
  PROVE  LeftBehind(kept) \in [Threads \X Paths -> Seq(Rows) \cup {Absent}]
<1>1. ASSUME NEW tp \in Threads \X Paths
      PROVE  Without(SubSeq(rows[tp[1]], 1, kept[tp[1]]), call[tp[1]].arg) \in Seq(Rows)
  <2>1. rows[tp[1]] \in Seq(Rows) /\ call[tp[1]].arg \in Int
    BY <1>1, TableAssumption DEF TypeOK, Calls
  <2>2. SubSeq(rows[tp[1]], 1, kept[tp[1]]) \in Seq(Rows)
    BY <2>1, PrefixType
  <2>. QED
    BY <2>1, <2>2, WithoutType
<1>2. \A tp \in Threads \X Paths : tmp[tp] \in Seq(Rows) \cup {Absent}
  BY DEF TypeOK
<1>. QED
  BY <1>1, <1>2 DEF LeftBehind

LEMMA CrashStep ==
  ASSUME CrashInv, Crash
  PROVE  CrashInv'
<1>1. /\ files' = <<>> /\ status' = <<>>
      /\ pc' = [t \in Threads |-> "idle"]
      /\ rows' = [t \in Threads |-> <<>>]
      /\ index' = [t \in Threads |-> 0]
      /\ reply' = [t \in Threads |-> NoReply]
      /\ UNCHANGED <<fs, versions, call>>
  BY DEF Crash
<1>2. PICK kept : /\ \A t \in Threads : kept[t] \in 0..Len(rows[t])
                  /\ tmp' = LeftBehind(kept)
  <2>. DEFINE most == Max({Len(rows[t]) : t \in Threads})
  <2>1. PICK kept \in [Threads -> 0..most] :
          /\ \A t \in Threads : kept[t] <= Len(rows[t])
          /\ tmp' = LeftBehind(kept)
    BY DEF Crash
  <2>. HIDE DEF most
  <2>2. \A t \in Threads : kept[t] \in 0..most
    BY <2>1
  <2>3. \A t \in Threads : kept[t] \in 0..Len(rows[t])
    BY <2>1, <2>2 DEF CrashInv, TypeOK
  <2>. QED
    BY <2>1, <2>3
<1>3. TypeOK'
  <2>1. tmp' \in [Threads \X Paths -> Seq(Rows) \cup {Absent}]
    BY <1>2, LeftBehindType DEF CrashInv
  <2>2. files' \in Seq(Paths) /\ status' \in Seq(BOOLEAN) /\ Len(status') = Len(files')
    BY <1>1
  <2>3. /\ pc' \in [Threads -> Labels] /\ rows' \in [Threads -> Seq(Rows)]
        /\ index' \in [Threads -> Nat]
        /\ reply' \in [Threads -> [tag : {"none", "exception", "text", "count"}, n : Int]]
    BY <1>1 DEF Labels, NoReply
  <2>4. /\ fs' \in [Paths -> Seq(Rows) \cup {Absent}] /\ call' \in [Threads -> Calls]
        /\ versions' \in [Paths -> SUBSET Seq(Rows)]
    BY <1>1 DEF CrashInv, TypeOK
  <2>. QED
    BY <2>1, <2>2, <2>3, <2>4 DEF TypeOK
<1>4. GateInv'
  <2>1. \A t \in Threads : pc'[t] = "idle"
    BY <1>1
  <2>. QED
    BY <1>1, <2>1, TableAssumption DEF GateInv, OneEntryPerFile, InsideKnown, FirstUseExclusive,
         Inside, Critical, Known, Busy, IsInjective
<1>5. CopyComplete'
  BY <1>1 DEF CopyComplete
<1>6. OneRowPerVersion'
  BY <1>1 DEF CrashInv, OneRowPerVersion
<1>7. MissingKept'
  <2>. SUFFICES ASSUME NEW p \in Paths, fs[p] = Absent, Disk[p] # Absent
                PROVE  Stored(p)'
    BY <1>1 DEF MissingKept
  <2>1. PICK t \in Threads, v \in versions[p], k \in Args :
          tmp[t, p] = Without(v, k) /\ ~(pc[t] = "copy" /\ Path(t) = p)
    <3>1. CASE Held(p)
      <4>1. PICK t \in Threads : pc[t] = "rename" /\ Path(t) = p
        BY <3>1 DEF Held
      <4>2. rows[t] \in versions[p] /\ tmp[t, p] = Without(rows[t], call[t].arg)
        BY <4>1 DEF CrashInv, CopyComplete, Tmp
      <4>3. call[t].arg \in Args
        BY PathType DEF CrashInv
      <4>. QED
        BY <4>1, <4>2, <4>3
    <3>2. CASE Stored(p)
      BY <3>2 DEF Stored
    <3>. QED
      BY <3>1, <3>2 DEF CrashInv, MissingKept
  <2>2. tmp'[t, p] = tmp[t, p]
    BY <1>2, <2>1 DEF LeftBehind
  <2>3. \A u \in Threads : pc'[u] = "idle"
    BY <1>1
  <2>. QED
    BY <1>1, <2>1, <2>2, <2>3 DEF Stored
<1>. QED
  BY <1>3, <1>4, <1>5, <1>6, <1>7 DEF CrashInv

-------------------------------------------------------------------------------
(***************************************************************************)
(* The theorems.                                                           *)
(***************************************************************************)
LEMMA InitCrashInv == Init => CrashInv
<1>1. Init => TypeOK /\ GateInv /\ CopyComplete /\ OneRowPerVersion
  BY InitIInv DEF IInv, FileInv
<1>2. Init => MissingKept
  BY DEF Init, MissingKept
<1>. QED
  BY <1>1, <1>2 DEF CrashInv

LEMMA NextCrashInv == CrashInv /\ [CrashNext]_vars => CrashInv'
<1>. SUFFICES ASSUME CrashInv, [CrashNext]_vars PROVE CrashInv'
  OBVIOUS
<1>1. CASE Crash
  BY <1>1, CrashStep
<1>2. CASE [Next]_vars
  <2>1. TypeOK' /\ GateInv'
    BY <1>2, TypeStep, GateStep DEF CrashInv, GateInv, TableOK
  <2>2. CopyComplete' /\ OneRowPerVersion' /\ MissingKept'
    <3>1. CASE UNCHANGED vars
      <4>1. CopyComplete'
        BY <3>1 DEF CrashInv, CopyComplete, Tmp, Path, vars
      <4>2. OneRowPerVersion'
        BY <3>1 DEF CrashInv, OneRowPerVersion, vars
      <4>3. MissingKept'
        <5>1. \A p \in Paths : (Held(p)' <=> Held(p)) /\ (Stored(p)' <=> Stored(p))
          BY <3>1 DEF Held, Stored, Path, vars
        <5>. QED
          BY <3>1, <5>1 DEF CrashInv, MissingKept, vars
      <4>. QED
        BY <4>1, <4>2, <4>3
    <3>2. ASSUME NEW t \in Threads, Call(t) \/ Step(t)
          PROVE  CopyComplete' /\ OneRowPerVersion' /\ MissingKept'
      <4>1. TypeOK /\ CopyComplete /\ OneRowPerVersion
        BY DEF CrashInv
      <4>2. CopyComplete'
        BY <3>2, <4>1, CopyStep
      <4>3. OneRowPerVersion'
        BY <3>2, <4>1, VersionStep
      <4>4. MissingKept'
        BY <3>2, KeptStep
      <4>. QED
        BY <4>2, <4>3, <4>4
    <3>. QED
      BY <1>2, <3>1, <3>2 DEF Next
  <2>. QED
    BY <2>1, <2>2 DEF CrashInv
<1>. QED
  BY <1>1, <1>2 DEF CrashNext

\* Every state that restarts can lead to satisfies the inductive invariant.
THEOREM CrashInvariance == CrashSpec => []CrashInv
<1>1. Init => CrashInv
  BY InitCrashInv
<1>2. CrashInv /\ [CrashNext]_vars => CrashInv'
  BY NextCrashInv
<1>. QED
  BY <1>1, <1>2, PTL DEF CrashSpec

\* Wherever the machine stops, between file.delete and renameTo too, a finished copy
\* of every file that is missing stays on the disk.
THEOREM RowsAreKept == CrashSpec => []RowsSurvive
<1>1. CrashInv => RowsSurvive
  BY KeptSurvive
<1>. QED
  BY <1>1, CrashInvariance, PTL

\* Over all restarts, what elimina_riga shows under a name is an earlier version
\* without one row, never what a stopped thread has left half written.
THEOREM VersionsOverRestarts == CrashSpec => []OneRowPerVersion
<1>1. CrashInv => OneRowPerVersion
  BY DEF CrashInv
<1>. QED
  BY <1>1, CrashInvariance, PTL

\* The table starts empty after every restart, and its first users are alone again.
THEOREM FirstUseOverRestarts == CrashSpec => []FirstUseExclusive
<1>1. CrashInv => FirstUseExclusive
  BY DEF CrashInv, GateInv
<1>. QED
  BY <1>1, CrashInvariance, PTL
================================================================================
