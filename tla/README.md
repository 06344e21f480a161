# A verification project for lab-reti-di-calcolatori

The repository holds the exercises of a networking course: small clients and
servers in Java and C, each directory a system of its own. This directory holds
TLA+ modules that model them, TLC configurations that check the models on small
instances, and proofs, checked by TLAPS, of what matters most for every instance.

## 1. The systems

| System | State | Operations | What is hard |
|---|---|---|---|
| `esercitazione5`, RMI row service (`ServerImpl.java`) | files on disk, the busy table (`files`, `status`), per thread a reader, a writer and a temporary file | `conta_righe`, `elimina_riga`, `getStatusFile`, `setStatusFile` | threads that share files and a table; I/O errors half way; a stop between `delete` and `renameTo` |
| `esercitazione_2_concorrente`, multiple put (`ClientMultiplePut`, `ServerMultiplePut`, `ClientHandler`) | per client a directory and a socket, per connection a handler, one output directory | choose a directory, count, name, answer, length, content | two passes that must agree; files of one name; clients, handlers and servers that stop half way |
| the same, sequential server (`ServerSeq.java`) | backlog, one open connection, time limit | the same dialogue, `System.exit` on most errors | the time limit against the dialogue, waiting clients, end of stream read as data |
| `esercitazione6`, registry of remote services with tags | two tables of 100 slots, 256 cells of tags per slot | add, look up, remove, tag, look up by tag | two tables kept in step by hand, one unsynchronized method, servers that register again |
| `esercitazione7`, file scan over RPC (UDP) | open directories and files of the server | `contafile`, `contadir` | requests sent again, descriptors never closed |
| `esercitazione9`, votes over RPC (TCP) | table of candidates | `classifica_giudici`, `esprimi_voto` | calls without an answer, late answers, votes in memory only |
| `esercitazione_4`, server with `select` (TCP listing, UDP word removal) | listening sockets, descriptors, a child per connection, files, `tmp.txt` | list the files one level down, remove a word from a file | a dialogue without an end mark, timeouts that are used up, descriptors that are never closed, lost datagrams |
| `esercitazione_3/es1`, longest word over UDP | the result of the request before | one request, one answer | state kept between requests, lost datagrams |
| `esercitazione_3/es2`, line filter over TCP | a child per connection, a line buffer; per client a temporary file | send a file, receive it without a line | line by line in lock-step or by `select`, the last line, what is left on the connection |
| `esercitazione_1`, row swap behind a discovery server | files | swap two rows | does not compile as it stands; the swap is sequential |
| `esercitazione_0`, producers and consumers | one file | write and filter characters | sequential |

The systems do not interact with each other. Inside one, a client and a server
interact over a socket, an RMI call or an RPC; threads or handlers of one server
interact over files and, in `esercitazione5`, over the busy table.

What makes each correct:

- **row service**: a file only ever loses one row at a time, whoever interferes;
  a deleted file comes back; every call is answered; the table has one entry per
  file and never overruns its arrays; the first use of a file is exclusive. The
  comments promise more, mutual exclusion, and the code does not keep it (§6).
- **multiple put**: both ends of a connection agree on where in the dialogue they
  are; a file is written by one client; a partial file has a failure behind it;
  a client gets through or loses its connection.
- **sequential put**: the same streams, a file reported as received is one
  client's, and one slow client does not hold up the others for ever.
- **select server**: files lose whole words of one request only and the count is
  that of the words; a listing is in step with the requests unless the client gave
  one up early; each service goes on however the other fares.
- **line filter**: a file is replaced by itself without the line asked for, and
  the ways in which it is not are known; the exchange never stops.
- **registry**: it is a name service of as many places as its table has slots: no
  name is refused while there is room, a lookup gives an object bound to the name,
  a removal removes just that; the two tables agree.
- **file scan, longest word**: a user sees the answer to the last question, however
  datagrams are lost, late or repeated; a call comes to an end. The longest word is
  only ever too long, by what an earlier request has left.
- **votes**: a vote counts once, also when its caller has given up; a ranking
  orders the judges by the votes counted so far.

## 2. Modules

| Module | Models | Interacts with |
|---|---|---|
| `ServerImpl` | `ServerImpl.java` and the calls of `Client.java` | implements `OneShotGate` |
| `OneShotGate` | abstract: what the busy table really promises | |
| `ServerImplCrash` | `ServerImpl` whose virtual machine stops and starts | extends `ServerImpl` |
| `ServerImplProofs` | theorems about `ServerImpl` and `ServerImplCrash` | extends both |
| `PutClient` | `ClientMultiplePut.java` and the server's end of its streams | composed with both servers |
| `MultiplePut` | `ServerMultiplePut.java`, `ClientHandler.java` | extends `PutClient`, implements `WriteOnceStore` |
| `WriteOnceStore` | abstract: every file is written once, by one writer | |
| `SeqPut` | `ServerSeq.java` | extends `PutClient` |
| `WordRemoval` | the word removal of `esercitazione_4/src/server.c`, with its reference | used by `SelectServer` |
| `Listing` | `clientTCP.c` and the child of `server.c` | extended by `SelectServer` |
| `SelectServer` | the `select` loop and the word service of `server.c`, `clientDatagram.c` | extends `Listing`, `WordRemoval` |
| `LineFilter` | `serverTCP.c`, `clientTCP.c`, `clientTCPselect.c` of `esercitazione_3/es2` | |
| `Votes` | `server.c`, `client.c`, dispatcher and stubs of `esercitazione9` | |
| `FileQueries` | `serverDatagram.c` and `clientDatagram.c` of `esercitazione_3/es1`; `implementazione.c`, `client.c`, dispatcher and stubs of `esercitazione7` | |
| `TagRegistry` | `RegistryRemotoTagImpl.java`, `Server.java`, `Client.java` of `esercitazione6` | implements `NameService` |
| `NameService` | abstract: bindings of names to objects, limited in number | |
| `DataLemmas` | lemmas about numbers, sums, choices of places and paths of a machine | extended by `PutProofs`, `SelectServerProofs`, `LineFilterProofs`, `VotesProofs`, `FileQueriesProofs` |
| `PutProofs` | lemmas about the client and about streams, theorems about the two servers of the multiple put | extends `MultiplePut`, `SeqPut` |
| `SelectServerProofs`, `LineFilterProofs`, `VotesProofs`, `FileQueriesProofs` | theorems about these four | |
| `TagRegistryProofs` | theorems about `TagRegistry` | |
| `MC...` | instances for TLC | |

Definitions whose comment begins with *Fault* are no part of a model: each is a
plausible bug in the definition that follows it, kept to see that the properties
notice it.

### ServerImpl

One process per RMI thread. `pc[t]` walks through `elimina_riga`: `check` (the
test for existence), `spin` (the busy wait), `open`, `copy`, `delete`, `rename`,
`release`, with `short` for a file with too few rows and `catch` for the catch
clause. The two accessors of the table are `synchronized`, so each is one step;
a busy wait that finds the file taken changes nothing, so only the round that
leaves it is an action (`EnterGate`). The first search that does not find a path
enters it as *taken by the caller*; a search that finds it leaves it as it is:
that asymmetry is the whole behaviour of the table, and `OneShotGate` states it.
A read sees the version of the file it opened (replacement is by rename), and the
copy is private until the rename, because its name holds the thread's id: copying
is one step, with every possible number of rows read when it fails. The
`RemoteException` for a short file is thrown inside the `try` whose clause
catches `IOException`: `ShortRelease` goes to `catch`, not to the client.

`ServerImplCrash` adds `Crash`: only the disk survives, a copy under way keeps
any number of its rows, the threads of the next machine have the same ids.

### PutClient, MultiplePut, SeqPut

A connection is a sequence of items per direction (an `int`, a name, a `long`, a
block of content) with room for `Window` items, so that a writer can block.
Data is in blocks, and a block names its client, file and place, so that the
properties see mixed, missing or displaced data. `PutClient` has the user's
choices, both passes over the directory, and what the server's reads and writes
do to the stream (`Take`, `Answer`, `AtEnd`).

`MultiplePut` gives every connection a handler. `createNewFile` is one step of the
file system. `readInt` at the end of the stream closes the socket, `readUTF` and
`readLong` there, or a reset, end in the handler's `IOException` clause; `read`
there returns -1, and `write(buffer, 0, -1)` throws an unchecked exception: the
thread dies with its socket open (`CopyEof`). A disk error, a stop of the server
with all handlers, and clients that are run again complete it.

`SeqPut` has one server process and a backlog. Its definitions have a prefix where
`MultiplePut` has one of the same name, so that one module of proofs can extend
both. A connection is in the backlog
before it is accepted and its client goes ahead as far as the buffers let it. The
exits are the code's, with their status. At the end of the stream `read` gives -1
and the loop writes its low byte: `Junk`.

### WordRemoval, Listing, SelectServer

`WordRemoval` is the loop over the characters of a file, as a fold, with the word
after the last separator compared outside of it; `Occurrences` and `Without` say
what it should compute, by positions.

`Listing` is one TCP connection: the client asks for a directory, reads a result
and then names until a `select` finds nothing. The child walks the subdirectories
and their files. Nothing marks the end of a listing, so `Expire` takes a pause for
the end; the time of that `select` is used up and not set again, so that the next
listing may expire at once. A client that gave up early finds the remaining names
in the place of the next result: the history variable that records it is what
`InStepUnlessEarly` excuses.

`SelectServer` is the parent: in each round the listening socket first, then the
datagram socket. The parent closes none of the connections it accepts, which uses
up `MaxFds` descriptors; `accept`, and the two `open`s of the word service, fail
from then on. The word service is `ReceiveRefused`, `ReceiveLeaks` (the file is
open, `tmp.txt` cannot be opened, nobody closes) or `ReceiveOpens`, then `Copy`,
`Rename` and `Send`, with a stop possible between any two; datagrams get lost.

### LineFilter

One connection, one child, one of the two clients. `clientTCP` waits for a line
after each end of a line but that of the line to remove, `clientTCPselect` takes
what a `select` finds. The child sends what is behind the last end of a line, too,
and `clientTCP` does not wait for that; `stray` is the history of what is left
unread on the connection. The temporary file is opened without `O_TRUNC`, which
matters after a `rename` that has failed (`Written`). When the client breaks off,
`recv` gives 0, the loop of the child counts no further and takes the same
character again until the process is killed: `RunsAway` is that end.

### Votes

One request at a time is dispatched; requests and answers are sequences per
client and carry the number of the call. `esprimi_voto_1_svc` ends without a
`return`, so the dispatcher finds any value: NULL, and there is no answer, or
another, and there is an empty one. The stub gives up after 25 seconds: the main
loop ignores a vote without result and ends for a ranking. The totals of the
judges are built as the code does, from the row that has the number of the judge's
place; with the table of `inizializza` that is the row of the judge
(`JudgesAssumption`). The bubble sort is stable, so its result is said by ranks: at
rank *r* is the judge whose place does not precede *r* places. `Restart`
empties table and connections, and a client of the server before keeps its broken
connection.

### FileQueries

The two UDP servers have one shape: one request at a time, answered from the disk.
`program` says which of them, with its clients, a behaviour has. A request is
served in one step: nobody else touches what the server uses, and a server that
stops half way loses its answer only. Messages are sets, because nothing orders
datagrams; a lost message leaves its set. The client of the words waits in
`recvfrom` without a limit and never asks again; the RPC runtime (external)
repeats a request until it has an answer with the number of its call or the stub's
25 seconds are over, and then `client.c` exits.

`fds` counts the descriptors that stay open: one per file for `serverDatagram`, the
directory with its entries `.` and `..` for `contadir`. Files that come after these
in the directory may find no descriptor left and are not counted: any number
between none and all. An answer is marked with `lack` if descriptors were short,
and the properties on values leave it out. `result` of `serverDatagram` is set
once and then only grows, or becomes -1: `Scan` starts from it. `contadir` compares
the size with what `lseek(f, SEEK_END, 0)` returns, its arguments exchanged: the
offset 2, `LongEnough`.

### TagRegistry

The synchronized methods are one step each; `cercaTag` is not synchronized and is
one step per slot (`Scan`). `Server` is serialisable and not exported, so the
registry holds copies of the objects it is given: they outlive the server, and a
server that is started again binds its two names once more. `associaTag` looks for
a cell that is `null`, and the constructor has filled every cell with the empty
string: it stores nothing and returns TRUE. The empty line, on the other hand,
matches every cell and overruns the array of names (`Overflows`). No program of the
repository removes names; the two methods that do are called by anybody.

`NameService` is what is promised: a binding takes a free place, which one is not
said, `cerca` gives the object of some binding of the name, `eliminaPrimo` removes
some binding of the name. The mapping turns every slot that is not empty into a
binding.

## 3. Runs

| Run | Question | Bounds | Distinct states |
|---|---|---|---|
| `rows_safety` | is every interleaving of the row methods safe, and what survives restarts? | 3 threads, 1 file of 2 rows, row arguments 1 and 3, symmetric threads | 2.7 M |
| `rows_live` | are calls answered, do files come back, is the table a one-shot gate? | 2 threads, 2 files and a missing one, table of 1, arguments 0 and 3 | 70 k |
| `put_serving` | streams in step, one writer, partial files explained, a write-once store, uploads that end? | 2 clients, 3 directories with colliding names, folders and short files, files of at least 1 block | 313 k |
| `seq_serving` | the same for the sequential server, and is the backlog served? | 2 clients, 3 directories | 128 k |
| `select_serving` | do both services go on, in step and on whole words, without descriptors too? | 1 TCP client that is run again, 1 datagram user, `MaxFds` 2, names of up to `NameUnits` 2 parts, 2 requests per client | 482 k |
| `filter_serving` | is a file only changed as asked, and what can go wrong with it? | 2 texts, lines 1 and 2, 2 requests per connection | 29 k |
| `votes_serving` | are votes counted once and rankings right, and do calls end? | 2 clients, 2 calls each, the table of the code, a name that is not in it | 183 k |
| `queries_serving` | do users see the answer to what they asked, and do calls end? | 2 clients, 2 calls in all, 2 texts, a directory of 2 files, a missing name, sizes 2 and 3, 4 descriptors | 258 k |
| `tags_serving` | is the registry a name service, do its tables agree, what does a search find? | 3 slots, 4 cells, 2 servers, 1 client | 755 k |
| `rows_mutex`, `seq_whole`, `select_leak` | does the code do what its comments say? | as above | violated, see §6 |

The bounds. Three threads are enough for one inside, one that comes in through
the open gate and one that fails; two files are enough for a table of one entry
to be full. A row argument below 1 removes nothing, 1 removes the first row, 3 is
too many for two rows: the three ways through the copying loop. Replacements
shorten a file, so the number of versions is finite by itself. Two clients are
enough for a race on a name; names include one that `trim()` makes equal to
another. Files have 0, 1 or 2 blocks: empty, complete with the first block, and
one with a middle to be interrupted in. A window of 3 holds a name, a length and
a block, so that a client goes ahead of the server, and it fills up, so that a
client waits. The same directories may be chosen again without end.

For `FileQueries` two calls are a late answer to the first that arrives in the
second, two clients one that leaves something to the other in `result` or `fds`;
four descriptors are one directory with room for a file, or a directory that finds
too few. The sizes are on either side of the offset that `lseek` returns, and one
text has a word that no separator ends. For `TagRegistry` two servers want four
slots of three, so that the table fills up; there are more cells than slots, as in
the code (256 and 100). Only the calls of `FileQueries` needed a bound: servers and
clients of the registry come again for ever.

For the select server, two descriptors are one connection and one file, or a file
without its temporary copy. Names of two parts can be cut. Texts for `WordRemoval`
have a word at either end, two separators in a row, and the word that is asked for
inside another. Texts for `LineFilter` have an empty line and a last line with and
without an end; two requests let one be spoilt by what the other has left. Two
calls of two clients are a vote that is given up with a ranking behind it, while
another client's vote is between them. The TCP buffers of these modules hold what
is sent; words and lines fit their buffers of 256; disks are not full; files that
exist can be read.

Deadlock is checked in every run but those of `SelectServer`: there everybody may
rest, the server in `select`, a user waiting for an answer that is lost.

Fairness. The threads of the server and the steps of a client that is not waiting
for its user are fair: the Java scheduler runs every thread. What users decide
(calls, directories, ending), process stops, disk errors and restarts are not
fair. In `SeqPut` fairness of `Server` includes the failing reads: the 30 second
`setSoTimeout` lets no read wait for ever. `BacklogServed` supposes users who stop
choosing directories, because a client that always sends something in time does
hold the server for ever. In `SelectServer`, `LineFilter` and `Votes` the server,
its children and clients that do not wait for a user are fair, per connection
where the code looks at every connection in each round (`select`, `svc_run`). In
`FileQueries` the server takes what arrives, and a call whose answer does not come
runs out of time;
failures, lost datagrams, restarts and users are not.

## 4. Proofs

| Theorem | Statement |
|---|---|
| `ServerImplProofs!TypeCorrect` | `Spec => []TypeOK` |
| `ServerImplProofs!TableCorrect` | `Spec => []OneEntryPerFile` |
| `ServerImplProofs!FirstUseIsExclusive` | `Spec => []FirstUseExclusive` |
| `ServerImplProofs!MissingFilesHaveCopies` | `Spec => []MissingFileHasCopy` |
| `ServerImplProofs!VersionsLoseOneRow` | `Spec => []OneRowPerVersion` |
| `ServerImplProofs!TableIsOneShotGate` | `Spec => ImplementsGate` |
| `ServerImplProofs!RowsAreKept` | `CrashSpec => []RowsSurvive` |
| `ServerImplProofs!VersionsOverRestarts` | `CrashSpec => []OneRowPerVersion` |
| `ServerImplProofs!FirstUseOverRestarts` | `CrashSpec => []FirstUseExclusive` |
| `PutProofs!TypeCorrect` | `Spec => []TypeOK` |
| `PutProofs!OneWriter` | `Spec => []OneWriterPerFile` |
| `PutProofs!Alignment` | `Spec => []StreamAligned` |
| `PutProofs!PartialExplained` | `Spec => []PartialFileExplained` |
| `PutProofs!StoreImplemented` | `Spec => ImplementsStore` |
| `PutProofs!SeqAlignment` | `SeqSpec => []SeqStreamAligned` |
| `PutProofs!ReceivedFiles` | `SeqSpec => []ReceivedOrPadded` |
| `SelectServerProofs!TypeCorrect` | `Spec => []TypeOK` |
| `SelectServerProofs!InStep` | `Spec => []InStepUnlessEarly` |
| `SelectServerProofs!WordsOnly` | `Spec => []FilesLoseWordsOnly` |
| `SelectServerProofs!CountRight` | `Spec => []CountIsRight` |
| `LineFilterProofs!TypeCorrect` | `Spec => []TypeOK` |
| `LineFilterProofs!FilterIsExact` | `Spec => ExactUnlessStray` |
| `FileQueriesProofs!TypeCorrect` | `Spec => []TypeOK` |
| `FileQueriesProofs!AnswersAreRight` | `Spec => []AnswerRight` |
| `FileQueriesProofs!RepeatedCallsAgree` | `Spec => []RepeatsAgree` |
| `FileQueriesProofs!WordsBounded` | `Spec => []WordBounds` |
| `TagRegistryProofs!RegistryIsNameService` | `Spec => Implements` |
| `TagRegistryProofs!TablesAgree` | `Spec => []NamesKept` |
| `TagRegistryProofs!TypesKept` | `Spec => []TypeOK` |
| `TagRegistryProofs!SearchesFit` | `Spec => []SearchFits` |
| `TagRegistryProofs!NothingIsFound` | `Spec => []NothingFound` |
| `VotesProofs!TypeCorrect` | `Spec => []TypeOK` |
| `VotesProofs!RankingIsOwn` | `Spec => OwnVotesRanked` |
| `VotesProofs!VotesAreKept` | `Spec => []VotesKept` |
| `VotesProofs!RankingIsSorted` | `Spec => RankingSorted` |

So every safety property, action property and refinement that a run finds true is
also a theorem. `TableCorrect`, `SearchesFit` and
`RepeatedCallsAgree` state facts that no run checks: the first two are parts of an
argument, the third is about answers on their way that no user sees. The theorems
named `Invariance` are the inductive invariants that the others follow from; where
a module has several they have a prefix.

### Assumptions

The theorems hold for every set of threads, files, rows, clients, users,
directories, texts and words, for every length of a table, window and limit, under
the named assumptions of the modules:

| Module | Assumption | Why the code has it |
|---|---|---|
| `ServerImpl` | `DiskAssumption`, `TableAssumption`, `WordsAssumption` | files hold rows, the table has a length, rows have a number of words |
| `PutClient` | `DirsAssumption`, `SizeAssumption`, `TrimAssumption` | a directory lists entries; lengths, least size and room are numbers; `trim` gives file names |
| `PutClient`, `SeqPut` | `NobodyAssumption`, `JunkAssumption` | the null values are no clients and no contents, and junk is in no file |
| `WordRemoval`, `SelectServer` | `CharsAssumption`, `TextAssumption` | no letter is a separator, files are texts of these, words are of letters and not empty |
| `SelectServer` | `UsersAssumption`, `FdsAssumption` | there is somebody to ask and something to ask for; the limit is a number |
| `LineFilter` | `TextsAssumption` | the end of a line is no letter, files are texts of letters and ends, lines have numbers |
| `Listing` | `TreeAssumption`, `UnitAssumption` | each subdirectory has a number of names, a name has a part |
| `FileQueries` | `DiskAssumption`, `NamesAssumption`, `ClientsAssumption`, `BoundsAssumption` | texts and directories, one name that is no directory, finitely many clients |
| `TagRegistry` | `SizesAssumption`, `NullAssumption`, `StringsAssumption` | there are at least as many cells as slots (256 and 100), `null` is no string |
| `Votes` | `VotesAssumption`, `ClientsAssumption`, `RankAssumption` | a table of judges that is not empty, finitely many clients, a ranking is no vote |
| `Votes` | `JudgesAssumption` | in the table of `inizializza` judges come in at the rows of their places; only `RankingIsSorted` needs it, and is false without it |

TLC evaluates each of them in the runs of its module.

### Induction over data

The theorems of the library about induction have the property as an operator, which
none of the provers can instantiate. Said of a *set* the property is a term:
`WFMin` and `NatLessThanWellFounded` give the smallest element of a set of naturals
(`SmallestElement`) and from it induction up to a number (`InductionUpTo`). A fold,
or a recursive function, is the choice of a function that satisfies an equation, so
each is dealt with in the same three steps: some function satisfies the equation
(induction on the size of its domain), any two agree, and therefore the chosen one
has at each argument the value that the loop has there. This is how the loop over a
text, the loop of `serverDatagram` and sums over clients and rows are reasoned
about; no property of a fold is assumed.

### The arguments

`ServerImpl`. None of the invariants is inductive by itself: that a taken file has
exactly one thread inside needs that a thread inside a file has its entry in the
table, and that the entry it frees is the one it entered, which needs that entries
are unique. `GateInv` collects this. That a version loses one row needs to know
that the copy of a thread about to rename is a version without one row, which
needs that the version it has open is one the path has shown: `FileInv`. `IInv` is
`TypeOK /\ GateInv /\ FileInv`. The refinement uses it too: freeing an entry maps
to `Unlock` or to a stutter, depending on whether the file was taken.

`ServerImplCrash`. The lemmas on single steps are those of `ServerImpl`, whose
assumptions are the conjuncts of `IInv` they need. One conjunct does not outlive a
crash: that a missing file has a thread with a finished copy. In its place
`MissingKept` says that the file is `Held` by a thread about to rename, or `Stored`:
no thread works on it, and a finished copy is on the disk. Nobody opens a missing
file and a temporary file is opened only with the file itself, so what is stored
stays; a crash turns what is held into what is stored.

`MultiplePut`, types and writers. A handler that writes holds the name it created;
that name is present in the output directory, so `createNewFile` refuses it to the
others: `OneWriterPerFile` needs only that what a writer holds exists. `TodoInv`
and `LoopInv` say what the client's and the handler's loops count, so that the
types are kept (a `long` is only read while a round is left).

`PutClient`, streams. `StreamAligned` speaks of the first item of a stream only,
and the next one may be anything: it is not inductive. What is, is said of the
whole stream. The loops of a server are a small machine that reads items: between
two files with *n* of them announced (`Round(n)`), before a length, inside a
content. `Run(c, x, s, y)` says that reading the stream `s` takes the machine from
`x` to `y`, step by step (a case of the paths `Leads` of `DataLemmas`), and `Conn` that reading all that is on its way takes it
from where the server is to where the client is. A write of the client makes the
path longer at its end, a read of the server shorter at its beginning, and a
connection that ends with items lost leaves a path that stops early. `Fits` says
that the client's own place agrees with its list: how many files it has announced,
and what is still to be sent of the one it is at.

`MultiplePut`, the dialogue. `Dialogue(c)` gives the server's place in that machine
for each place of the handler, the answer that is on its way, and what the file has
that is being written: as much of the client's entry as has been received.
`PartialFileExplained` is carried along with it, because it says what becomes of a
file when its handler ends. `ImplementsStore` then goes by steps: the handler
that creates a file is its writer, a block received is the next block of the entry
that the writer is at, and all else is a stutter.

`SeqPut`. The same machine, but a connection has three places: in the backlog
(`QueueInv`: in it once, not served, and its client where the server will begin to
read), served (`ServedInv`: the dialogue), or over. `ReceivedOrPadded` has the blocks that
have come in as a prefix of an entry, and junk only behind them and only when the
stream has ended before the length did.

`SelectServer`, the words. A file is read by a loop with a buffer, a result and an
output; by `InWord` and its companion for separators, what the loop has after *i*
characters is what it should have of the words that end there, with the word that
begins at *s* in the buffer. At the end this is `Without` and the number of
`Occurrences`, also for a last word without a separator. `Without` keeps the
characters outside some words and closes the gaps (`Pick`, with `RankIn` for the new
place of an old character), so words removed in turn are words removed at once. The
rest is `ServiceInv`: `tmp.txt` (`TmpInv`) holds anything while nobody copies, and
exactly the result of the loop when the rename comes.

`SelectServer`, the listing. `InPhase` gives for each place of the client what may
be on its way: nothing at the prompt (`Quiet`), the request, its refusal, or its
answer with names behind while it waits for a result (`Answering`), parts of names
only among the names. A pause taken for the end is the one step that leaves this,
and it puts the client into `early` unless nothing is left to come. The word
service and the `select` loop touch none of it.

`LineFilter`. The child is a machine that reads headers and characters (`Steps`),
whose state holds all it has ever sent. `Conn` says that reading what is on its way
(`c2s`) takes it from where it is (`Here`) to where the client is (`There`): with
the rest of the file announced and not sent, the line begun in its buffer, and the
lines sent that are `Kept` so far. What the child has sent is what was sent for
requests before, what the client has written, and what is on its way back (`Link`).
So where nothing is left on the way, what the client has written is what was kept,
and at the end of a file that is `Filtered` (`KeptMore`, `KeptAll`).
`clientTCPselect` has this only when its last pause was the end: else something was
left, and that is `stray`. `clientTCP` has it after every line: while it waits, only
the last item on its way makes the child send anything (`Awaited`), and what has
been sent is never taken back (`PathGrows`), so what it receives is all there is to
receive (`AnswerComplete`). It may be at the next prompt before the child has read
the removed line; that is why paths go over the ends of requests.

`FileQueries`. One invariant for both programs. `AnswerRight` needs to know that an
answer on its way belongs to the question its number belongs to. `AllOwn` says so
of all messages: no number is above that of the client's last call, and a message
with that number has that call's question; so the number of the next call is new.
`CallsAgree` is the same for two messages, and `RepliesFit` says that no answer on
its way is wrong. Losses, delays, repetitions and restarts only take messages away
or repeat them. For `WordBounds` the loop of `serverDatagram` (`Scan`) gives the
greater of its first value and the longest word that has ended, and the first value
is itself a longest word, 0 or -1 (`ServerOK`). That calls stay within `MaxCalls`
needs the sum over the clients, which a call raises by one and which is not less
than any of its terms.

`TagRegistry`. `TableOK` (types of the two tables and `NamesKept`) is inductive:
names are written to both tables and removed from one. With it every method maps to
its action of `NameService`, because the slots that hold a name are the bindings of
that name (`HeldOf`); that the least and the greatest of a set of slots are in it
(`MinIn`, `MaxIn`) comes from the library's theorem on well-founded orders. That
searches fit and find nothing needs the fact that no tag is ever stored
(`NoTagStored`): `associaTag` finds no `null` in a cell.

`Votes`, answers. Calls of a client are numbered, and what is on its connection is
in order: `Numbered` says that requests go up, that answers are to requests before
those that wait, and that no number is above that of the last call. So an answer
with the number of the last call leaves no request behind it (`c2s[c] = <<>>`), and
`OfRanking` says that what carries the number of a ranking is one. Votes given up
with the answer on its way are the case this is for.

`Votes`, counting. `VotesKept` is inductive with the types of both tables
(`CountInv`). Each step changes the requests of one client, so one term of the sum
over the clients changes (`WaysChange`), by what is sent, served or lost: a
sequence that is split is worth what its parts are (`WayConcat`), and the table
gains what the request was worth (`CountedIs`).

`Votes`, the ranking. Larger totals first, smaller places first among equal ones,
is a strict order of the places (`AheadOrders`); in a finite set that is so ordered
the number of elements that an element does not precede is different for each and
takes every value (`PlacesTaken`). So `Classifica` is a reordering of the places,
and later ranks do not precede earlier ones. Each judge has one first row
(`JudgeComesIn`, `FirstsAre`), and the total at its place is the sum over all its
rows (`TotalsRight`): this is where `JudgesAssumption` is needed.

### Only model-checked

Liveness and everything under fairness: `CallsReturn`, `MissingFileReturns`,
`UploadEnds`, `BacklogServed`, `DatagramServed`, `RequestAnswered`, `FilterEnds`,
`ChildEnds`, `CallsEnd`, `CallEnds`. The prover has no `ENABLED`.

The three properties of §6 are false.

## 5. What is not modelled

Arguments and settings of the programs, menus, messages and the RMI registry:
no property is about them. A directory that changes between or during the passes
(`ClientMultiplePut.java:145`), lengths of 2 GiB and more
(`ClientHandler.java:85`), two names of one file (`ServerImpl.java:30`): see the
hazards. The generated encoding of RPC arguments (`*_xdr.c`) and the snippet of
`c-code-tools`. Datagrams that the network delivers twice: the RPC runtime repeats
requests itself, which has the same effect on the server; the client of the words
would take a second answer for that to its next question.

`esercitazione_1`: `RowSwapThread` does not compile, `DiscoveryServer` runs over
the end of its arguments before it serves anything, and `TestRandomAccessFile` is
an experiment without a caller. `esercitazione_0` copies characters from the
keyboard to a file or from a file to the screen: nothing is kept and nothing runs
beside it. `cercaTutti` and `restituisciTutti` of `esercitazione6` change nothing
and have no caller.

## 6. Where the code and its comments disagree

- `rows_mutex`: the table is called mutual exclusion (`ServerImpl.java:19`, `110`),
  but an entry that has been freed is never taken again; from then on threads
  work on a file together. No row is lost to it beyond the rows that calls ask
  for in sequence (`OneRowPerVersion`), but one of two removals can be undone.
- `seq_whole`: the end of a stream is written to the file as bytes of value 255,
  and the file is reported as received.
- `select_leak`: the server keeps every accepted connection open in the parent;
  when its descriptors are used up it answers -1, "does not exist", for files that
  exist.

Beside the runs:

- A call for a row the file does not have is answered like a success: the
  `RemoteException` of `ServerImpl.java:138` is thrown inside the `try` whose clause
  (line 149) catches it. `ServerImpl` has it as `ShortRelease`.
- No search by tag of `esercitazione6` finds anything: `associaTag` looks for a
  `null` cell (`RegistryRemotoTagImpl.java:179`), the constructor leaves none, and
  the server is told TRUE all the same. This is the theorem `NothingIsFound`.
- `serverDatagram.c` says it looks for the longest word of the file (line 80), but
  starts from the result of the request before, and after a missing file answers -1
  for a file without a separator; a last word that nothing ends does not count.
- `contadir` exchanges the arguments of `lseek` (`implementazione.c:67`): the size
  the user is asked for (`client.c:73`, "dimensione minima") is compared with 2.

The time limit inside the dialogue of `ServerSeq` ends the server
(`System.exit`, modelled as the exits of `SeqPut`), while the comments at
`ServerSeq.java:85` speak of going on. The bug that would show at
`esercitazione9/server.c:147` needs another table than the one in the code.

## 7. What is left

Four hazards have no property: a file that changes between the questions for its
length and its content, two names of one file, a lost datagram of `clientDatagram`
(it waits for ever), and writes to `tmp.txt` on a full disk. Aliases
only add ways into a file, which several threads enter anyway, and the lost
datagrams are in the model, where nothing is promised to who sent them. Directories
do not change and the disk is never full in the models: these two are open.
