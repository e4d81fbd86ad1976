# A TLA+ model of MP2P

MP2P transfers files in parts.  A client asks the *master* where to put the
parts of a file, sends each part to a *storage*, and the storage tells the
master which parts it holds; a download goes the other way.  The master keeps
all it knows in a Couchbase bucket.  This directory holds the specifications of
that system, the configurations that model-check them, and the proofs.

Line numbers refer to the files under `src/src/`; `PROJECT.json` maps every
definition to the lines it models.

1. [Inventory](#1-inventory) of the system
2. [Modules](#2-modules) and how their state and actions correspond to the code
3. [Runs](#3-runs): what each checks, its bounds, what it shows
4. [Fairness](#4-fairness)
5. [Proofs](#5-proofs): the theorems, the inductive invariants, the assumptions
6. [Disagreements](#6-disagreements-between-code-and-documentation) between code and documentation
7. [What is not modelled](#7-what-is-not-modelled), and why
8. [Plan](#8-plan)

## 1. Inventory

| component | state it keeps | operations | talks to |
|---|---|---|---|
| `Master` (`master/master.hxx`) | worker threads over one `io_service_`, the `Server` | `run`, `stop`, `recv_dispatcher` | clients, storages, database |
| registration of storages | documents `storages` (count, space) and `st.<i>` | `sm_id_req`, `get_all_storages` | storage's `init_id` |
| registration of files | documents `files` (count, size, name_by_id) and `file.<name>` | `create_new_file`, `cm_up_req` | client's `request_upload` |
| acknowledgement of parts | `parts` in `file.<name>`, under `mutex_part_ack` | `sm_part_ack` | storage's `cs_up_act` |
| lookup and removal | none | `cm_down_req`, `cm_del_req` | client's `request_download` |
| distribution of parts | statics `storages`, `current_round_robin`, `iterator_initialized` | `get_stpfields_for_upload`, `number_of_parts` | `get_all_storages` |
| part layout | none (arithmetic) | `get_part_size`, the offsets of `send_parts` and `recv_part`, `hash_buffer_hex` | client and storage must agree on it |
| `Client` | the counter `progress_`, a task per storage or part | `request_upload`, `request_download`, `progress_while`, `end_all_tasks` | master, storages |
| `Storage` handlers | part files, `id`, the id file | `cs_up_act`, `cs_down_act`, `init_id` | client, master |
| `Server`, `Session` | acceptor, sessions held by their pending callbacks | `listen`, `stop`, `receive`, `send`, `recv_ack`, keep_alive | everything |
| `Logger`, `Active` | the queue, `done_`, the thread that prints | `Send`, `Run`, destructor | every thread |
| queue of the logger (`libtools/utils/concurentqueue.hh`) | per thread that logs a stream of blocks under a block index; the free list; the list and hash table of producers | `enqueue`, `try_dequeue` without tokens | `Logger` |

How they interact.  A session is a TCP connection with a request and, usually,
one answer.  Every thread of the master runs `io_service_.run()` and so any
handler; a handler is a sequence of database calls, each atomic under
`Database::mutex_`, with nothing around the sequence except `mutex_part_ack` in
`sm_part_ack`.  Any exception in a handler leaves `io_service_.run()` and ends
the process (master.hxx:27-52, storage.cc:52-67).  The static variables of
`get_stpfields_for_upload` are shared by all threads without a lock.  The client
uses one task per storage for an upload, one per part for a download, and joins
them after its counter reached the number of parts.

What is hard, and what makes each part correct:

* **Registration of storages**: read-modify-write of `storages` and `st.<i>` by
  several threads, with the process ending in between, and a storage that may
  die with an empty id file.  Correct if every id that was handed out has its
  document, ids are unique and lead back to the storage that keeps them, and
  listing never asks for a missing document.
* **Registration of files, acknowledgements**: two uploads probe names and raise
  the count at the same time; an acknowledgement rewrites a whole document.
  Correct if ids are unique and lead to the file of the client that got them, no
  location is lost, no acknowledgement ends the master, and a client is sent
  only to storages that have the part.
* **Distribution**: a cursor that outlives uploads, a copy that becomes old, a
  loop with no bound.  Correct if the iterator is used only inside the vector,
  every part goes where there is room, shares are equal and the loop ends.
* **Transfers**: a counter that starts at 1, tasks that end by exceptions nobody
  asks for, `recv_ack` that returns when a session breaks, offsets rounded one
  way and sizes the other.  Correct if what the master was told is stored, what
  is reported is done, and the bytes come back in their places.
* **Server, sessions**: any thread runs any completion, a handler may read its own
  session, a stop races the next accept.  Correct if a session has one reader,
  acknowledgements reach the handler that waits for them, requests are taken and
  a stop ends.
* **Logger**: the message that ends it is the last that is sent, not the last that is
  dequeued; `Send` looks at no result.  Correct if the messages of a thread are
  printed in the order it sent them, the destructor loses no more than the scan
  of the queue makes it lose, every `Send` returns and the destructor too.
* **Its queue**: no locks; blocks, entries of the index and places in the hash table
  are used again while other threads look at them.  Correct if every element
  reaches one consumer in the order of its thread, the block of an element is
  found while the index is replaced, no block is lost or used twice, and every
  hash table that is searched keeps a free slot.

`PROJECT.json` lists the hazards one by one, each at its line, with the
properties that speak of it or the reason why none does.

## 2. Modules

### StorageRegistry (with IdAllocator, MCStorageRegistry)

How a storage obtains its id.

| specification | code |
|---|---|
| `mos`, `st` | documents `storages` and `st.<i>` |
| `pc`, `job`, `snap`, `idx` | each worker of the master: its place in a handler, its session, the `MetaOnStoragesItem` it read, the loop variable of `get_all_storages` |
| `hpc`, `id`, `idFile`, `boots` | the storage process, `Storage::id`, the id file, starts |
| `conn`, `replies` | the session of a start to the master, `fid_info` on its way |
| `ReadStorages`, `PutStorage`, `PutStorages`, `Reply`, `PeerGone` | the calls of `sm_id_req` in their order |
| `ListBegin`, `ListNext`, `ListEnd` | `get_all_storages` |
| `SendIdReq`, `StartRefused`, `LoadId`, `ReceiveId`, `WriteId`, `ReceiveError` | `init_id`; creating the id file and writing it are two steps |
| `MasterEnds`, `MasterCrash`, `MasterStart`, `StorageCrash`, `StorageStop`, `BreakSession` | the processes and connections fail; database and id file survive |

`IdAllocator` is the abstract specification: numbers are allocated in order, a
storage holds at most one and only one allocated to it.  `AllocatesIds` is the
refinement: as long as one storage is registered at a time, by any of the threads,
`mos.count`, the addresses in `st` and the id files implement it, whatever crashes.

### FileRegistry (with FileCatalogue, MCFileRegistry)

What the master knows of files: `create_new_file` (`Probe`, `ReadFiles`,
`PutFiles`, `PutFile`, `AnswerUpload`), `sm_part_ack` (`TakeAck`, `Lock`,
`AckReadFiles`, `AckReadFile`, `AckPut`, `AckEnd`), `cm_down_req`
(`TakeDownload`, `AnswerDownload`).  The document `files` is a record of a
count, a size and a function of ids to names; a name is the pair of the
requested name and the suffix `.__<i>` that `create_new_file` tries.  A document
of a file keeps its parts in the order of their acknowledgements, with
duplicates: the loop at master_callbacks.hxx:228 never finds an existing part.
How many storages an upload gets is the count `cm_up_req` tests; which ones is
the business of `Placement`.  An upload without storages, of a size beyond the
table (0 parts), or with fewer storages than copies asked for is refused
(`Refused`).  A worker that asks a storage for one more replica
uses a session nobody reads any more, as the code does, and gets no answer.

`FileCatalogue` is the abstract specification: registering a file is one step,
recording the place of a part is one step.  `KeepsCatalogue` is the refinement,
when files are created one at a time.

### PartLayout

Pure operators: the division of sizes as `float` (24 significant bits, round to
even), the cut of the last part in an unsigned type of `WordBits` bits, the
offsets of `send_parts` and `recv_part`, and the chunks of `hash_buffer_hex`.
`Transfer` and `Placement` extend it.

### Transfer (MCTransfer)

One client uploads a file and downloads it again.  The main thread
(`UploadBegins`, `UploadEnds`, `DownloadBegins`, `DownloadEnds`), a task per
storage for the upload and per part for the download (`Connect`, `Send`,
`RecvAck`, `RecvPart`), and at the other end of each session a handler of the
storage (`StorePart`, `TellMaster`, `AckClient`, `CloseFile`; `ServePart`,
`ServeEnds`).  A download that takes less than a millisecond divides by zero after
the last part (client.cc:290-293) and the process ends: `main = "trapped"`.
`progress` is `progress_` and starts at 1 as in client.cc:135.  A storage that throws ends (`StorageEnds`), every session to it
breaks, and what was not closed may be missing from its disk.  The mapped file
may change between its hash and its sending (`whole`), which the storage
notices.  The master is what it lists: the `part_ack`s it took, in their order.
`out` maps each byte of the downloaded file to the byte of the uploaded file
that was copied there, so that offsets and lengths are checked byte by byte.

### Placement (MCPlacement)

`get_stpfields_for_upload` statement by statement where threads can get between:
`Check` (is the copy new), `ReadCount` and `ListEnds` (`get_all_storages`),
`Assign` and `Point` (the copy and the iterator), `Wrap`, `Look`, `Advance` (the
loop), `Answer`.  A worker that lists for another handler runs `ReadCount` and
`ListEnds` only, and by that makes the copy old.  `cursor = cached + 1` is
`storages.end()`.  Two uploads in it at once are a data race; the code's
behaviour is undefined from there on, and the model records the race and stops
(`Stray`), so nothing is claimed about what follows.  `load` and `seen` are
history variables that only properties read.  Registration is one step here: its
own interleavings are StorageRegistry's.

### Server

The process of a storage or of the master: its threads, its acceptor, its
sessions and its end.

| specification | code |
|---|---|
| `accept` | the one `async_accept` on `socket_`: outstanding, completed with an error, or neither |
| `pc`, `serves`, `msg` | each thread of `io_service_`: in `run()`, in the completion of an accept, in a handler, in `recv_ack` |
| `link`, `inbox`, `reader` | a session: the connection, the packets nobody has read, the outstanding `async_read`s |
| `client`, `asked` | what the peer waits for, how much it asked |
| `main`, `ended` | the main thread in `catch_stop` and after, how the process ended |
| `Accept`, `Listen`, `AcceptError` | the completion in `Server::listen`; the next accept is begun at its end, a step later, and not at all after an error |
| `Dispatch`, `ReadEnds` | `receive_header` and `receive_message`, then `recv_dispatcher` |
| `StorePart`, `Refuse`, `ServePart`, `RecvAck`, `Throw` | what a handler does to its session and its thread: `keep_alive::Yes`, `keep_alive::No`, a blocking read, an exception |
| `ReturnFromRun` | `io_service_.run()` returns in every thread when nothing is outstanding (`Idle`) |
| `Signal`, `Stop`, `Join`, `Destroy` | `catch_stop`, `Server::stop`, the joins, `~Master` and `~Storage` |

What a request asks for is chosen when it is handled: no property tells the
kinds apart before.  What the handlers do to files, documents and answers is
left to the other modules.  A session is closed when the last callback that
holds it is gone.  `acceptor_.cancel()` in one thread and `async_accept` in
another are atomic steps here, although asio does not promise that for one
object without a strand.

### ImplicitQueue (with FreeList, MessageStreams, MCImplicitQueue)

The part of the queue that the logger uses: `enqueue` and `try_dequeue` without
tokens.  One action is one access to a variable that other threads use.

| specification | code |
|---|---|
| `tailIndex`, `headIndex`, `dequeueOptimisticCount`, `dequeueOvercommit` | the indices of each `ImplicitProducer` |
| `blockIndex`, `entry` | its `BlockIndexHeader`s, the current one last, and the entries they point to, which stay when the header is replaced |
| `tailBlock`, `dequeued`, `elements` | its last block; of each block `elementsCompletelyDequeued` and what is in it |
| `initialBlockPoolIndex`, `created` | the pool of blocks and the heap |
| `Enqueue`, `InsertBlockIndexEntry`, `NewBlockIndex`, `Expose`, `AskPool`, `ClaimFromPool`, `FromFreeList`, `Create`, `Construct`, `Publish` | `ImplicitProducer::enqueue`, with `NewBlockIndexFails`, `CreateFails`, `ConstructThrows`, `Rewind`, `Forget` for its failures |
| `Dequeue`, `SeemsEmpty`, `SeemsNonEmpty`, `AddOptimistic`, `Recheck`, `AddOvercommit`, `ClaimHead`, `LoadBlockIndex`, `MoveElement`, `SetEmpty`, `Release` | `ImplicitProducer::dequeue` |
| `FreeList`: `Add`, `PushLoad`, `PushCount`, `Push`, `Repush`; `GetLoad`, `GetRef`, `GetNext`, `Pop`, `Got`, `Unref` | `add`, `add_knowing_refcount_is_zero`; `try_get` |

`FreeList` is extended by `ImplicitQueue`, which starts `add` and `try_get` by
setting `fl[t]` and reads their result there.  A copy of an element that throws
and an allocation that fails are faults.  `MessageStreams` is the abstract
specification: a first-in, first-out stream for each thread that enqueues, one
consumer for each element.  `ImplementsStreams` is the refinement: the stream of
`p` are the indices from `headIndex[p]` to `tailIndex[p]`, and an element is in the
hand of a consumer from `ClaimHead` on.

ImplicitQueueInv has the inductive invariant, in parts that can be evaluated;
ImplicitQueueParts_proofs proves those about counts, the block index and the free
list, and ImplicitQueue_proofs, which extends it, the rest and the theorems.

### Logger (with MessageStreams, MCLogger)

The logger over that queue, whose streams are an instance of `MessageStreams`:
what ImplicitQueue shows of the blocks is what Logger builds on.

| specification | code |
|---|---|
| `tables`, `count`, `resizing` | `implicitProducerHash` with its `prev`s, `implicitProducerHashCount`, `implicitProducerHashResizeInProgress` |
| `owner` | the list of producers, oldest first, with the thread of each |
| `Send`, `Close`, `Join` | `Active::Send`; `~Active`, which sends the message that sets `done_` and joins |
| `Search`, `Register`, `TestFull`, `Resize`, `Release`, `TestRoom`, `Create`, `Insert` | `get_or_add_implicit_producer`: find the thread in the tables, or count it, replace a table that is half full, wait for one with room, add a producer |
| `ResizeFails`, `GiveUp`, `CreateFails`, `EnqueueFails` | failed allocations and copies that throw |
| `Scan`, `Sleep`, `Dequeue`, `RunMessage` | `Active::Run` and `try_dequeue`: the longest of the first three streams that are not empty, newest producer first |

A thread reads only its own entries of a table and an entry stays, so a search is
one action.  `done_` is read and set by the logger's thread alone.

## 3. Runs

Every run is exhaustive within its bounds.  A run `pass` holds; a run `violation`
is a disagreement of section 6.

| run | instance | what it asks |
|---|---|---|
| Registry | 2 threads, 2 storages, at most 4 starts and faults, one registration at a time beside listings | `ListingNeverThrows`, `IdsAreRegistered`, `IdResolvesToHolder`, the refinement `AllocatesIds`, `StartSettles` |
| Files | 2 threads, 4 uploads (two of one name, one of two parts, two refused) and a download, of which two are made, 1 fault, one file created at a time beside acknowledgements and downloads | `AckIsRecorded`, `AcksNeverThrow`, `AnswersAreTrue`, `LocationsKept`, the refinement `KeepsCatalogue`, `AcksSettle` |
| Transfer | 7 bytes in 3 parts on 2 storages, 1 fault | `ToldIsStored`, `UploadReport`, `BytesAreRight`, `DownloadReport`, `TransfersReturn` |
| Placement | 2 threads, 4 storages, 3 requests | `DefinedAlone`, `PlacedWhole`, `Balanced`, `KnowsListed`, `UploadPlaced` |
| Server | 2 threads, 3 clients with one request each, 1 failed accept, a signal | `OneReader`, `AcksReachHandler`, `StaysInRun`, `RequestsAreServed`, `StopEnds` |
| Queue | 2 threads that enqueue, 2 that dequeue, up to 7 elements, blocks of 2, an index of 2 entries, 4 blocks, 1 fault | `AssertsHold`, `NothingStranded`, the refinement `ImplementsStreams` |
| Logger | the main thread and 3 others with up to 4 messages in all, a hash table of 2 slots, up to 2 faults | `TablesHaveRoom`, `LossBounded`, `PrintsInOrder`, `Settles` |
| FilesRace, FilesIncomplete, TransferWhole, PlacementRoom, ServerStop | the smallest that show it | one claim each, see section 6 |

Every run also checks the `TypeOK` of its module.

Why these bounds.  The races are between two threads: a third only repeats the
role of one of them, and every handler holds at most one copy of a document.
Two storages and two starts are the least with which an id can be given twice,
after a crash, to the other or to the same storage; two faults are a crash of the
storage after a crash of the master.  In Registry and Files a second thread may
do anything but write what the first one is writing (`OneRegisters`,
`OneCreates`): two registrations at a time break the refinements, as FilesRace
shows for files; what holds for them all the same is proved for any number of
threads (section 5).  In Files one fault falls at every step of every handler, and
two requests are what it takes for one to disturb the other.

What these two runs therefore do not see: two registrations of storages that
overlap, two creations of files that overlap, and what follows only from those (two
files with one id, a second acknowledgement of a part by the same storage, a name
that `files` has lost).  FilesRace overlaps creations and shows that ids are then
not unique.  The theorems over `Spec`, `Density`, `HandedOutRegistered`,
`ListingSafe`, `DenseNames`, `LocationsAreKept`, `AcksAreRecorded` and `AnswersTrue`,
hold for any number of them at a time.

In Transfer, 7 bytes in 3 parts give lengths 3, 3, 1 and offsets 0, 2, 4: parts
overlap, the last one is cut, and one storage has two parts, so that a task
sends more than one.  In Placement one storage has room for nothing but the
short last part, one cannot be joined, and two register at one address; three
requests are what it takes to make a copy, to make it old and to use it again.
In Server the third client is the one that waits while two others, who never
acknowledge the part they got, hold both threads.
`WordBits` is 28 in Placement and in Transfer, since TLC's integers have 32 bits; no
length in these runs comes near either.
In Queue five elements in blocks of two need three blocks in an index of two
entries, so that it grows to four while consumers look elements up in the old one,
and seven need a fourth block in the index that grew, whose copied entries are
turned; it does not grow again, and the proofs are what covers any growth.  Blocks
come from the pool, the free list and the heap, and go back
while the other thread is inside `try_get`.  One attempt to dequeue in vain
(`MaxVain`) is enough to make `dequeueOvercommit` count.  In Logger three threads
that register at once fill a table of two slots and are to wait for the next one;
with the main thread's there are more streams than the three a scan takes.  A
second workload lets the main thread log itself, with two allocations that fail.

## 4. Fairness

* StorageRegistry: weak fairness for the steps of every worker and for what a
  storage reads from its socket, and strong fairness for taking a request:
  `io_service` queues it, so that it is taken although the threads are busy with
  other requests now and then.  Nothing is assumed about faults, starts or
  restarts.
* FileRegistry: weak fairness per worker (threads are scheduled) and for taking
  an acknowledgement that arrived.
* Transfer: one weak fairness for all the threads of the client and of the
  storages together: no step can be repeated for ever, so nothing more is needed.
  None for the delivery to the master.
* Placement: weak fairness per worker.
* Logger: weak fairness for each thread inside `Send`, for the logger's thread and
  for the join.  None for sending or for the destructor.
* Server: weak fairness for each thread and for the main thread after the signal.
  None for the clients, who may stall or stay for ever, nor for the signal.

The leads-to properties say where progress really ends: `StartSettles` (a start
ends, with an id unless something failed) and `AcksSettle` until a fault,
`TransfersReturn` unless two parts were given up (then `progress_` never reaches
the number of parts), `UploadPlaced` unless no storage of the copy takes the part (then the thread
turns for ever, database_procedures.hxx:170), `RequestsAreServed` unless every
thread waits in a `recv_ack` (storage_callbacks.cc:88 has no timeout) or an
accept failed, `StopEnds` unless a client keeps its session or an accept that
began after the stop is outstanding: `Server::stop` cancels what is there and
leaves no mark, so that a thread between an accept and the next `listen()` goes
on, `Settles` when no thread sends any more, and then not for the destructor if its
own message was lost: `Send` ignores that `enqueue` returned false
(logger.cc:21), and the join waits for ever.

## 5. Proofs

The theorems hold for every number of threads, storages, files, parts and
faults; the assumptions are the ASSUMEs of the modules (constants have the types
the code gives them) and, where named, one more.

| module | theorems | assumption besides the types |
|---|---|---|
| StorageRegistry_proofs | `TypeCorrect`, `Density`, `HandedOutRegistered`, `ListingSafe` | none |
| | `SerialResolves`, `SerialUnique`, `SerialImplements` | one storage is registered at a time (`SerialSpec`) |
| FileRegistry_proofs | `TypeCorrect`, `DenseNames` | none |
| | `LocationsAreKept`, `AcksAreRecorded`, `AnswersTrue` | clients ask for different names (`OwnNames`) |
| | `SerialUniqueFids`, `SerialFidResolves`, `SerialAcksNeverThrow`, `SerialLocationsKept`, `SerialImplementsCatalogue` | one file is created at a time (`SerialSpec`) |
| Transfer_proofs | `FloatCeiling` | the size is below 2^FloatBits |
| | `SmallFits` | and it has no more parts than its quotient and one |
| | `PartsAreStoredBeforeTold`, `UploadIsReported` | none |
| | `TypeCorrect`, `DownloadedBytes`, `DownloadIsReported` | the parts fit the file (`Layout`, by `SmallFits`) |
| Placement_proofs | `TypeCorrect`, `IteratorIsValid`, `CopyIsNew`, `AllPlaced` | none |
| | `TurnsAreFair` | the parts of every requested file fit it (`TableFits`, by `SmallFits`) |
| Server_proofs | `TypeCorrect`, `OneReaderAtATime`, `AcksAreAwaited`, `ThreadsStay` | none |
| Logger_proofs | `InOrder`, `OneProducer`, `RoomInTables`, `TypeCorrect`, `LittleIsLost` | none |
| ImplicitQueue_proofs | `Inductive`, `TypeCorrect`, `AssertionsHold`, `NoBlockIsStranded`, `StreamsImplemented` | none |

The arguments:

* *Registry, any threads.*  `RegistryDense` is inductive with the types: the
  count of `storages` is only ever written from a copy whose new id was put
  before, and documents are never removed, so lost updates can lower the count
  but never raise it above a missing document.  `ListingSafe` and
  `HandedOutRegistered` follow from it.
* *Registry, one at a time.*  `SerialSpec` lets any number of threads list, answer
  and take requests while one is between its read of `storages` and its put
  (`OneRegisters`).  To `Registered` (the two invariants above) `Owned` adds
  that the copy this worker is about to write back is still the database's, that the
  document it put beyond the count names the storage it serves, and that every
  id in an answer, in a storage that writes its file, or in a file is counted and
  names that storage.  Together they give `IdResolvesToHolder`, uniqueness, and
  that every step is an `Allocate`, a `Take` or a stutter of `IdAllocator`.
* *Files.*  `DenseNames` is as the registry's density.  For locations,
  `NothingOverwrites` says that a thread that is about to put a document has the
  only right to it: by the mutex for acknowledgements, and because the name is
  its own for a new file.  Without different names it is false, and so is the
  theorem: two uploads of one name may put over each other.
* *Files, answers.*  Registrations that overlap may give one id to two files, so
  that an id may lead to the wrong document or to none; that a download is still
  never sent to a storage that does not have the part rests on `Told` and
  `AllTold`: every location, in a document, in the copy of a thread that
  acknowledges or in an answer, was sent by that storage for that file and part.
  `IdsFit` says which names an id may have while two threads hold copies of `files`.
* *Files, one at a time.*  `SerialSpec` lets any number of threads acknowledge and
  answer while one creates a file.  `Serial` says of the thread that creates that
  its copy of `files` is the database's and that nobody has its name (`Creates`);
  of every document that it is the file of a request that was answered or is about
  to be (`Records`); of every id in an answer or an acknowledgement that it leads
  to its file (`Resolved`, `Given`).  Uniqueness and resolution of ids and
  `AcksNeverThrow` follow, for clients that ask for one name as well.  The
  refinement shows that `PutFile`, the last of the three writes, is the step in
  which the file appears in `FileCatalogue`.
* *Transfer.*  `StoredBeforeTold`: a handler that is about to tell the master has
  written the part, whoever sent it, and only the end of its storage takes the
  part away.
* *Layout.*  `FloatCeiling`: a size below 2^FloatBits is a float, so that only its
  quotient by the number of parts is rounded, and to one of equal steps of which
  each whole number below 2^FloatBits is one.  A quotient strictly between two
  whole numbers is thus never rounded past one of them, and onto the lower one
  never: that would need a number of parts of twice 2^FloatBits.  `SmallFits`: the
  parts are then longer than the quotient by one byte at most, and together
  exceed the file by one quotient at most (`FitParts`) if there are no more parts
  than the quotient and one.  The example table (storage_sizes.json) has 1, 2 and
  4 parts below 2^24, where this holds for every size an entry is used for.
  Without it (5 bytes in 4 parts) the unsigned cut of the last part wraps around
  and the length of that part is about 2^64.  The instances of Transfer and
  Placement satisfy the assumption, which their MC modules state as an ASSUME.
* *Transfer, the upload.*  `Sessions` says for each task which message is on its
  session and what the handler at the other end is at, so that an acknowledgement
  is that of the part the task waits for; `Phases` that the tasks of the upload
  are over before those of the download start.  `Counting`: `progress` is 1 and the
  number of parts that tasks have passed, each part being of one task; when
  `progress_while` ends all but one are counted, and so one at most is lost.
  `Kept`: what was counted over a session that holds is stored.
* *Transfer, the download.*  The master lists no part twice (`ToldOnce`), so that
  a complete list is a list of all parts and `progress` counts different ones.
  `OutIs`: each byte in the file was copied from its place in the part of a task,
  and parts that overlap agree on it, because both sides place part p at p times
  the same quotient.  `Left`, which divides the parts among the fields, is a
  recursive function; `LeftGrows` shows its values by the least counterexample.
* *Placement.*  `Inv`: while uploads do not overlap, at most one worker uses the
  statics; if the copy counts as new the iterator is in it or one behind its
  end; between `assign` and the new iterator the copy counts as old, which is
  what keeps a listing in between from being lost twice.  `Orderly` carries this
  under `~raced`; after a race no step uses the statics, so what was true stays.
* *Placement, turns.*  `Balanced` is not inductive: that the next storage may get a
  part needs that it has not got one more already.  `InTurn` orders the storages
  by their turn, from the one the iterator is at or about to be at (`Turn`): of two
  that are never passed over, the one that has its turn first got as many parts or
  one less.  A storage that gets a part goes from the first place to the last.  A
  storage is passed over when the length of the part is more than its room, which
  a last part that wraps around would be; hence `TableFits`.
* *Server.*  `Inv`: `Single` (an outstanding read excludes a thread that serves the
  session, and two threads never serve one), `Accepting` (one accept, outstanding
  or being completed), `Awaits` (whoever has a part, or has acknowledged it, is
  awaited by a thread in `recv_ack`) and `Accepts` (before the signal and without
  a failed accept there is always an accept).  The type invariant needs `Single`:
  a session is closed by one thread, and no other may hold it.  A packet is
  dispatched only when no thread serves its session, and then `Awaits` says that
  no acknowledgement is among them.
* *Logger.*  The order of a thread's messages is that of one stream, so that it
  needs `OneStream`: a thread never gets a second producer.  This rests on
  `Registered`: a thread that has a producer is about to insert it, or it is in a
  table, and in one that is no younger than the one its search starts from, so
  that the search finds it.  A resize only adds a younger table, and a search walks
  to older ones after it has seen that the entry is not in the table it leaves.
  `Ordered` then says that the messages of a thread that are printed, taken by the
  logger, waiting in its stream and being sent have increasing numbers.

* *Logger, tables.*  `CountIs`: `count` is how many threads have a producer or are on
  their way to one.  `Room`: for every n, fewer than n threads are in tables whose
  threshold (three quarters of the capacity) is n or lower, or past the test that
  lets them in.  It is for every n, and not for each table, since a thread that is
  let into a table may have counted itself while an older one was current.  That
  a thread has one entry at most in a table (`Once`), and none when it inserts
  itself (`Absent`), turns the number of threads into one of slots.
* *Logger, the end.*  `Quiet`: whoever destroys the logger is the last to send.
  `DoneLast`: its message is the last of its stream.  `Seen`: the streams the scan
  has counted are still not empty, as only the thread of the scan takes from them;
  and if the one it is to take from holds nothing but the last message, the streams
  it looked at since, which are older, are no longer than that.  When the message
  is taken, an older stream with more messages is therefore one the scan did not
  look at, because it stopped at three (`Loss`).

* *Queue.*  `IInv` (ImplicitQueueInv) has six parts, each of which needs those before
  it: `Types`, `Claims`, `IndexOK`, `FreeOK`, `OwnedOK`, `StoredOK`.  It holds for any
  number of threads, blocks and elements, sizes of a block and capacities of an
  index.
* *Queue, counts.*  `Conserved`: each attempt of a consumer is an element, was counted
  off, or is a consumer between the two.  That alone does not show that a consumer
  that passes the second check finds an element: others that came before it may
  still pass or fail.  `Enough` has two numbers, k and l, of which the consumers at
  the check with a count below k will pass and have elements below l, and says of
  every other one that it passes only if there are enough elements whichever of
  those before it did.  `headIndex <= tailIndex` and the assert of
  concurentqueue.hh:2345 follow.
* *Queue, index.*  `Ring` orders the slots of an index by their age: the slot of age
  n has the key of the n-th block before the last one, unless it was never used.
  Growing doubles the slots and turns the ring, which keeps the order (`RingGrow`).
  A consumer may search an index that was replaced since, whose entries the
  producer uses again: their keys are then whole laps of that index later
  (`LapOf`), and the entry it comes to is still the one of its element, because
  the number of slots divides that of every later index and no entry is used
  again before its block is empty (`StoredOK`).
* *Queue, free list.*  `FreeRefs`: the reference count of a block tells where it is.
  With nobody at work on it, it is the number of readers, or one more if the block
  is on the list, or has the mark and at least one reader, the last of whom puts
  it there.  `FreeLinks`: the links from the head are a list without a cycle of
  exactly those blocks.  `FreeLocals`: the next of a head that was read under a
  reference has not changed as long as the block is the head, so that the
  exchange in `Pop` never links a stale one (the ABA problem).
* *Queue, owners and contents.*  `OwnedOK`: a block that was taken is in one entry of
  one producer, or held by one producer that has got it and not put it there yet,
  or with the free list.  `StoredOK`: of the BLOCK_SIZE elements of a block in an
  entry each was counted off, is about to be, is on its way to a consumer, or is
  left, so that the one who counts the last one off is the last to use the block; and the
  element itself is in its place until then.
* *Queue, the refinement.*  `Publish` is `Enqueue`, `ClaimHead` is `Dequeue`, and the
  return of a consumer, from `SetEmpty`, or from the free list after `Release`, is
  `Return`.  Every other step is a stutter: `MoveElement` takes out of the block what
  the hand already has.

What would be an induction over data (the walk of `OnList` along the links, the
largest of a finite set) takes the least number at which the claim fails, which
is no less than the one before it (`LeastNat`).

Only model-checked: the leads-to properties; liveness under fairness is out of the
prover's reach.

## 6. Disagreements between code and documentation

* **FilesRace**: two threads inside `create_new_file` answer two clients with one
  file id (database_procedures.hxx:97).
* **TransferWhole**: part sizes are rounded up, the offsets of the upload down
  (client.cc:193): unless the number of parts divides the size, the last bytes
  of the file are in no part.
* **PlacementRoom**: the master looks for room for the part its loop is at, but
  answers counts only, and the client gives the first storage the last parts
  (client.cc:140-152): a part may be sent where there is no room for it.
* **ServerStop**: `catch_stop` joins the threads and leaves them in `threads_`; the
  destructor stops again and joins a thread that was joined, which throws, in a
  destructor (master.hxx:20-25, storage.cc:31-35): the process is terminated
  where the documentation says that it exits.

* **FilesIncomplete**: `cm_down_req` means to refuse a file that is not complete
  (master_callbacks.hxx:99-102), but a part nobody acknowledged is not in the
  document at all: a download in the middle of an upload is answered with the
  parts that are there.

Two more are visible in the models and have no run.  A download divides the size of
the file by its duration in milliseconds without the test for zero that the upload
has (client.cc:290-293, client.cc:160): `DownloadEnds` may end the process after
the file is written, and `DownloadReport` speaks of both ends.  And `recv_ack` returns normally when
the session breaks (session.cc:246), where network.hh:247 says that it throws:
`RecvAck` of Transfer counts a part no storage may have, which is why
`UploadReport` excepts broken sessions.

What the runs of the logger show is no disagreement, but worth knowing.  The
destructor of `Active` prints every message of the thread that runs it, and loses
at most one message of every older producer, unless the scan had found three
streams before it; of a newer producer, whose stream the scan may have passed
when it was empty, it can lose any number.  A caller that wants all of its lines
has to wait for them itself.

## 7. What is not modelled

* *The database* is taken for atomic get and put of whole documents.  A call that
  fails throws and ends the master (`MasterCrash` at that point), except for the
  probe for a free name: `cmd_get` reports every failure as a missing key
  (database.hxx:40), and `create_new_file` then overwrites a file, with no step in
  between that a property could save.  The bucket is taken to answer that call.
  The JSON text of the documents is not modelled, their fields are.
* *Byte layouts of packets, shared buffers, OpenSSL*: memory questions without a
  protocol of their own.  A hash either matches or does not.
* *Sizes above 2^24*, which `float` cannot hold (misc.hxx:120): PartLayout rounds as
  the code does, but no run has a file of that size, since Transfer follows every byte,
  and the theorems about lengths assume smaller ones.
* *Undefined behaviour* after two uploads race in the statics: the model stops.
* *Command lines, configuration, colours, resolver, scripts, vendored code*:
  straight-line code or libraries; the values that matter are constants.
* *Dispatch*: a packet of an unknown kind from a client falls through to the cases
  of the next sender (master.hxx:121); which handler gets it is not modelled.
* *Removal*: `cm_del_req` changes no document and no client calls it; it looks its
  file up without the prefix `file.` under which documents are kept.  Placement
  models that it lists the storages.
* *The rest of the queue*: nothing in the repository calls explicit producers,
  tokens, bulk operations, moves and swaps.  Threads do not announce their end
  (`thread_local` support is commented out, concurentqueue.hh:138-148), so producers
  are not recycled.  Orders of memory weaker than sequential consistency
  and indices that wrap around are not modelled.
* *Catch and the logger benchmark* (`logger-tests/`): a vendored test framework, a
  benchmark that compares loggers, and its own copy of the queue.

Known abstractions: one upload and one download per client, one session per
task; in Transfer a storage has a worker for each session (its pool of threads
is Server's); a faulty master is not part of Transfer beyond lost `part_ack`s
and refused connections, since its own failures are those of the registries.

* A handler that throws ends its process, so a throw is the crash of the process at
  that step: an address that cannot be parsed in `sm_part_ack`
  (master_callbacks.hxx:259) is `MasterCrash` before `AckEnd`, and a client that is
  gone when `cs_up_act` asks for its address (storage_callbacks.cc:23) is
  `StorageCrash` before `StorePart`.
* `AckEnd` stands for the listing of the storages, the request for one more replica
  and the unlock together: what the listing does to the master's copy is
  Placement's, and the mutex is held until the end in any case.
* The answer of a download takes the first location of each part that resolves.
  Parts are only given to storages that can be joined (Placement), so that the
  first one always does, and the case in which none does is not reached.
* In FileRegistry a storage acknowledges a part of an upload once, as a client sends
  it once; a second acknowledgement of one (id, part) by one storage comes from
  another upload that was given the same id.
* The part of a file that a storage has written and not closed may be lost when it
  ends (`StorageEnds`): the stream is buffered until storage_callbacks.cc:59.
* The clients of Server send what client.cc sends: acknowledgements are successes.
  One that leaves before it was accepted is not told from one that leaves
  right after.
* `new_block_index` is taken to succeed in the constructor of `ImplicitProducer`.  Its
  result is ignored there (concurentqueue.hh:2213); when the allocation failed
  (l.2746), the first `enqueue` dereferences a null `blockIndex` (l.2683), and nothing
  can be said of what follows.  Later calls that fail are modelled.

## 8. Plan

Done, in this order: StorageRegistry with IdAllocator; FileRegistry with
FileCatalogue; PartLayout; Transfer; Placement; Server; MessageStreams, FreeList
and ImplicitQueue; Logger; proofs about every component.

What would come next:

1. **Composition**: Transfer over FileRegistry, so that the list of a download is
   the document's, replicas and duplicated entries included; Transfer over
   Server, so that a storage has fewer threads than sessions.
2. **Layout**: sizes of 2^24 and more, where the size itself is rounded; the chunks
   of `hash_buffer_hex`.
3. The packets of each sender and the dispatch's fall-through; the answer of
   `cm_del_req`.
