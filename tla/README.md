# TLA+ specifications of the IPFS engine

The repository is a C# implementation of an IPFS node: the engine
(`src/src`), an HTTP server (`src/IpfsServer`) and a command line
(`src/IpfsCli`) around it.  This directory holds TLA+ modules that model the
engine's stateful core, TLC configurations that check them on small instances,
and TLAPS proofs of what holds for every instance.  Paths in this file are
relative to the root of the repository's sources (`src/` in `PROJECT.json`), so
that `BlockExchange/Bitswap.cs` is `src/src/BlockExchange/Bitswap.cs`.

Run a check with `tlc -workers 2 -config <Run>.cfg <MCModule>.tla` and a proof
with `tlapm <Module>Proofs.tla`.

## The system

| Component | State it keeps | Operations | Talks to | Hard parts |
|---|---|---|---|---|
| **Want list** `BlockExchange/Bitswap.cs`, `WantedBlock.cs` | `wants`: a `ConcurrentDictionary` from content id to the consumers that wait | `WantAsync`, `Unwant`, `Found`, `StopAsync`, token callbacks | called by `BlockApi`, `BitswapApi`, the protocols; raises `BlockNeeded` | plain lists shared by threads, delegates outside the dictionary's lock, callbacks that outlive their call |
| **File store** `FileStore.cs` | one file per key, a reader/writer lock | get, put, remove, exists, size, `Values`/`Keys` | the file system; used for blocks, pins and keys | several file accesses per operation, failures half-way, crashes, `Values` without the lock |
| **Local repository** `CoreApi/BlockApi.cs`, `PinApi.cs`, `BlockRepositoryApi.cs` | the block store and the pin store | get, put, remove, pin, unpin, garbage collection | want list, DHT, both stores | no lock spans the two stores or a store and the want list: every `await` is a gap |
| **Exchange protocol** `BlockExchange/Bitswap1.cs`, `Bitswap11.cs` | none but its streams; the peers' ledgers | receive and send wants and blocks | want list, swarm | lost and duplicated answers, one slow block before the others, timeouts |
| **Ledgers and statistics** `Bitswap.cs` 37-135, 369-440 | byte and block counters, per peer and in total | count a block received, sent | protocol | counters shared by threads, double counting |
| **Engine life cycle** `IpfsEngine.cs` | lazily made services, `stopTasks` | `StartAsync`, `StopAsync`, `Dispose` | every service | overlapping starts, stop during start, partial start |
| **Key chain** `Cryptography/KeyChain.cs` | the key store, the derived pass key | set pass phrase, create, import, export, rename, remove, list | file store | rename as put then remove, key chain used before it is ready |
| **Configuration, bootstrap** `CoreApi/ConfigApi.cs`, `BootstrapApi.cs`, `SwarmApi.cs` | a JSON file and its cached copy | get, set, replace; add, remove, list bootstrap peers and filters | file system | read-modify-write without a lock, cached copy changed before the file |
| **Migration** `Migration/*.cs` | the version file, the repository's layout | upgrade or downgrade step by step | file system | crash between a step and its version number |
| **UnixFS** `UnixFileSystem/*.cs`, `CoreApi/FileSystemApi.cs` | positions of streams | chunk, build a tree, read, slice, list, tar | block api | boundaries of chunks and of links per node |
| **Name resolution** `CoreApi/DnsApi.cs`, `NameApi.cs`, `GenericApi.cs` | none | resolve DNS links, IPNS names, paths | DNS, DHT | links that refer to each other |
| **Random walk, discovery** `RandomWalk.cs` | a cancellation source and a thread | start, stop | DHT | stop beside a query |
| Server, command line, formats, CMS encryption, in-memory store | none, or a dictionary | forwarding, parsing, formatting, encryption | engine | none a state machine would show |

What should hold of each: the want list forgets no waiter and tells every
waiter once; the file store is atomic; a pinned block is kept, garbage is
collected, and nobody waits for a block that is there; an exchange delivers
every wanted block that a connected peer has; start and stop leave no service
running or half started; a key is never lost by renaming it; a file is read
back as it was added.

## The modules

| Module | Lines of code it models | What it is |
|---|---|---|
| `Bitswap` | `Bitswap.cs` 189-314, 442-468, `WantedBlock.cs` | the want list, thread by thread |
| `MCBitswap` | - | symmetry for TLC |
| `BitswapProofs` | - | TLAPS proofs about `Bitswap` |
| `KeyValueStore` | the calls of `IStore`, `FileStore.cs` | the abstract store: each operation takes effect at one instant |
| `FileStore` | `FileStore.cs` 34-380 | lock, file accesses, failures, crashes, enumeration; implements `KeyValueStore` |
| `MCFileStore` | - | symmetry for TLC |
| `FileStoreProofs` | - | TLAPS proofs about `FileStore` |
| `Repository` | `BlockApi.cs` 89-254, `PinApi.cs` 42-123, `BlockRepositoryApi.cs` 25-36, `ObjectApi.cs` 51-61, `BitswapApi.cs` 19-24 | the stores and the want list under the operations of the API |
| `MCRepository` | - | a DAG of two blocks, symmetry |
| `RepositoryProofs` | - | TLAPS proofs about `Repository` |
| `Exchange` | `Bitswap11.cs` 44-178, `Bitswap.cs` 162-186, 369-520, `BlockApi.cs` 89-222 | several nodes that exchange wants and blocks |
| `MCExchange` | - | three nodes in a row |
| `ExchangeProofs` | - | TLAPS proofs about `Exchange` |
| `Config` | `ConfigApi.cs` 15-106, `BootstrapApi.cs` 35-100, `SwarmApi.cs` 27-101 | the configuration file, its object in memory, and the two lists kept in it |
| `MCConfig` | - | the default lists, symmetry |
| `ConfigProofs` | - | TLAPS proofs about `Config` |
| `KeyChain` | `KeyChain.cs` 94-124, 139-145, 165-200, 225-262, 288-408, `KeyApi.cs` 20-54, `IpfsEngine.cs` 124-172, 297-328 | the keys, the pass phrase, and the node's identity |
| `MCKeyChain` | - | the repositories to begin with, symmetry |
| `KeyChainProofs` | - | TLAPS proofs about `KeyChain` |
| `Migration` | `MigrationManager.cs` 46-116, `MigrateTo1.cs` 24-84, `FileStore.cs` 229-254 | the pins and the version of the repository |
| `Engine` | `IpfsEngine.cs` 383-592, 611-627, 691-707 | start, stop and dispose; EXTENDS `Migration`, which a start runs first |
| `MCEngine` | - | symmetry |
| `EngineProofs` | - | TLAPS proofs about `Engine` and `Migration` |
| `UnixFS` | `SizeChunker.cs` 43-168, `FileSystemApi.cs` 51-154, 271-282, 350-383, `FileSystem.cs` 44-98, `ChunkedStream.cs` 38-144, `SlicedStream.cs` 20-69 | files cut into trees of blocks, and read back |
| `MCUnixFS` | - | the files and slices |
| `UnixFSProofs` | - | TLAPS proofs about `UnixFS` |

`Repository` stands on the other two: it takes each store operation to be one
step, which is what `FileStore` is shown to provide (`Atomic`), and each call of
`Found`, `WantAsync` and `Unwant` to be one step.  The latter is what the want
list provides only as long as its calls do not overlap (run `BitswapSerial`);
what goes wrong below that granularity is in `Bitswap` and comes on top of what
`Repository` shows.  `Exchange`
puts several such nodes side by side, at the same granularity and with fewer
operations each: no pins and no removal.

`KeyChain` and `Migration` take the operations of their stores to be one step too,
but for the put of the migration, whose truncated file matters to the next
migration.  `Engine` EXTENDS `Migration`: `StartAsync` calls it, and so do tools, in
the same process as the engine or in another.  `UnixFS` puts and gets blocks in one
step; what overlapping puts, pins and collections do to one another inside a step
is in `Repository`.

### Bitswap

*State.*  A call of `WantAsync` is named by the task it returns and a
`WantedBlock` by the call that created it, so `wants` maps content ids to calls,
`consumers` maps each object to its list (as a set: the order of completion is
left open), and `outcome` is the state of each task.  `call` is the stack of
each thread.  `regs` holds the live registrations `cancel.Register(() =>
Unwant(id))` and `cancelled` the tokens.

*Actions.*  `WantAsync` is `WantAsync`, then `Insert` (key absent) or `Update`,
`AddConsumer`, `Publish` (key present: the delegate reads the list, writes it
back, and the dictionary compares and swaps, possibly starting over), then
`Register` and `Announce` (`if (Count == 1)`).  `Found` and `Unwant` share
`TryRemove`, `Enumerate`, `Complete`, `CompletionThrows`, `AllCompleted`: they
remove the entry, then complete its consumers one at a time, and `foreach` or
`SetResult` throw where .NET's would.  `StopAsync` and `CancelToken` run
`Unwant` for a set of ids.  When a callback of a token throws, `Cancel` calls the others
and throws then (`Cancelling`, `failed`); an exception ends `StopAsync` at once.  A
registration whose token is already cancelled runs at once on the calling thread.

*Left out.*  The list `Peers` of an entry, logging, `Swarm_ConnectionEstablished`
and `SendWantList*` (module `Exchange`), the ledgers.

### FileStore and KeyValueStore

*State.*  `disk` is the folder, a file being `Absent`, a value, or `Torn` from
`File.Create` until its stream is closed.  `pc`, `request` and `result` are the
calls in progress.  The lock is not a variable: who holds it follows from `pc`,
and Nito's `AsyncReaderWriterLock` (not in the repository) is modelled by when
it lets a caller in.  `before` is a history variable for the refinement.

*Actions.*  Every file access is a step: `Create`, `Serialize` (which may throw),
`Close`, the clean-up of a failed put, `Delete`, `Read`.  With `IOFaults`
creating, closing and deleting may fail; with `Crashes` the process may die at
any step and only `disk` survives.  `Scanners` enumerate `Values`, without the
lock: an `OpenRead` that meets a file open for writing, or gone, throws.
`Keys` and `Names` read the same listing and open nothing.  `SizeOfAsync` has the
shape of `ExistsAsync` and is not told apart from it.

*Refinement.*  `KV == INSTANCE KeyValueStore WITH map <- Committed`: a file that
is being written counts as what it was before, so that the effect of a put is at
the step that closes the stream (or deletes the file of a put that failed), and
`Atomic == KV!Spec`.  A failed put leaves the key with its old value or without
one: the abstract store allows exactly that.

### Repository

*State.*  `blocks` and `pins` are the keys of the two stores, `wants` the
consumers per content id, `got` the task a caller awaits, `op` the operation of
each caller with its program counter.  `Init` is any repository of an earlier
session in which a pin has its block.  `kept`, `owed` and the fields `since` and
`waste` are history, written for the properties only.

*Actions.*  One action between two awaits.  `PutAsync` is `Exists`, `Store`,
`Provide`, `Found` and then `Pin` or `Unpin`; `OnBlockReceivedAsync` is a put with
`pin: false` for a peer.  `GetAsync` is `TryGet`, `Want`, `ProvidersEnd`, `Await`,
`StopQuery`.  `Pin.AddAsync` loops over `Pin`, the get, `Pinned` and `PushLinks`
(`ObjectApi.LinksAsync`, which gets the block once more); `Pin.RemoveAsync` over
`Unpin`, `Unpinned`, `PushUnpinLinks`.  The garbage collector loops over `GcNext`
and `RemoveAsync`.  The stacks of links are sets.

*Left out.*  Inline (identity) content ids, which are stored nowhere; two built-in
blocks that `GetAsync` returns from constants; who provides a block (the DHT is
external: the query ends or throws); cancellation other than of a waiting get;
the lazy creation of the two stores.

### Exchange

*State.*  `blocks` are the stores and `links` the connected pairs of nodes; `net` is a
bag of messages, one per stream, so that they overtake each other; `tasks` is a
bag of the asynchronous calls in progress, each with its node, the peer (or the
user, `peer = node`) it works for and its program counter.  A want list is not a
variable: the consumers of a content id on a node are its tasks at `count`, `announce`
or `waiting` (`Listed`), and the entry is there while there are any.  `met` are the
connections that exist but of which the node has not been told, `greet` those whose
peer is not yet identified, `timers` the remote wants whose token can still expire.
`gaveUp` and `lost` are history: requests that were dropped by an `Unwant`, and those
that nobody sent, that did not arrive, or whose answer was stored but never found.

*Actions.*  `ReceiveWant` starts `GetBlockAsync` for the peer: `Lookup`, `Want`,
`SendBlock`.  `WantAsync` is `Want`, which joins or creates the entry, then `Count` and
`Announce`, by the call that created it and found itself alone on the list: it tells
all connected peers (`SendWantListToAllAsync`), also the one that asked, also when the
entry was found or dropped in the meantime (`StillToTell`).  `ReceiveBlock` is
`OnBlockReceivedAsync`: `Store`, then `Found`, which continues the waiting tasks, unless
announcing a new block to the DHT throws (`ProvideThrows`).  A user's `Get` goes the same
way and ends in `StopQuery`.  `Connect` lists the connection, `ConnectionEstablished` is
the event with the test for an empty want list, and `Greet` what follows once the
identity is established.  The faults are `Disconnect`, `TimeOut`, `Cancel`,
`ProvideThrows` and `SendFails`: a message is lost on a connection that lives, which the
sender logs and does not repeat.

*Left out.*  Protocol 1.0.0; the `cancel` entries of a want list, which this program
handles but never sends; a content id and the one computed again from the block
are taken to be equal; removing blocks; the ledgers.  `Found` and `Unwant` are one step
each; their inside is in `Bitswap`.

### Config

*State.*  `heap` holds the configuration objects - the static default
configuration, one a caller of `ReplaceAsync` passes, one each process has loaded -
and `cfg` the one `ConfigApi.configuration` refers to.  An object maps the two keys
`Bootstrap` and `Swarm.AddrFilters` to a set of addresses, or `None` if the key is
missing.  `file` is the file and what the first object in it is: `JObject.LoadAsync`
reads one object and ignores what a longer earlier version left behind it, because
`File.OpenWrite` does not cut the file.  `white` is the white list of the swarm.
`known` is history: for each list and address whether calls that nobody disturbed
imply that it is in the list, that it is not, or neither.

*Actions.*  `GetAsync` is `Check`, `FirstDefault` or `FirstOpen`, `Load`, `Got`;
`SaveAsync` is `Open`, `Write`, `Close`, where opening throws while another call has
the file open (`FileShare` of `File.OpenText` and `File.OpenWrite`).  The two lists go
through the same code in two classes: `List` with the defaults that are written
where the key is missing, `Use`, `Assign`, `Saved` with what the swarm is told.  A crash
may leave the file unreadable while it is being written.

*Left out.*  The other settings; the option `BootstrapPeers`, which replaces the list
altogether; `persist`, which the code ignores.

### KeyChain

*State.*  `store` is the key store.  A key in it has its pair (`id`), the name written
in it, and the phrase under which it was encrypted; `chain`, `init` and `dek` are the
fields of `IpfsEngine` and `KeyChain` of that meaning; `lazy`, `peer`, `swarm` are the
lazy values `LocalPeer` and `SwarmService` and whose key they took.  `ready`, `twin`,
`spoiled`, `meddled`, `owned` and the fields `sure` and `mixed` are history.

*Actions.*  `KeyChainAsync` is `Test`, `Create`, `Phrase`, `Derive`, `Verify`,
`FindSelf`, `MakeSelf`, `PutSelf`, one action between two awaits; a call of the API goes
through it and then through `Make`, `Put` or `Find`, `PutNew`, `Drop`.  Import is a
generate whose pair comes from outside.  `Verify` throws if the phrase is wrong, and
also if another first caller has cleared it meanwhile.  `StartSwarm` goes through
`KeyChainAsync` twice and ends in `FindPeer`, `PublicKey`, `PrivateKey`.  `Crash` may be
followed by a session with another phrase.

*Left out.*  Export and list, which only read; key types; `CreateProtectedDataAsync`
(Cms.cs); the constructor that is given a key chain.

### Migration and Engine

*State.*  `old` are the pins of version 0 (empty files), `new` the state of the file of
each pin of version 1, `version` the version file, `mig` the migration each process
runs.  `bag` is `stopTasks`, as the set of what its functions stop; `running` are the
services that run.  A service that is built lazily exists once, of the others each
start makes new ones.  `eng` is the call of each process with, for a start, the stage
it is in and what is left to do there (`add`, `go`) and, for a stop, what it took out
of the bag (`hand`).  `twoStarts`, `undermined` and `lost` are history; `lost` are the
instances that nobody is left to stop, should they run.

*Actions.*  `MirgrateToVersionAsync` is `MigrateTo`, `ReadVersion` and `Compare` (it reads
the version twice), `UpgradePin`, `PutPin`, `DeleteOld` or `DowngradePin`, `DeleteNew` for
each pin, `WriteVersion`; what goes wrong with a pin is swallowed (`PutFails`,
`DeleteFails`).  `StartAsync` is `Start`, `MigrationEnds`, `Built` and then the stages of
`Plan`: in each the services are registered and started side by side, in the order the
code gives them (`Register`, `Launch`, `LaunchFails`, `StageEnds`).  Most put the function
that stops a service in the bag and then start it; the peer manager and the auto
dialer are started first.  The stops are `Snapshot`, `Swap` (the two lines that take the
bag), `StopOne`, `StopFails`; `Dispose` is a synchronous stop, once.  Starts, stops, tools
and crashes interleave freely.

*Left out.*  What the services do; that listening at an address may fail (the code
swallows it); `RandomWalk`, which is one of the discovery services here.  The bag is a
set: the swarm, which registers two functions, is stopped once.

### UnixFS

*State.*  A block is its own content id: a leaf is its bytes, an inner node the sizes
and the blocks of its children, so that equal content is one block.  `adds` is the
`AddAsync` of each writer: the bytes it has read, the chunk it fills, the nodes of the
level and the next level.  `reads` is the stream of each reader: the slice, and a stack
with the `ChunkedStream` the caller reads and, above it, the stream whose content is
being copied into it.  `Before` is the loop of its constructor that adds up the sizes of
the blocks; `Size` and the positions of the children come from it.  `made` is history:
the blocks a call has put or named, which `added` keeps with the root.

*Actions.*  `ReadSource` returns any number of bytes of the source; `PutLeaf`,
`BuildTreeNode` put blocks, with or without a pin, or only name them (`OnlyHash`).
`Fetch` makes a child the current one before its content is there, `Copy` hands bytes
down, `FetchFails` is a get that throws, after which the caller may go on.
`RemoveGarbage` removes all the blocks without a pin in one step.

*Left out.*  Directories, wrapping, tar archives, trickle trees (not implemented in the
code either), protected content, inline content ids, paths, progress reports.

## The runs

| Run | Constants | Distinct states | What it shows |
|---|---|---|---|
| `BitswapSerial` | 2 blocks, 3 calls, 1 thread, 2 tokens, no overlap | 76 thousand | without overlap: `NoConsumerLost`, `NeverThrows`, `FirstWantAnnounced`, and `TypeOK` |
| `BitswapConcurrent` | 2 blocks, 2 calls, 1 thread, 1 token | 433 thousand | in every interleaving: `RightBlock`, `CancelStaysWithinBlock`, `AnnouncedByCreator`, `RemovedForGood`; `WantAsyncReturns` |
| `FileStore` | 2 keys, 2 values, 2 processes | 24 thousand | `Atomic` (refinement), `NoTornFile`, `TypeOK` |
| `FileStoreFaults` | 1 key, 2 processes, 1 enumeration, crashes, faults | 28 thousand | `MutualExclusion`, `LockReleased` |
| `RepositorySerial` | 2 blocks, 1 caller, announcing may fail | 1299 | `PinnedIsKept` for one caller, any sequence of calls |
| `Repository` | 2 blocks, 2 callers | 632 thousand | `GcSparesPinned`, `GcCollectsGarbage`, `EarlyWaiterContinued` |
| `RepositoryLive` | 2 blocks, 2 callers: collect, pin, receive | 576 thousand | `OperationsEnd` |
| `Exchange` | 3 nodes in a row, 1 block stored at the end, a get at the start, a put at the end, 1 fault | 300 thousand | `PeersInformed`, `Delivered` |
| `Config` | 2 addresses, 2 keys, 2 processes, 2 calls | 528 thousand | `AcknowledgedIsListed`, `AcknowledgedIsStored`, `RemovedFilterIsDropped`, `TypeOK` |
| `KeyChain` | 3 names, 2 phrases, 3 processes, 2 calls and the swarm | 1.3 million | `KeysStayReadable`, `KeyKept`, `ListedUnderItsName`, `IdentityIsOne`, `TypeOK` |
| `Engine` | 2 pins, 3 services, 2 processes, 3 calls | 1.6 million | `PinsSurvive`, `VersionIsTrue`, `RunningIsStoppable`, `OneSetOfServices`, `ServicesSeeAllPins`, `TypeOK` |
| `UnixFS` | 4 files of up to 5 bytes, chunks of 2, 2 links per node, 3 slices, 1 writer, 1 reader, 2 adds | 884 thousand | `ReadsTheFile`, `SameBytesSameRoot`, `PinnedFileStays`, `TypeOK` |

*Bounds.*  Every operation in these models touches one or two keys and its races are
between two calls: two calls of `WantAsync` beside one thread that removes the entry
meet every pair of steps of the code, and with two blocks a mix-up of entries shows.  A
DAG of a root and a leaf makes a recursive pin go round its loop.  Three calls in the
serial run let an entry be joined, removed and wanted again.  In `Exchange` the middle
node neither has nor wants the block, so that its want, the forwarded want, the answer
and its forwarding all happen, with a break, a timeout or a cancellation at any point of
it; the put makes `Found` race with answers.  Neighbours want the block for one another,
and after a break a greeting tells of a want that has yet to be counted, so that first
wants overlap.  The row is connected at first, before anybody wants anything.  `MaxFaults` bounds the five faults together and is the
only bound in a guard: a request that expires and is made again can go to and fro
between two nodes without end, and the counter keeps that finite.  Users' calls are made
once each.  The data are model values.

`MaxCalls` (`MaxAdds`) is the only bound of `Config`, `KeyChain`, `Engine` and `UnixFS`:
the calls of a behaviour, over all its sessions; crashes are not bounded.  In `Config`
two calls meet every pair of operations, on the same list and on two lists of the one
file, and `AddDefaultsAsync` goes round its loop.  In `KeyChain` two calls of users and
the building of the swarm, each in a process of its own, meet `KeyChainAsync` at every
point, after a crash under another phrase too; there are as many key pairs as such a
behaviour can make.  The repository is new at first, or has the node's key and one of a
user; the two users' names and the two phrases are interchangeable.  In `Engine` three
calls let a start fail or be stopped and the next one find what it left, or two tools
migrate the repository to and fro before a start.  The three services are the swarm, the
peer manager and multicast discovery, the last of which is put in the bag some stages
before it is started; the first two may fail to start, and stopping the swarm may fail.
The stages of the primary services, the auto dialer and the other discovery services are
empty in the run, because they have the shape of those of the swarm and of the peer
manager; the theorems cover them.  In `UnixFS` the file of five bytes has a tree of two
levels above its leaves, with a short leaf and a node with one child; two files share
leaves; one is empty; the slices begin and end inside a chunk and behind the end, and
the buffers are smaller than a chunk and larger than one.  With two adds a file is added
over another that shares its blocks, or the same one again with other options.  Where
TLAPS proves a property, the bounds do not matter.

*Fairness.*  `Bitswap` and `Repository` assume weak fairness of each call in
progress: the thread pool runs what is runnable, and the code has no priorities.
No fairness is assumed of the calls themselves, of cancellation or of peers, so
`OperationsEnd` allows a get to wait for ever for a block nobody sends.  In its run blocks
are received while a collection lists the files, so its loop meets files that were not
there when it began; puts of users have the same steps.
`Exchange` assumes it of `Progress`, that some task, message or connection makes
a step whenever one can; users need not call, and nothing need break, fail or time out.
`FileStore` assumes it of the steps made under the lock only; nothing is
assumed of the order in which the lock is granted, and `LockReleased` does not
claim that a caller gets it.

*Deadlock.*  Checked in every run but `Exchange`, whose network really goes quiet
when all calls are made and served, and the four runs whose callers stop after
`MaxCalls` calls.

*History variables.*  `announced`, `failed`, `before`, `kept`, `owed`, `since`, `waste`,
`gaveUp` and `lost`, `known` and `mixed`, `ready`, `twin`, `spoiled`, `meddled`, `owned` and
`sure`, `overlap`, `swallowed`, `died`, `downgraded`, `partial`, `twoStarts` and `undermined`,
`added`, `made`, `unpinned` and `broken` are written by the actions and read by properties
only (and `before` by the refinement mapping, `failed` where a `Cancel` ends).

## What the checks found

Every property holds in its run.  What the code does not promise, and the models
show it doing, is named here, with the exception by which the properties allow
for it; remove the exception and TLC prints the behaviour.

*The want list.*  `WantAsync` adds to the list of an entry outside any lock while `Found`
enumerates it, so a waiting task can be lost when calls overlap (`NoConsumerLost` and
`NeverThrows` are checked for calls that do not).  Two overlapping first wants can each
see two consumers and none announces the block (`FirstWantAnnounced`).  Cancelling one
token cancels every consumer of the block (`CancelStaysWithinBlock` says how far that
reaches).

*The file store.*  `Values` takes no lock, so enumerating it beside a put or a remove can
throw (`ScanThrows`), or make that put or remove fail.  A crash leaves a torn file.

*The repository.*  Garbage collection asks for the pin and removes the block in two
steps, and then removes the pin as well: a block that is pinned in between is
deleted although `Pin.Add` succeeds (`PinnedIsKept` is checked for one caller).  A get
looks into the store first and joins the want list later, so it can wait for a block
that is stored (`EarlyWaiterContinued` is about those who waited before).  A put whose
announcement fails does not continue those who wait.  The cancellation that stops the
provider query also drops the want list entry.  Receiving a block that is stored and
pinned removes its pin, because it is put with `pin: false` (`PinnedIsKept` is about
repositories that receive nothing).

*The exchange.*  The callback of an expired remote want, or of a query that was stopped,
drops whoever waits for the block by then, the user included, and a peer whose request
was dropped is not told (`gaveUp`).  Two first wants that overlap can both count two
consumers, and then no peer is told; a message that could not be sent on a connection
that lives is not sent again; and when the announcement of a received block to the DHT
throws, the block is stored and those who wait for it are not continued.  In each case
(`lost`) it takes another announcement of the block, a new connection or another answer
to go on.  A peer that connects while a block is first wanted is told in every order of
the steps, sometimes twice.

*The configuration.*  Two calls on one list lose an update (`mixed`).  A call whose save
throws has changed the object in memory; made again it finds nothing to do and
returns, with the file as it was, and a filter removed that way stays in the white
list of the swarm (hence only the calls that came to their end are acknowledged).  A
crash in the middle of a save may leave a file nobody can read.  The default object is
static: what one engine of a process writes into it is the default of the next.  After
a restart the filters of the file are not put into the white list.

*The key chain.*  The chain is handed out before the phrase is applied, to a second
caller, or after a wrong phrase was tried: a key made then is encrypted under no
phrase, or under the wrong one (`sure`).  Nothing protects `self`: after a user has
removed or renamed it any phrase is accepted in the next session, which cannot read the
old keys (`spoiled`), and what the node announces as its identity may be gone or be
another key (`meddled`).  Renaming a key to its own name deletes it (`GivesUp`), and
renaming or generating overwrites the key that has the name.  Calls that overlap on a name
promise nothing (`mixed`): of two renames that cross, alice to bob and bob to alice, each
deletes what the other has written, and both keys are gone.  Two first callers may both
generate `self`, and the second overwrites the one the first has taken (`twin`); or the
second finds the phrase cleared by the first and throws.

*The engine.*  Four ways lead to a service that runs and that no stop will reach
(`lost`).  The peer manager is started before its function is in the bag, so that it is
not there if the start throws; what a start adds between the two lines of a stop that
take the bag is dropped; what a stop calls before the start that has added it launches
it runs afterwards; and `Stop` gives up at the first function that throws.  In each case the
bag may be empty, so that the next start makes a second set of services beside it.  Two
starts that overlap both pass the test for a started engine (`twoStarts`).  A crash
while the version is written leaves a file that no later start can read.  A downgrade
that dies, or that swallows an error, leaves the version at 1 or 0 with pins on the
other side (`partial`, `swallowed`).  Two upgrades at the same time can write the version
before the pins (`overlap`) and, when one of their puts fails, lose a pin (`PinsSurvive`).
A tool may take the repository back under a started engine (`undermined`).

*Files.*  A read that fails below the first level of the tree leaves zeros in the
stream (`broken`): the child is the current one before it has been read.  Adding a file
without a pin unpins the blocks it shares with pinned files (`unpinned`).

## The proofs

Each proof module assumes the named `ConstantsAssumption` of the module it is about
(what the constants are, and that sentinels are not members of the other sets;
TLC evaluates it in every run) and nothing about the sizes of the sets.

**Bitswap** - for any number of blocks, calls, threads and tokens, overlapping or
not:
`TypeCorrect`, `RightBlockAlways`, `OnlyCreatorAnnounces`, `RemovedStaysOut`,
`CancellationContained`; and, under `Concurrent = FALSE`, `NoWaiterForgotten`,
`CompletionNeverThrows`, `WantedIsAnnounced`.
`RightBlock` is not inductive: that a task completes with its own block depends on
the entry being under its key and on every consumer of an entry having asked for
that key, also while a retry of `AddOrUpdate` holds an object that was removed.
`IInv` adds: an entry is under the key its creator asked for (`EntryInv`);
consumers of an object asked for its creator's key (`ListInv`); a call that has
not inserted anything owns an empty list (`FreshInv`); what a call or a removing
thread holds is an object of its key (`CallInv`, `SignalInv`).  There is a lemma per
action; `QuietStep` covers all the steps that change neither the dictionary nor a list.
`RemovedForGood` follows from `FreshInv`: only `Insert` puts an object into the
dictionary, and an object with a consumer is not fresh.
`CancelInv` follows a token from the call that registered it (`Asked`) through the
registrations and the queue of the thread that cancels it (`ForToken`) to the task.
When calls do not overlap, `SerialInv` holds as well: at most one thread is in a call
(`One`), so what it read is what is there (`Joining`, `Signalling`); everyone in the list
of an entry is pending (`AllPending`); and whoever is pending past its `Add` is on the
list or in the hand of that thread (`Held`).  `CompletionNeverThrows` includes the callbacks
of a token, whose exceptions `Cancel` would collect.  Without that assumption these three
fail.

**FileStore** - for any keys, values, processes and enumerations: `LockExcludes`
(with crashes and faults), and, for `NoFaults == ~Crashes /\ ~IOFaults`,
`OperationsAtomic` and `NoFileTorn`.  The invariant says that the lock excludes and
that a process in an operation has a request of the right kind; the refinement
goes action by action: each one is an abstract step or leaves `Committed`
alone.  Without `NoFaults` the two do not hold.

**Repository** - for any DAG of blocks and any number of callers: `TypeCorrect`;
`CollectorSparesPinned`; `CollectorCollects`; `WaitersContinued`, under
`AnnouncementsSucceed`;
`PinnedKeptByOneCaller`, under `Alone` (one caller, nothing received from peers).
The parts of `IInv`: an operation has a block in hand outside its loops
(`Control`); a collector about to remove a block found it unpinned (`Collector`);
who is on the want list waits for that block (`WantList`), and who is owed a block
is on it while the put that owes it is on its way (`OwedListed`, `Owed`).  `WasteInv`
says that the blocks a collector has yet to remove are in its listing and that it has
visited none of them but the one in its hand.  With a
single caller the invariant is `SerialInv`: whatever a recursive pin has finished
is pinned and stored (`Stage`), point by point of the operation.  Without `Alone` the
property fails.

**Exchange** - for any network, stores, calls and number of faults: `TypeCorrect` and
`PeersStayInformed`, with the exceptions `gaveUp` and `lost` that `PeersInformed` states.
`PeersInformed` is inductive once no node connects to itself (`NoLoops`), so that a
peer's task is never the user's: a want is followed from the call that created its entry
and has yet to count or to tell (`Creators`), or from the new connection, to the message,
through the peer's task, to the block on its way back and its `Found`; each action hands
it on.  The lemmas before that say which elements a bag has after each kind of step.

**Config** - for any callers, addresses, default lists and numbers of calls: all the
properties of the run (`ConfigTyped`, `AcknowledgedIsAlwaysListed`,
`AcknowledgedIsAlwaysStored`, `RemovedFilterStaysDropped`).  `IInv` says of each call that
what it is about to put into a list fits what is already known of that list (`KnownOK`,
`ValueOK`), that what it is saving is what was promised (`StoredOK`), and that a call
nobody disturbed holds the object that is in use (`RefOK`); of two calls (`Pair`), that
there is one writer and that what it writes contains what others had saved.  `Shape` is
the control of a call alone.  The run has two calls; the theorems have no such bound.

**KeyChain** - for any names, pairs, phrases, sessions and callers: `KeyChainType`,
`KeyChainListed`, `KeyChainReadable`, `KeyChainKeeps`, `KeyChainIdentity`: all the
properties of the run, with the exceptions they state.  That a key is listed under its
name needs the key in the hand of a call to carry the name of the file it will be put in
(`OpOK`).  That keys stay readable is `SureInv`: unless `spoiled`, all keys made by a
call that went through the whole of `KeyChainAsync`, in the store or in a hand, have one
phrase (`SurePhrase`), which is the one in use once no phrase is left to try, and the
key stored as `self` is one of them, so that trying a phrase on it tries it on all.
That keys are kept is `KeptInv`: a new key pair is nowhere else (`Fresh`), two calls
that use the same name are both known to (`Apart`), and a rename nobody meets (not
`mixed`) has the key in hand (`InHand`) or under its new name already (`Copied`), so a
crash leaves one of the two.  That there is one identity is `QInv`: unless `meddled` or
`twin`, one call at a time sets the key chain up (`Setup`), it makes `self` only where
there is none, and whatever identity a call has read is that of `self` (`Ident`).

**Engine** - for any services, stages as in `Plan`, pins and callers, with faults and
crashes: all the properties of the run (`EngineType`, `EnginePins`, `EngineVersion`,
`EngineServed`, `EngineStoppable`, `EngineOneSet`), with the exceptions they state and with
any services that may fail to start or to stop.
`MigInv` follows a pin through the migration that has it in hand (`PinInv`), says what an
upgrade has behind it when it comes to the version (`UpgradeInv`) and what the version
implies (`VersionInv`).  `ServedInv` adds that a start past its migration, or a running
service, means that the repository is at the latest version unless it was undermined.
`StopInv` follows each instance from the hand of a start (`Due`) to the bag and the hand of
a stop, or to `lost` (`Covered`).  `OneInv` says that, unless `twoStarts`, there is one start,
and that all that is registered or runs, but what is in the hand of a stop or lost
(`Left`), bears the number of one call, which is that of the start.

**UnixFS** - for any files, chunk size, width of the tree, slices, buffers, writers and
readers: all the properties of the run (`TypeCorrect`, `Reads`, `Roots`, `FilesStay`).
The invariant needs the bytes below a block, and a definition of them would be a recursion
over the tree, about which nothing can be proved here.  So `IInv` says that there is a
function `c` from blocks to bytes with which everything fits (`Content`): a leaf holds its
data, an inner node what its children hold one after the other, at the places where
`Before` puts them (`WellBuilt`).  Such a `c` exists because every block is made after its
children: `NewBlock` extends `c` by the block that a step makes.  With it
- `SizeIsLength` says that the sum of the block sizes is the length of the content, and
  `NeedIs` that the child found for a position is the one that holds it;
- a writer's nodes are a level of the tree of its file, and so is what is built of them
  (`Adding`).  There is one way to cut a length into pieces (`CutUnique`), so a file has one
  tower of levels (`TowersAgree`): equal bytes have equal roots, and as the content of the
  root is the file, other bytes have another (`Roots`);
- each stream of a reader's stack holds, up to where it is filled, the bytes of its current
  child, the stream above it is that child's and stands where the filling does, and what
  the caller has got is the part of the file before its position (`Reading`, `Exact`);
- a call that pins leaves every block it made pinned, or in `unpinned` (`PinsKept`).

The library's induction theorems take an operator and cannot be used; `Induct` is derived
for sets of numbers from the theorem that a well-founded relation has least elements, and
`BeforeDef` shows with it that the recursive function `Before` is defined.

Only model-checked: the liveness properties `WantAsyncReturns`, `LockReleased`,
`OperationsEnd` and `Delivered`, which need fairness and ENABLED.  Every other property of
a run is a theorem, some under the assumptions named above.  `TypeOK` of `Repository`
and of `Exchange` is proved and not part of a run.

## Plan

Done, in this order: the want list, the file store, the repository and the exchange,
because every other component stores through the second and third and waits in the
first; then the configuration, the key chain, the migration and the engine, and the
files; then the proofs, in the order of the section above.

Next: modules of the ledgers (`Bitswap.cs` 37-135, 369-440), whose totals count some
bytes twice, and of protocol 1.0.0 (`Bitswap1.cs`), whose messages are served one want
after the other.  Each would take the place of a run: the project keeps to a dozen.

## Not modelled

The ledgers and protocol 1.0.0 (above).  Name resolution (`DnsApi.cs`, `NameApi.cs`,
`GenericApi.cs`) is a chain of queries without state; nothing in it bounds links that
refer to each other.  The HTTP server and the command line forward requests and format
answers; the linked data formats and the CMS encryption are calls into libraries; the
in-memory store is a dictionary used by tests; the swarm, the DHT and publish/subscribe
are the PeerTalk library, which is not part of the repository and appears only as what
its callers may observe.  Directories and archives of `FileSystemApi`.  The scripts under
`IpfsServer/wwwroot` are a vendored validation library and an empty file.
