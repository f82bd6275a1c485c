# TLA+ models of go-mbfs

This directory holds TLA+ models of four parts of go-mbfs, checked by TLC:

* the block-exchange engine, go-bitswap, under
  `src/gx/QmXRphxBT4BH2GqGHUSbqULm7wNsxnpA2NrbNaY3DU1Y5K/go-bitswap/`
  (`bitswap.go` and `workers.go`);
* adding a file with an access key and getting it back: the AES helpers
  (`src/core/crypto/aes.go`), the DAG builder helpers of go-unixfs
  (`importer/helpers/dagbuilder.go`), coreapi `UnixfsAPI.Get`
  (`src/core/coreapi/unixfs.go`), and `ipfs get` (`src/core/commands/get.go`
  with the tar `Writer` of go-unixfs `tar/writer.go`);
* the MFS `Directory` of go-mfs (`dir.go`) under concurrent callers;
* `ipfs repo verify` (`src/core/commands/repo.go`) run by the command-line
  runner of go-ipfs-cmds (`cli/run.go`).
 `PROJECT.json`
lists every component, run, mutant, finding and hazard. It also maps each
definition to the source lines it translates.

## The system

Bitswap is one long-lived object. Its state is shared by many goroutines:

* **Coordinator** (`bitswap.go`)
  * `GetBlocks` returns an error if the process is closing. Only then does
    it subscribe to the notification pubsub for the keys, and it takes a
    session id. A `Close` can come between the check and the subscription.
  * It adds the keys to the want manager's want list, then starts a loop
    goroutine.
  * The loop arms a provider-search timer (`findProviderDelay`). When the
    timer fires, it sends one `blockRequest` on the bounded channel
    `findKeys` (32).
  * It receives blocks from the subscription, cancels each received key's
    want and sends the block to the caller on `out`.
  * When the loop ends, by cancellation or by the subscription closing, it
    cancels the remaining wants.
* **Block receipt**
  * `ReceiveMessage` counts the message. It runs one goroutine per block:
    `updateReceiveCounters` (`Has`, then the counters) and
    `receiveBlockFrom`.
  * `receiveBlockFrom` checks for closing, then `Put`s the block. A failed
    `Put` returns its error, and nothing else happens. Otherwise it
    publishes the block, informs sessions and the engine, and hands the cid
    to `newBlocks`.
  * If the node is closing, it calls `process.Close` instead.
  * `HasBlock` is `receiveBlockFrom` for a locally added block.
* **Workers** (`workers.go`, started by `startWorkers`)
  * `providerQueryManager` reads `findKeys`. It drops requests whose context
    is done or whose cid is already in its active-query set `kset`.
    Otherwise it starts a search goroutine that removes the cid when it
    ends.
  * `rebroadcastWorker` picks one want-list entry on each broadcast tick
    and sends it on `findKeys`.
  * `provideCollector` relays `newBlocks` to `provideKeys` through a
    one-slot `nextKey` and an unbounded `toProvide` list.
  * `provideWorker` takes keys from `provideKeys`. It runs `Provide`
    goroutines, limited by a semaphore of `provideWorkerMax` tokens.
  * `taskWorker` ×8 serves the decision engine's outbox.
  * `getBlocksOfProviders` runs one `GetBlock` goroutine per announced key.
* **Shutdown** (`New`)
  * `Close` makes the process closing, and a goroutine then cancels `ctx`.
    Cancelling the parent context closes the process the same way.
  * Workers return on `ctx.Done` or `px.Closing`.
  * Only after every child has returned does the teardown run
    `notif.Shutdown()`, which closes every subscription. A subscription made
    after it gets a closed promise.

### Encrypted add and get

* **AES helpers** (`aes.go`): `AesEncrypt` pads with PKCS#7 and encrypts in
  CBC mode, with `md5(key)` as both the AES key and the IV; `AesDecrypt` refuses input that is not a
  whole number of blocks, decrypts and unpads. A nil key returns the input.
* **DAG builder** (`dagbuilder.go`): `prepareNext`, `Next` and `Done` read
  the splitter's chunks and tell `io.EOF` from an error. The balanced layout
  makes each leaf with `NewLeafDataNode`, which encrypts the chunk under
  `sha256(AccessKey)`, applies `BlockSizeLimit` in `NewLeafNode` and, for
  `--nocopy`, records the filestore offset in `ProcessFileStore`. The
  trickle layout makes leaves with `FillNodeLayer`, `GetNextDataNode` and
  `NewLeaf`.
* **Get**: `ipfs cat` goes through `UnixfsAPI.Get`, which compares the
  given key with the node's and decrypts. `ipfs get` of a directory checks
  the directory's key in `get.go` and writes each file through the tar
  `Writer`, whose `writeFile` decrypts and writes as many bytes as the
  stored size in the header.

### MFS directories

A `Directory` has a lock, a cache `childDirs` of child directories and a
`unixfsDir` holding its links. `GetNode` locks the directory and `sync`s
every cached child under the child's lock; `ForEachEntry` holds the parent's
lock while it calls each child's `GetNode`. `Flush` of a child takes the
child's node and then calls the parent's `closeChild`, which re-links it
under the parent's lock. `Mkdir`, `Unlink`, `Child` and `Uncache` work
under the parent's lock; `AddChild` under the child's. Each directory node
keeps the `AccessKey` it was given, or gets its directory's. `sync` gives
a cached child without an `AccessKey` its parent's, takes its node and
then sets the child's field back to nil.

### Repo verify

The runner `cli.Run` gives the request a context with the `--timeout`
deadline (or a plain cancel), runs the command's `Run` in a goroutine,
waits for its error or exit code and cancels the context on return.
`repo verify`'s `Run` gets every key from the blockstore's `AllKeysChan`,
which stops when the context ends. `verifyResultChan` starts a goroutine
that `wg.Add`s and starts NumCPU×2 `verifyWorkerRun` workers, waits for
them and closes the unbuffered `results`. A worker `Get`s each key (with
`HashOnRead`, a corrupt block is an error) and sends a message on
`results`, in a select that returns on `ctx.Done`. `Run` counts the
messages and emits them; if an `Emit` fails it returns. When `results`
closes it reports the corruption, or "verify complete, all blocks
validated."

The want manager, notifications pubsub, sessions, decision engine and
blockstore are not under `src/`. Their effect on the coordinator is modelled
from `spec.md`, and the map marks those definitions `spec_modelled`.
* The pubsub delivers each key once to each subscription. `Shutdown`
  closes every subscription, and a later `Subscribe` gets a closed promise
  (spec §4.1: shutdown always ends the loop).
* Any blockstore `Put` may fail (spec §4.2, failure mode).

## Modules

| module | models | state | actions |
|---|---|---|---|
| `BitswapGet` | GetBlocks calls with their loops, block receipt, counters, peer events, Close/teardown | `closing`, `notifShut`, `store`, `wl` (want list as ⟨cid, session⟩ pairs), `sessID`, per call `rpc` (loop pc), `mses`, `remaining`, `sub`, `promise`, `delayArmed`, `reqArmed`, `pending`, `cancelled`, `got`; `net` (blocks in flight), `recv` (a bag of receipt goroutines at their step), `counters`, and `putErrs` (history) | `GetBlocks` (the early returns), `Subscribe`, `FindProvsDelay`, `FindProvsRequest`, `ReceivePromise`, `PromiseClosed`, `CtxDone`, `SendOut`, `CancelRequest`, `PeerSendsBlock`, `ReceiveMessage`, `HasBlock`, `UpdateReceiveCounters`, `ReceiveBlockPut`, `Publish`, `CloseReturns`, `PeerConnected`, `PeerDisconnected`, `Close`, `Teardown` |
| `ProviderQuery` | findKeys, providerQueryManager, search goroutines, rebroadcastWorker, getBlocksOfProviders and the GetBlock calls it starts, the worker lifecycle of Close | `findKeys` (bounded sequence), `addprovs`, `pqmUp`, `kset`, `searching`, `rb` (worker pc and cid), `others` (running workers), per call `rpc` | `GetBlocks`, `FindProvsDelay`, `FindProvsRequest`, `LoopEnds`, `ProviderQuery`, `ProviderQueryExit`, `SearchDone`, `RebroadcastTick`, `RebroadcastSend`, `RebroadcastExit`, `Announce`, `GetBlocksOfProviders`, `Close`, `CancelContext`, `WorkerExit`, `Teardown` |
| `ProvideQueue` | newBlocks, provideCollector, provideKeys, provideWorker and its semaphore | `newBlocks`, `collUp`, `keysOut`, `nextKey`, `toProvide`, `provideKeys`, `pkClosed`, `pw`, `inflight`, `provided` (history) | `Submit`, `SubmitAbandoned`, `CollectorRecv`, `CollectorSend`, `CollectorExit`, `WorkerRecv`, `WorkerRecvClosed`, `WorkerAcquire`, `WorkerExit`, `ProvideReturns`, `Close`, `CancelContext` |
| `ProvideFifo` | what the provide pipeline promises: an order-keeping queue that may drop entries only once shutdown began | `queue`, `started`, `stopping` | `Submit`, `Start`, `Stop`, `Drop` |
| `AesCrypt` | `aes.go` as operators: PKCS#7 padding, CBC chaining over a toy block cipher, `AesEncrypt`, `AesDecrypt` | none | none |
| `EncryptedAdd` | one add (`dagbuilder.go` helpers driven by the balanced or trickle layout) followed by one get (`UnixfsAPI.Get` or `ipfs get`) | `conf` (layout, key, raw leaves, nocopy, getter), `chunks`, `splitErr`, `db` (pos, nextData, recvdErr, offset), `leaves`, `phase`, `getKey`, `out` | `LayoutStart`, `LayoutNext`, `LayoutEnd`, `Get` |
| `RepoVerify` | `repo verify` with its workers and closer goroutine, and the runner's context | `ctxDone`, `kpos`/`kclosed` (the keys channel), `spawned`, `wg`, per worker `wpc` and `wmsg`, `rclosed`, `rpc`, `progress`, `fails`, `outcome`, `cli` | `RunStart`, `Spawn`, `WorkerRecv`, `WorkerRecvClosed`, `WorkerSend` (`Deliver` or `WorkerQuit`), `CloseResults`, `RunEnd`, `Timeout`, `CliReturn`, `KeysClose` |
| `MfsDir` | a directory P with one child name under concurrent goroutines | `lock`, `akey` (the `AccessKey` fields), `nodeKey`, `ver`, `made`, `link`, `cached` (`childDirs`), `superseded` (history of replaced links), per goroutine `pc`, `nd`, `handle`, `ops` | `GetNodeLock`, `GetNodeChild`, `GetNodeUpdate`, `GetNodeDone`, `FlushGetNode`, `CloseChild`, `Mkdir`, `Unlink`, `Child`, `Uncache`, `AddChild`, `ForEachEntryLock`, `ForEachEntryChild` |

How the models are built:

* Each Go `select` case is an action, or a disjunct of one.
* A goroutine's position in its loop is a program-counter variable.
* Channels are sequences bounded by their capacity. A send is enabled only
  while there is room.
* `ProvideQueue` instantiates `ProvideFifo` under a refinement mapping.
  * The abstract queue is the key the worker holds, then `provideKeys`,
    then the collector's `nextKey` and `toProvide`, then `newBlocks`.
  * `provided` is the abstract `started`.
  * `stopping` is `closing \/ ctxDone`.

* `AesCrypt` keeps the real padding, chaining and error paths and replaces
  AES by a bijective toy cipher on 2-byte blocks of 2-bit bytes (rotate,
  xor with the key). The properties are about padding, lengths and keys,
  which do not depend on the cipher. `md5` of the key (the IV) and `sha256`
  of the access key are constant maps over model values.
* `EncryptedAdd` calls the mapped helpers as recursive operators. The
  layout drivers are outside `src/` and are modelled from the spec
  (`spec_modelled`): each layout step is one action.
* In `MfsDir` a critical section that takes no second lock is one step.
  Sections that wait for a second lock are split where they wait.

The three bitswap component modules are separate. Each one keeps only the variables
of the others that it reads, so each can be checked exhaustively.
`BitswapGet` abstracts the worker pipelines to the timer and the send.
`ProviderQuery` abstracts a GetBlocks loop to its timer, its send and its end.

## Runs

| run | cfg | expect | what it shows |
|---|---|---|---|
| get_requests | `MC_BitswapGet.cfg` | pass | Two concurrent calls share key c1, with a local `HasBlock` of c1 and a peer's message, under fairness. Any `Put` may fail, and `Close` may come at any step. `DeliveredOnce`: no caller receives a block twice or a block it did not ask for. `DeliveredIsStored`: a caller receives only blocks the store holds, so a failed `Put` wakes nobody. `WantlistIsRemaining`: the want list is exactly the union of the live calls' remaining keys. `ArrivalReachesCaller`: a received block reaches every live caller still missing it, unless its `Put` failed. `CancelledRequestEnds`: a cancelled call always ends. `CloseEndsLoops`: once the teardown has shut the bus down, every call ends, including one that passed the closing check and subscribes only after the shutdown. The teardown itself is not assumed to run (it waits for the workers, see pq_close_hangs). |
| pq_safety | `MC_ProviderQuery.cfg` | pass | A GetBlocks call and the GetBlock that `getBlocksOfProviders` starts for an announced cid both search c1. `OneSearchPerCid`: no two searches run for one cid. `FindRequestAccepted`: a send on the full findKeys (capacity 1) is accepted eventually while the node runs. |
| pq_close_hangs | `MC_ProviderQuery_close.cfg` | violation | `CloseCompletes` fails: the rebroadcast worker blocks on findKeys after the query manager returned, so the teardown never runs. |
| provide_fifo | `MC_ProvideQueue.cfg` | pass | `ProvideInOrder` (`ProvideFifo!FairSpec`): keys are provided in hand-over order and never duplicated or lost before shutdown. Each one is provided eventually. |

| add_get | `MC_EncryptedAdd.cfg` | pass | Over every small file, balanced layout, key or none, raw leaves, nocopy, `cat` or `get`, with a splitter that may fail: `LeavesAreFile` (the leaves read back are the file in order, and a finished add read all of it), `FailsOnlyOnError`, `FilestoreOffset`, `GetMatchesAccess` (a right key or no key gets the file, a wrong key is refused). |
| add_trickle_key | `MC_EncryptedAdd_trickle.cfg` | violation | `LeavesAreFile` fails: with `--trickle` and a key, the leaves are stored unencrypted, and reading them with the key fails. |
| get_dir_key | `MC_EncryptedAdd_dir.cfg` | violation | `GetMatchesAccess` fails: `ipfs get` of a keyed file returns the plaintext padded with zero bytes up to the ciphertext size. |
| mfs_safety | `MC_MfsDir.cfg` | pass | Two goroutines, three calls each. `CallsReturn`: every call returns (no lock-order deadlock). `ChildKeepsParentKey`: the child node `sync` links carries the parent's `AccessKey`, and so does every later `Flush` of a child linked with it, although `sync` resets the child's field to nil and writes it without the child's lock. `CacheIsLinked`: a cached child is linked. |
| verify_safety | `MC_RepoVerify.cfg` | pass | Two workers, three blocks of which one is corrupt, a deadline that may pass and an `Emit` that may fail. `NoSendOnClosed`: `results` is closed only when no worker can send on it. `VerifyEnds`: the command, its workers and the closer always return. |
| verify_timeout | `MC_RepoVerify_timeout.cfg` | violation | `ValidatedMeansAll` fails: the deadline passes, and the command reports "all blocks validated" after reading none of them. |
| mfs_stale_link | `MC_MfsDir_stale.cfg` | violation | `NoSupersededLink` fails: a `Flush` that took the child's node before an `Unlink` re-links the removed directory in `closeChild`. |

Every property of a passing run has a mutant in `PROJECT.json`. A mutant is
a plausible bug in the mapped action, such as a dropped guard, a missing
cancel or a missing reset, and TLC finds it violating that property.

### Findings

1. **Close can hang** (`workers.go:218`, a code bug).
   * `rebroadcastWorker` sends on `findKeys` without selecting on its
     context.
   * After `Close`, the query manager returns on `ctx.Done`. If the
     broadcast tick wins the select over `parent.Done`, the worker can fill
     `findKeys` and then block on it forever.
   * `px.Close` then waits on it forever, so `notif.Shutdown` never runs and
     `Bitswap.Close` never returns.
2. **Trickle add ignores the access key** (`dagbuilder.go:526`, a code
   bug).
   * `GetNextDataNode` calls `NewLeaf` on the raw chunk; only
     `NewLeafDataNode`, used by the balanced layout, encrypts.
   * A file added with `--trickle` and a key is stored in plaintext, while
     the node says it is encrypted.
3. **`ipfs get` pads decrypted files** (`tar/writer.go:82`, a code bug).
   * The tar header takes the stored (ciphertext) size. `writeFile`
     decrypts and copies into a buffer of that size, so the file gains up to
     a block of zero bytes.
4. **A stale flush re-links an unlinked directory** (`go-mfs/dir.go:88`, a
   code bug).
   * `Flush` takes the child's node, releases the child's lock, then calls
     `closeChild`, which takes the parent's lock.
   * An `Unlink` (or a newer flush) in between is undone: the removed or
     older node is linked again.

5. **`repo verify` reports success after a timeout** (`repo.go:348`, a
   code bug).
   * When `--timeout` passes, `AllKeysChan` stops, and each worker's select
     may take `ctx.Done` and drop its message, a corrupt block's included.
   * `results` closes, `fails` is 0, and the command prints "verify
     complete, all blocks validated." having read few or none of the
     blocks.

Counterexamples met while modelling that have no run of their own (the
project keeps its runs to one per question; `PROJECT.json` lists them as
hazards):

* A keyed add of the empty file reads back as one block of padding bytes:
  `PKCS7UnPadding` keeps padding that is as long as the whole data.
* With `--nocopy` and a key, `ProcessFileStore` advances the offset by the
  ciphertext length, so every later offset drifts from the file.
* `BlockSizeLimit` is applied after encryption, so with a key a chunk of
  exactly `BlockSizeLimit` bytes is refused.
* A block stored by `HasBlock` while a `GetBlocks` call waits for it stays
  in the want list until the loop reads it (`bitswap.go:257`); spec §3 says
  a stored block is never wanted. `WantlistIsRemaining` and
  `ArrivalReachesCaller` check that the want goes with that read.
* `UnixfsAPI.Get` asserts `*mdag.ProtoNode` without a check and panics on
  a raw leaf (`ipfs cat` of a file added with `--raw-leaves`).

## Bounds and why they suffice

* **BitswapGet**
  * Two cids and two calls, with keys ⟨c1, c2⟩ and ⟨c1⟩, so that a key is
    shared and a call has two keys.
  * One peer and one network message (`MaxMsgs`) besides the local
    `HasBlock` of c1 for get_requests: c1 can arrive twice, and a receipt
    races a local add.
  * In get_requests, the peer holds c1 only. No one has c2, so r1 keeps
    waiting until its caller cancels or bitswap closes, which is the case
    `CloseEndsLoops` needs.
  * Every `Put` may fail (`PutMayFail`), so one receipt of c1 can fail
    while the other succeeds.
* **ProviderQuery**
  * For pq_safety, one GetBlocks call and one GetBlock started by
    `getBlocksOfProviders`, both searching c1, plus the rebroadcast
    worker; `addprovs` has capacity 1. For pq_close_hangs, the two calls of
    BitswapGet.
  * `findKeys` has capacity 1, so every sender can block, and the hang needs
    exactly a full channel.
* **ProvideQueue**
  * Two cids, with four hand-overs so that a cid repeats.
  * `newBlocks`, `provideKeys` and the semaphore have size 1, so each fills
    and `toProvide` grows to two entries.

* **EncryptedAdd**
  * Bytes of 2 bits and blocks of 2 bytes, so a chunk of one byte, two
    bytes, or none needs padding of every kind, including a full block.
  * Files of at most two chunks, with `BlockSizeLimit` 4 and `Maxlinks` 1,
    so a trickle node fills and a second layout step is taken.
  * Two user keys, so a wrong key exists.
* **MfsDir**
  * Two goroutines with three calls each, so a flush can straddle an
    unlink or a mkdir, and `GetNode` can race `ForEachEntry`.
  * At most two `Directory` objects for the name and one `AddChild` each,
    so a re-created directory and a newer node of the same one both exist.

* **RepoVerify**
  * Two workers and three blocks, so one worker can hold a block while the
    other takes the next, and one block is corrupt. The deadline and an
    `Emit` failure may come at any step.

The properties are about ordering and blocking, and those appear as soon as
a buffer is full. Larger capacities only delay the same interleavings.

## Fairness

Go schedules every runnable goroutine eventually, so the actions of a
goroutine that stays enabled are weakly fair. Sends on a channel that
several goroutines share are strongly fair: Go queues blocked senders FIFO,
so a sender that is enabled infinitely often gets through. In
`BitswapGet` the fairness is stated per goroutine: a GetBlocks call's own
steps (`LoopStep`), the caller's read of `out`, each receipt goroutine, the
network handler. The teardown gets no fairness: `WithTeardown` runs it only
after every child of the process has returned, and run pq_close_hangs
shows a worker that never does. It says nothing about which ready select
case Go picks, and nothing forces a `Put` to succeed or fail. This covers
`FindProvsRequest` and `RebroadcastSend`. `Provide` and searches end within
their timeouts, which makes `ProvideReturns` and `SearchDone` weakly fair.
Each shutdown trigger causes the other (`New` binds the process and the
context), which makes `CancelContext` weakly fair once closing, and `Close`
weakly fair once the context is done. Callers are not required to cancel,
and peers are not required to send. A GetBlock goroutine started by
`getBlocksOfProviders` calls `GetBlocks` at once, with the bitswap context,
and every select of the loop waits on that context: so `GetBlocks` and
`LoopEnds` once the context is cancelled are weakly fair for those calls.
The network's announcements get no fairness.

In `RepoVerify` every goroutine step is weakly fair: the runner, `Run`,
the closer, the workers and `AllKeysChan`'s goroutine. The deadline gets
no fairness, since it may never pass.

In `MfsDir`, goroutines inside a call keep running (weak fairness), and a
`sync.Mutex` is strongly fair: in starvation mode a waiter is granted the
lock after 1 ms of waiting, so lock-taking steps (`GetNodeChild`,
`CloseChild`, `ForEachEntryChild`) are strongly fair. Starting a call is up
to the caller and is not fair.

`CHECK_DEADLOCK FALSE` appears only in the ProviderQuery, ProvideQueue,
EncryptedAdd, MfsDir and RepoVerify cfgs.
* In ProviderQuery and ProvideQueue the process really stops after the
  teardown, and receipts are bounded. ProviderQuery also stops when the
  rebroadcast worker hangs, which run pq_close_hangs reports.
* In EncryptedAdd the behaviour ends after one add and one get.
* In MfsDir the goroutines stop after their calls.
* In RepoVerify the command ends.

## Not modelled yet, and the plan

* **TaskWorkers**: `taskWorker` ×8 over an engine outbox modelled from the
  spec. `ProviderQuery` lets them exit only.
* The number of `GetBlock` goroutines `getBlocksOfProviders` starts has no
  bound in the code. The model bounds the announcements, so it cannot
  show how many run, and no property is checked about them beyond their
  sends on `findKeys`.
* **Composition**: `BitswapGet` composed with `ProvideQueue` through
  `newBlocks`. This would show a receipt blocked on a full `newBlocks`
  delaying `ReceiveMessage`.
* **Get of files of several leaves**: the DAG reader over a balanced tree.
  `EncryptedAdd` reads back only one-leaf files; `LeavesAreFile` covers the
  leaves of larger ones.
* **Concurrent gets and `crypto.DecryptKey`**: `UnixfsAPI.Get`
  (`unixfs.go:201`), `get.go:113` and the tar writer (`writer.go:99`) write
  this global map without a lock. Two gets of large keyed files at once are
  concurrent map writes, which is a fatal runtime error in Go. The map's
  reader (`pbdagreader`) is not under `src/`, and `EncryptedAdd` runs one
  add and one get.
* **MFS**: files (`fd.go`), the root and `PutNode`; `MfsDir` has one
  directory with one child name.
  `AddUnixFSChild` is modelled without its switch of a large directory to
  a HAMT shard (`dir.go:385-395`), which does not touch the lock or the
  keys.
* **The other repo subcommands** (`gc`, `stat`, `fsck`, `version`): glue
  over corerepo and fsrepo, which are not under `src/`.
* Left out for good:
  * The CLI runner's parsing, help and printing, and the remaining
    coreapi glue, which are pure I/O.
  * The libp2p helpers, which only delegate.
  * Metrics and logging.
  * Blockstore errors other than a failed `Put` on receipt. The spec says
    nothing about the others.
  * The duplicate-receipt counters: `updateReceiveCounters` reads `Has`
    unordered with a concurrent receipt's `Put`, so two receipts of one
    block can both count as new; spec §9 accepts this race as benign.
  * The real AES block cipher, replaced by a bijection on small blocks.
