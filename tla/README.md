# A TLA+ model of ethers-opt

`ethers-opt` extends ethers.js: a `Provider` that aggregates contract calls into
Multicall3 requests, an `EthersBatcher` that runs large numbers of RPC queries in
rate-limited batches, a `ProxySigner`, and a set of helpers around them.  This
directory holds a model of the parts whose behaviour depends on the order of
events (timers, promise callbacks, answers and failures of requests), the runs of
TLC that check it, and proofs, checked by TLAPS, of the properties that matter
most.  Paths below are relative to the repository; `provider.ts` stands for
`src/provider.ts` of its package.

## 1. Inventory

| component | state | operations | hard because | correct when |
|---|---|---|---|---|
| Multicaller (`provider.ts` 390-488) | `multicallQueue`, `multicallTimer`, `multicallMaxCount`; per handle `id`, `called`, `resolved` | `_perform`, `_queueCall`, `_drainCalls` | drains overlap; a failing drain rejects the handles of all others; random ids | each caller is told the answer to its own call, once, and none is forgotten |
| Batch engine (`batcher.ts` 58-123) | group, sub-batches, retry counters, collected results | `createBatchRequest` | retries leave calls of the failed attempt in flight; a rejection leaves sub-batches running | results match inputs, groups do not overlap, tries are bounded |
| Ranges and rates (`utils.ts`) | none | `createBlockTags`, `chunk`, `range`, `createBatchRateConfig` | boundaries | ranges partition, limits hold and are tight |
| Fetch methods (`batcher.ts` 208-441) | options | `getEvents`, `findStorageKey`, `getBlocks`, ... | boundaries, reverse order | nothing asked twice, nothing left out |
| Network detection (`provider.ts` 163-245) | `staticNetwork`, `#network`, `ensResolver` promises | constructor, `_network`, `_detectNetwork`, `destroy` | promises raced with `destroy` and with each other | every use sees the network that was detected |
| Fees (`provider.ts` 257-309, `feeEstimator.ts`) | none | `getFeeData` | several concurrent requests, each may fail | the fields describe one fee policy |
| Transactions (`signer.ts`) | provider, auto-nonce and auto-value options | `populateTransaction`, `sendTransaction`, `connect` | nonce and balance are read long before they are used | no nonce twice, value covered by the balance |
| HTTP (`getUrl.ts`) | one request | `getUrlFunc` | answer, timeout and cancellation race | settles once |
| Storage (`idb.ts`) | one database handle | `openDB`, `putItem`, ... | version upgrades while others hold the old handle | an operation uses an open database |
| Browser wallet (`browserProvider.ts`) | signer, wallet's chain | `switchChain`, `getSigner` | the user may switch at any moment | the signer's chain is the one asked for |
| Block hashes (`blockHashes.ts`) | none | `fetchBlockHashes`, `compareBlockHashes` | head read once, hashes later | hashes of one chain |
| Traces (`traceBlock.ts`) | none | `traceBlock` | two concurrent reads of the latest block | block number and traces agree |
| ENS (`ens/eth.ts`) | resolver cache | `fromName`, `lookupAddress` | walk over parent names | forward and reverse agree |
| Proofs (`prover/verifyProof.ts`) | none | `verifyERC20Proof`, ... | proof and value read at different blocks | both describe one block |
| Hardhat tooling (`hardhat/`) | files | compile, flatten, fixtures | concurrent file writes | one result per contract |
| Everything else (`multicall.ts`, `permit.ts`, `price.ts`, `events.ts`, `typechain/`) | none | one request each, or generated code | - | - |

The components meet as follows.  A call made through a contract object reaches
`Provider._perform`; the Multicaller either hands it to `super._perform` or queues
it, and its own aggregate call passes through `_perform` again.  `EthersBatcher`
calls the provider once per input.  The signer reads nonce, balance and fees
through the provider, and the test fixtures switch aggregation off and on by
writing `multicallMaxCount` while calls may be queued.  `getUrl` is below all of
them: the only thing the upper layers rely on is that each request ends.

## 2. Modules

| module | models | built on |
|---|---|---|
| `CallService` | what `Provider.call` promises (abstract) | - |
| `Multicaller` | the queue, timer and drains of `provider.ts` | refines `CallService` |
| `Batcher` | `createBatchRequest` | - |
| `Utils` | ranges, chunks, rates, the search of `findStorageKey`, the walk of ENS `fromName` | - |
| `Transactions` | `populateTransaction`, `sendTransaction`, `getFeeData`, `getL1Fee` | - |
| `HttpRequest` | one request of `getUrlFunc` | - |
| `ProviderNetwork` | `staticNetwork`, `_detectNetwork`, `destroy` | `EXTENDS HttpRequest` |
| `BrowserWallet` | `BrowserProvider`'s constructor, `getSigner`, `switchChain` | `EXTENDS ProviderNetwork` |
| `Chain` | the chain behind the node, which grows and is reorganised | - |
| `BlockHashes` | `fetchBlockHashes`, `compareBlockHashes` | `EXTENDS Chain` |
| `BlockProofs` | `traceBlock`, `verifyERC20Proof`, `verifyChainlinkProof` | `EXTENDS Chain` |
| `ChainReads` | the two together on one chain | both |
| `ItemStore` | what the writing methods of `idb.ts` promise (abstract) | - |
| `Storage` | `idb.ts` in several tabs | refines `ItemStore` |

`MCMulticaller`, `MCBatcher`, `MCUtils`, `MCTransactions`, `MCBrowserWallet`,
`MCChainReads` and `MCStorage` only give values to constants.  The theorems are in
modules of their own, named after the module they are about and `Proofs`;
`MulticallerServiceProofs` has those about `Multicaller` and its refinement that need
`MulticallerProofs` first.  Definitions
whose comment begins with "Mutant:" are not part of the model.  Each is a plausible bug
in the definition that follows it and shows, when it takes that definition's place, that
some property notices it.

JavaScript runs one callback at a time, so each action of each module is the code from
one `await` or event to the next.

### Multicaller

`CallService` is the abstract specification of `Provider.call`: a call is invoked
once and settles at most once, with its own answer, read at a block the chain
reached while the call was pending (or at the block the caller pinned), or with an
error.  It knows no queue and no timer.  Several calls may settle in one step,
because the code hands out the results of an aggregate in one callback.

| action of `Multicaller` | code |
|---|---|
| `QueueCall`, `DirectCall` | `_perform` up to `_queueCall`'s push, or up to `super._perform` |
| `DirectAnswer` | the node answers a call that was not aggregated, or the request fails |
| `TimerFires` | the timer's callback: `_drainCalls` marks the handles and starts the chunks |
| `TimerFiresDisabled` | the same with `multicallMaxCount` 0: `chunk(queue, 0)` throws and the catch block runs at once |
| `SendChunk` | `sleep(40 * chunkIndex)` ends; the aggregate passes `_perform`'s test |
| `NodeAnswers` | the node evaluates the chunk at its latest block |
| `ChunkResults` | `results.forEach`: each result goes to the handle found under its id |
| `ChunkFails` | the aggregate call rejects; the first to do so makes `Promise.all` reject |
| `DrainFinishes` | all chunks are done; resolved handles are dropped |
| `DrainCatches` | the catch block: every handle in the array is rejected, then dropped |
| `SetMaxCount` | `hardhat/fixtures/index.ts` writes the public field |

The array is represented by the set of the calls in it and the number of each push:
`filter` never reorders, so the numbers determine the order.  A handle is named by
its call, as each call pushes at most one; its random `id` is a separate attribute,
drawn from `Draws[c]`, so that collisions can be modelled (they are, in one run) or
excluded.  Calldata and return data are abstracted to "the answer of call c at block
h".  The history variable `executions` counts evaluations on the node.

### Batcher and Utils

`Batcher` models `createBatchRequest`: one action for a sub-batch that wakes up, one
for a call that resolves, one for a call that rejects, one each for the retry, for
giving up, for the end of a group and of the pause between groups.  A call of
`outputFunc` is a record of its input and attempt, so that calls of an abandoned
attempt stay in flight, as they do in the code.  Durations are left out, and what
sleeps guarantee is kept: the sub-batches of a group start in order.

`Utils` states the arithmetic as functions and checks it against reference
definitions; a step is one call with arguments from small sets.  `fromName` of
`ens/eth.ts` is there too: it walks from a name to the nearest parent that has a
resolver, and asks whether that resolver supports wildcards.

### Transactions

Several sends of one account overlap, and may share the caller's object, which
`populateTransaction` fills in place.

| action | code |
|---|---|
| `Begin`, `WrongSigner` | up to `Promise.all`: `from` is set, and the missing fields decide what is read |
| `ReadNonce`, `ReadBalance` | replies that depend on the moment: `getTransactionCount('pending')`, the balance at the latest block |
| `ReadFails` | any of the reads rejects; the object keeps what it has |
| `Fill` | after `Promise.all`: fees, nonce, chain, value of an emptying transaction; straight to the end if there is a gas limit |
| `Estimated`, `EstimateFails` | `estimateGas` answers (30 % are added, except to a plain transfer) or rejects, with `gasLimitFailover` or without |
| `Broadcast` | the parent signer sends the copy; the node accepts it or names the nonce or the funds as the reason not to |
| `Mine` | the node mines the oldest waiting transaction |

Fees do not depend on the moment, so their reply is chosen where it is used, in `Fill`:
`getFeeData` with either of its calls failing (`FeeData`), `WithFees` for the branch on
`maxFeePerGas`.  `opGasPriceOracle` is optional on every chain (`setting.oracle`): without
it the fee of the first layer counts as 0, whatever the chain charges.  Amounts are
integers; `Truthy` keeps JavaScript's treatment of zero, which matters for an explicit type
0 and for balances of zero.  The node refuses a nonce other than the next one and a cost
above what the waiting transactions leave (`free`, while `balance` is that of the latest
block, which the code reads).

### HttpRequest, ProviderNetwork, BrowserWallet

Three layers that extend one another, the way the code nests them: the wallet's
constructor asks the application's provider for `_network`, which that provider learns
by a request of its own, made by `getUrlFunc`.

- `HttpRequest`: `SendRequest` (with the check of 'cancelled before sending', which is
  made only if there is a timeout), `Headers` and `Body` (`fetch`, `arrayBuffer`),
  `ConnectionFails`, `TimerFires`, `Cancel`, `AbortRejects`.  ethers calls the listeners of a
  cancelled signal by a timer of 0 ms: `Listener` is a step of its own, and the answer may
  come first.
- `ProviderNetwork`: `GivenNetwork`, `HardhatNetwork` and `Detected` are the three
  branches of `staticNetwork`; `GetNetwork`, `NetworkTold` and `NetworkRefused` are a
  call that awaits `_detectNetwork`; `Send`, `Bootstrap`, `Dispatch`, `Answered` and
  `Destroy` are ethers' queue, bootstrap loop and `destroy`, modelled from how
  `provider.ts` relies on them (external).  The queue is drained by a timer whether or not
  the loop has learned the network, so that `Dispatch` does not wait for it.
- `BrowserWallet`: `Build` (the constructor throws while `_network` does), `GetSigner`,
  `ReadAccount` and `ReadChain` (the two concurrent reads), `Compare`, then `Switched`,
  `UnknownChain` and `Added` of `switchChain`.  `Declined` and `UserSwitches` are the
  user's.

### Chain, BlockHashes, BlockProofs

A block of `Chain` is the number of the reorganisation it came with and one value of the
state that is read: two blocks of one height have the same hash exactly if they are the
same block.  `NewBlock` and `Reorg` may come between any two requests.  `kind` fixes
which call a behaviour is about, so that the combinations do not multiply.

- `BlockHashes`: `ReadHead`, then for each block of the window `ByContract` (BLOCKHASH
  through Multicall, which knows neither the latest block nor those beyond 256) or
  `ByBlock` (the node's block; ethers counts negative numbers from the head), and
  `FetchReturns`.  The first of two fetches is compared with the second.
- `BlockProofs`: `ReadBlock` and `ReadTraces` are the two concurrent requests of
  `traceBlock` (a block given as a JavaScript number is not asked for, one given as a
  bigint, a hexadecimal string or a hash is); `ReadNumber`, `ReadValue`, `ReadRoot` and
  `ReadProof` those of the proofs, with the order the awaits impose; `ProofReturns`
  compares.  In place of hashing there is what a Merkle proof shows: the state root it
  belongs to and the value stored.

### Storage

The tabs of one application share a database; they run one version of it or two.
`opens[t]` numbers the runs of `openDB` in a tab, and `db[t][k]` is what run k resolves
with: `this.db` is always the last one, while callers still await an older one.  `Load`
is the constructor, `VersionError` and `Delete` the reset of a newer database (`deleteDB`
and the second `openDB`), `CallDelete` the public `deleteDB`; `Open`, `Upgrade` and
`OpenFails` are the other outcomes of `openDB`; `Close` ends a tab or crashes it, whose
requests the browser then drops when their turn comes (`Discard`).  A
method is `Call` (it awaits `this.db`), `Drop` (`if (!db) return`), `Begin` (the
transaction, with `addItem`'s lookup in it) and then one of `Found` (`addItem` has nothing
to add), `Refuse` (the request fails), `Write`, or `PutOne` and `PutsEnd` for a list.  The
method has then returned, but for `createTransactions`, which alone awaits `tx.done`; its
transaction ends by `Commit` or `Abort`, which are the browser's.  `before` is what was
stored when the transaction began, and what an abort or the end of the tab brings back.
The browser, which serves the requests for a database in order, lets a deletion or an
upgrade wait for the other connections, and runs readwrite transactions one after the
other, is external.

`ItemStore` is the abstract specification of the methods that write: each acts on the
store at one moment after its call, or not at all, and that moment may come after the
method has returned; only once `createTransactions` is done it has come.  `addItem` adds an
item exactly if none is there under its key at that moment, in a store with a `keyPath`; in
one without nothing is promised of it (section 5).  Its `Wipe`, an upgrade or a reset,
happens only while no method is at work.

## 3. Runs

| run | bounds | what it shows |
|---|---|---|
| `multicaller` | 4 calls, one of them pinned, one of them reverting; `multicallMaxCount` in {0, 2}; failing requests; `allowFailure` off; 2 blocks | `TypeOK`, `NoLostCall`, `SentOnce`, `NoLeak`, and the refinement of `CallService` |
| `multicaller_live` | 3 calls, fairness, `allowFailure` on | `EverySettles` |
| `multicaller_collisions` | 3 calls that may draw equal ids, reliable requests, `multicallMaxCount` in {1, 2} | calls with an id of their own get their own answers, whatever ids others share (`OwnAnswer`); with `allowFailure` a reverting call rejects nobody |
| `multicaller_overrides` | as `multicaller` | a call with a gas override is aggregated (section 5) |
| `batcher` | 7 inputs: two groups of two sub-batches of two, the last one short; one retry; pauses | results match inputs; groups never overlap, not even after a rejection; tries are bounded; nothing is ever stuck, each step uses something up, and everything stops |
| `batcher_retries` | 1 input, `retryMax: 0` | two retries happen (section 5) |
| `utils` | every call with arguments from small sets; 6 names | the reference definitions hold, outside the cases of section 5 |
| `transactions` | 2 sends, 2 objects, 6 ways to build an object, 4 chains, an oracle or none | fees of one scheme; a lone send's nonce fits; a retry executes once; emptying is affordable, given the oracle; `txCost` bounds the charge the signer can know of |
| `chain_reads` | chains of 2 and 5 blocks, 2 new blocks, 1 reorganisation, windows of 3 | reorganisations are reported and no other block below the head; traces name their block, as far as the kind of tag allows; proofs are sound, and those read at the head are found |
| `browser` | 2 calls, 1 `getSigner`, three ways of construction | cancelled requests are aborted; once a wrong chain is found it serves no call; calls are never stuck, use up what is left to do, and end; the signer is on the app's chain |
| `storage` | 2 tabs of versions 1 and 1, or 1 and 2; a database of version 2; 2 calls | the methods refine `ItemStore` (one moment each, or none); nothing is dropped but early calls; a call is held by other connections only, and ends once the other tabs are closed |
| `provider_static_network` | as `browser` | `getNetwork` succeeds and `_network` throws (section 5) |

### Bounds, and why they suffice

`multicaller`: three queued calls with two to a chunk give a drain of two chunks, one of
them short, or two or three drains that overlap; the pinned call goes past the queue.
`multicallMaxCount` 0 and 2 give every order of switching aggregation against queueing
and firing.  Two blocks tell an answer evaluated while the call waited from a stale one.

`batcher`: two sub-batches per group are enough for one to fail while the other sleeps,
runs or retries, and the second group for the barrier.

`utils`: `RangesPartition` bounds a range by `batchSize` unless the query has
`batchSize + 1` blocks, and leaves `toBlock` 0 out, both disagreements of section 5.  The
sets hold the values on both sides of every boundary (equal to, one below,
one above the batch size; zero; reversed intervals), and names with the resolver at each
distance.

`transactions`: two sends overlap in every way or follow one another, with one object or
two.  The objects are one with no fields, one that empties the account and leaves fees to
the signer, one that empties it with a gas price and limit of its own, one with its own
fees, one with an explicit type 0 and a priority fee, and one of another signer. The chains
have base fees (lower and higher than the node's tip), none, an L1 fee (with the signer's
oracle or without it), or are Hardhat's.  Numbers are small (a balance of 200, gas limits of
3 to 9) but on both sides of each comparison; percentages divide as the code's do.

`chain_reads`: the constants are scaled down in proportion: 100 recent blocks to
`Recent = 2`, the 256 of BLOCKHASH to `EvmWindow = 4`, a depth of 80 to `Depth = 3`, so
that a window has blocks on each side of each limit; chains of 2 blocks are shorter than
the window.  `MaxGrown` and `MaxForks` bound the chain's steps: a block and a
reorganisation between any two requests, in any order.

`browser`: one call can fail and empty the queue in which the other waits.  One
`getSigner` suffices for the model, as the proof covers any number.

`storage`: the database is of version 2, newer than the tabs' in one deployment and than
one of them in the other, which is the case in which a reset happens; two calls compete
for one key.  `MaxOpens = 3` runs of `openDB` in a tab guard `Delete`, and only a tab that
calls `deleteDB` itself reaches the bound, a tab that `Alone` excludes.

`CHECK_DEADLOCK FALSE` appears where the system really stops: each call is made
once, a batch request ends, a function returns.

### Fairness

- `Multicaller`: weakly fair to the timer, to the steps of chunks and drains and to the
  answers of direct calls: an armed timer fires, the event loop runs every ready
  callback, and every request ends, because `getUrlFunc` and, without it, ethers'
  `FetchRequest` have a timeout after which they reject.  Nothing obliges the program to
  make a call, to switch `multicallMaxCount`, or the chain to advance.
- `Batcher`: weakly fair to sleeping sub-batches, to the calls in flight and to the main
  loop, for the same reasons.
- `BrowserWallet`: weakly fair to the library's own steps (sending, the timer, the
  rejection of an aborted request), to learning the network and to serving calls, and
  not to the server: that a stalled server does not stall the callers is `EveryCallEnds`,
  and it rests on the timer that goes on until the body is there.  The user owes nothing.
- `Storage`: the browser serves requests that are not blocked, and transactions.  Nobody
  need close a tab, so that `EndsWhenAlone` speaks of the tabs that are left alone.

## 4. Proofs

The proofs assume `ConstantsAssumption`, `BatcherAssumption`, `NetworkAssumption`,
`ChainAssumption`, `BlockHashesAssumption`, `BlockProofsAssumption`,
`TransactionsAssumption`, `StorageAssumption` and `UtilsAssumption` only, which TLC
evaluates in the runs; anything more a theorem needs is part of its statement.  None of the
properties below is inductive, so each rests on a stronger invariant.

### Multicaller

For any finite set of calls, any requests, draws and limits:

| theorem | states |
|---|---|
| `TypeCorrect` | `Spec => []TypeOK` |
| `AnswersAreOwn` | `Spec => []OwnAnswer` |
| `NoCallIsLost` | `Spec => []NoLostCall` |
| `RevertsAreIsolated` | `Spec => []RevertIsolated` |
| `CallsAreSentOnce` | `Spec => []SentOnce` |
| `QueueDoesNotLeak` | `Spec => []NoLeak` |
| `MulticallerIsCallService` | `Spec => ImplementsCallService`, when draws for different calls are disjoint (`DistinctDraws`) |

The invariant is `Sound`: `TypeOK`, `OwnAnswer`, `NoLostCall` and

- `Bookkeeping`: a call with a handle was made and is not pinned; a direct call waits and
  has no handle; handles in the array or marked were pushed; a handle marked resolved has
  settled its promise; a call was made at a block the chain has reached;
- `ChunksSound`: the calls of a chunk have handles, and an answered chunk was evaluated
  at a block between the invocation of each of its calls and the head.

`ChunksSound` is what makes `OwnAnswer` hold when results are handed out: the answer of
an aggregate is as fresh as the chunk that carried the call.  `NoLostCall` needs the
arithmetic of `chunk`: `EveryCallInSomeChunk` and the lemmas around it show that each
of the handles a drain marked is in one of its chunks.  There is one lemma per action,
and `Sound` is preserved by each of them whatever ids others draw, for the calls whose
id is their own.

`SentOnce` and `NoLeak` need to know where a handle may be, and `SoundOnce` adds it:
`PlacedOnce` (an unmarked call is in no chunk, a marked one in at most one, and the node
has seen it only if that chunk is answered) and `Released` (an ended drain has none of
its calls left in the array, and a settled handle in the array has a drain to come).
`RevertIsolated` is proved from `Unharmed`, which says that no drain fails and is
inductive when nothing but calls can fail (`Calm`).

The refinement maps the invoked calls and the outcomes to themselves; the queue, the
timer, the drains and the chunks are hidden.  Pushing a handle is `Invoke`; handing out
results, rejecting the array and the answer of a direct call are `Settle` of the set of
calls they settle; all else stutters.  That what is handed out is a settlement
`CallService` allows follows from `ChunksSound`.

### Batcher

For any number of inputs and any options: `BatcherTypeCorrect`, `GroupsDoNotOverlap`
(`GroupBarrier`), `OutputsMatchInputs` (`ResultsMatchInputs`), `TriesAreBounded`
(`TriesBeforeReject`) and `AwaitedIsBounded` (`AwaitedBound`).  The invariant is
`BatcherSound`: `TypeOK`, `GroupBarrier` and

- `Tries`: the calls issued for an input are the failed attempts of its sub-batch, and
  one more while the attempt runs or after it succeeded;
- `Answers`: a sub-batch under way holds answers of its current attempt only, and one
  that is done holds them all;
- `Collected`: the results are those of the inputs of the finished groups, which form
  an interval from the first input on, since division keeps order;
- `MainLoop`: the main loop pauses or returns only after a complete group, returns only
  after the last one, and is rejected only if some sub-batch gave up.

`AwaitedBound` then counts: the awaited calls are distinct inputs of the current group
(`GroupBarrier`), and a group is an interval of at most `concurrencySize * batchSize`
inputs (`GroupSize`).

Three more theorems are the safety part of `SettlesAndStops`.  `BatcherNeverStuck`
(`NeverStuck`) says that a request that is not over has a step to come, after a rejection
too.  `BatcherRunsOut` (`StepsRunOut`) says that each step takes something from `Left`, the
set of the attempts, calls, sub-batches and groups that are still ahead, and puts nothing
back; `LeftIsFinite` that this set is finite.  So no behaviour goes on for ever, and what
the liveness property adds is that the event loop does run the steps that are there.  They
rest on `Underway`: a sub-batch that waits lacks an answer whose call is in flight, only a
failed one gave up, which rejected the request, and those of the current group have started.

### Transactions

For any number of sends and objects, any settings, fees, estimates and replies:

| theorem | states |
|---|---|
| `ObjectsTyped` | `Spec => []TypeOK` |
| `LoneSendFits` | `Spec => []LoneNonceFits` |
| `RetriesExecuteOnce` | `Spec => []RetryIsIdempotent` |
| `FeesOfOneScheme` | `Spec => []FeesConsistent`, under `OneScheme` |
| `TxCostCovers` | `Spec => []TxCostBounds`, under `Uncosted` |
| `EmptyingIsAffordable` | `Spec => []EmptyingIsCovered`, under `FeeWithCost` |

Nonces need `SendInv`: beside the types, `StepsFit` (what a send has read fits the point it
is at), `Overlaps` (the history of overlaps is symmetric and complete for running sends),
`LoneNonce` (the nonce that a send without overlap holds is the next one), and
`ObjectNonce` and `UsedNonce` (an object that was accepted keeps a nonce below the
number of accepted transactions, which is why a retry is refused).

Fees need `FeeInv`: an object with fees is consistent, one without has no type other than 0,
and a send that is past `Fill` finds fees in the object, its own or those another send
wrote over them.  `OneScheme` says what the code does not check: the caller's objects do
not contradict themselves, a type 1 or 2 comes with fees, and the chain has base fees or
has none.

Costs need `CostInv`: in an object no two sends of which overlap, a `txCost` stays with the
fees and the gas limit it was computed from.  What it covers of the fee of the first layer
is what the signer can know (`KnownL1`): all of it with an oracle, nothing without.
`Uncosted` says that the caller leaves `txCost` and `l1Fee` to `populateTransaction`.

Emptying the account needs `EmptyInv`: of a send that overlaps no other (`Affordable`), as
long as it runs, the balance it read is what is left, unless transactions waited when it
read it; the price and the L1 fee it reckons with are no less than those of its object; and
so the value it sends, reckoned with the gas of the estimate, costs no more than what is
left (`RestIsCovered`), where the L1 fee is known or there is none.  `FeeWithCost` excludes
an object that comes with an `l1Fee` but without a `txCost`: the code then empties the
account as if there were no first layer.

### The provider and the wallet

For any set of calls and signers, `BrowserSound` is `HttpSound` (a cancelled request with a
timeout that is in flight is aborted, or its listener is about to be called), `NetworkSound`
(what is known was held against the configuration, and once a call was refused the network
the provider is destroyed and its queue empty) and `WalletSound` (as long as the user does
not interfere, a wallet found on the app's chain stays there: other signers only switch it
to there).  It gives the action properties `CancelledAreAborted` (`CancelledIsAborted`),
`WrongChainsAreLeft` (`WrongChainIsLeft`) and `SignersAreOnAppChain` (`SignerOnAppChain`).
The last one leaves out what the code does not check: a switch by the user after the chain
was read, and a wallet that stays where it was after the app's chain was added to it.

`NoCallIsStuck` (`CallsNeverStuck`) and `CallsComeToAnEnd` (`CallsRunOut`) are the safety
part of `EveryCallEnds`: while a call is under way there is a step that is sure to come (the
request's timer, the bootstrap loop, an answer), and each step of the provider takes
something from what is left to do.  The first needs `Ongoing`: a request in flight that has
a timeout has its timer armed or is aborted, and a queued call has a loop that will come to
it, which a provider that was destroyed no longer has.

### Reads of a moving chain

For chains of any length, growth and number of reorganisations and windows of any depth:

- `ReadsInv` gives `TracesNameBlock` (`TracesNameTheirBlock`), `ProofsAreSound`
  (`ProofIsSound`) and `ProofsAreFound` (`ProofIsFound`, for calls that read number and
  value by themselves or are given the head's number).  It is `ChainSound` (blocks come
  with a reorganisation that happened), `CallSound`, `TraceSound` (what each kind of tag
  fixes of the block in a reply), `ReadsSound` (what a
  reply says holds for the block it names), `ReadsFresh` (if the clock still shows the
  time of the call, the replies are those of the chain as it is) and `Ends`.
- `HashInv` gives `ReorgsAreReported` (`ReorgIsReported`) and `AlarmsAreTrue`
  (`NoFalseAlarm`).  A fetch that saw no reorganisation is `Faithful`: below its head it
  holds the hashes of the chain as it returned.  `SameBlocks` says that of two chains, one
  later than the other, blocks of one height and one reorganisation are the same block,
  and `Ordered` that the second fetch has the later chain.  The theorems assume
  `StaysInSight`: the chain does not grow so much that a block counted as recent leaves the
  reach of BLOCKHASH before it is asked for (157 blocks with the code's numbers).
  `compareBlockHashes` chooses the least
  differing block; that there is one is `LeastInteger`, from the well-foundedness of the
  order on a finite set, without induction.

### Storage

For any number of tabs, versions, calls and keys:

| theorem | states |
|---|---|
| `ItemsAddedOnce` | `Spec => []AddsOnce` |
| `DropsAreEarly` | `Spec => []DroppedInResetOnly` |
| `StorageIsItemStore` | `Spec => ImplementsItemStore` |
| `WaitsAreForOthers` | `Spec => []HeldByConnections` |
| `ResetsComeToAnEnd` | `Spec => ResetsRunOut` |

- `StorageInv` has `OneWriter` (only the writer is inside a transaction), `LookupHolds`
  (what `addItem` did not find is still not there when it writes) and, for a store with a
  `keyPath`, `Sound` of `items` and of `before`: one item to a key, and none that JavaScript
  takes for false, so that an aborted transaction brings nothing back that `addItem` would
  overlook.
- `DropInv` has `Promises` (the last run of `openDB` resolves without a database only in a
  tab that could not open it) and `Waiting` (a call that was not early awaits a run that has
  its connection, and which no reset changes any more).
- `WaitInv` has `OneRequest`: a tab that never called `deleteDB` itself has exactly one
  request with the browser while its `openDB` runs, and no connection then; and promises of
  earlier runs settle no later than the last one.  Without it a promise might stay pending
  with nobody at work on it.  `HeldByConnections` follows: if no other tab is connected,
  the request at the head of the queue can be served.
- `StoreInv` has `AtWork`: a method within its transaction is connected, so that an upgrade
  or a deletion, which waits for all connections, never comes before its end, and `items` is
  what it has made of `before` up to its step (`Progress`).  This is what lets a lookup and a
  write, or the puts of a list, count as one moment, that of the commit.

The refinement maps the store to what is committed (`Saved`: `before` while a transaction
runs), the calls within a transaction to those that are asked, and how a method ended to its
outcome; it hides promises, connections, requests and versions.  `Begin` is `Ask`; `Found`,
`Write` and `PutsEnd` are `Return`; `Refuse` is `Refuse`, `Commit` is the method's act,
`Abort` is `Lose`, `Close` is `Abandon`, `Upgrade` and `Delete` are `Wipe`, `Drop` is
`Ignore`; `PutOne` and all else stutter.  In a tab
that is left alone `ResetsRunOut` has each step of the browser lessen `ToServe`, a natural
number: it is the safety part, with `HeldByConnections`, of `EndsWhenAlone`.

The queue of requests keeps those of closed tabs until they reach its head.  The recursive
`SelectSeq`, which would remove them at once, cannot be reasoned about without induction,
and no call can tell the difference.

### Ranges, chunks, rates and names

For any block numbers, sizes, rates, delays, storages and names: `RangesAreExact`
(`RangesPartition`, for `createBlockTags` and for the ranges `getEvents` makes, with the
exceptions named in section 5),
`ChunksAreExact` (`ChunksPartition`), `RatesAreTight` (`RateIsTight`), `SearchFindsFirst`
(`FindsFirst`) and `NamesResolveNearest` (`NearestResolver`).  A step of `Utils` is one
call, so that no invariant is needed, but arithmetic is: `Quotient` and `Multiples` are the
facts of division and multiplication that all of them rest on, `Pieces`, `Ascending` and
`Descending` say what a list of ranges is, and the search for a storage slot ends at a least
number of a set of batches.

The walk of `fromName` over the parents of a name stops at the least distance at which there
is a resolver or no name is left.  `NextStopValue` and `WalkEnds` describe it by that least
number, which exists because the numbers are well-founded, so that no induction is needed.
The proof also showed that the model's first `fromName` was a CASE whose arms overlapped, so
that its value rested on an order of the arms which TLA+ does not define; the arms now
exclude one another.

### Model-checked only

Liveness, which is outside this prover's reach as fairness and ENABLED are: `EverySettles`,
`SettlesAndStops`, `EveryCallEnds`, `EndsWhenAlone`.  Of the last three the safety part is
proved: something can always happen, and it cannot go on for ever.  That it does happen is
fairness.

## 5. Where the code and its documentation disagree

- `README.md` line 29 says that calls with additional override params are not
  aggregated.  `_perform` looks at `from`, `to`, `value` and `blockTag` only, so that
  a `gasLimit` override is silently dropped (`OverridesGoDirect`).
- `batcher.ts` line 159 documents `retryMax` as the number of retries, but
  `params.retryMax || 2` turns an explicit 0 into 2 (`RetriesAsAsked`).
- `provider.ts` line 228 says that `_network` gets the detected or static network, but it
  is set where a network is detected only: with a `network` argument or a
  `hardhatProvider` it throws for ever (`NetworkIsAvailable`).

Noted while modelling and not stated as findings; the model has what the code does:

- Ranges: `toBlock - fromBlock > batchSize` leaves a query of `batchSize + 1` blocks in one
  piece (`utils.ts` 74), although line 61 documents `batchSize` as the number of blocks per
  batch.  `getEvents` takes `toBlock` 0 for absent and fetches up to the latest block
  (`batcher.ts` 349).  `RangesPartition` holds of all other queries.  A reversed
  `findStorageKey` walks the ranges backwards and each range forwards, so it finds neither
  the first nor the last slot.  A delay below a second is budgeted as a whole second.
- Multicall: a lower-case `multicall` address option differs from the checksummed `to` that
  `_perform` compares it with.
- Fees: the averages of `formatFeeHistory` for slow and medium are swapped.  An explicit
  type 0 becomes 2 on a chain with base fees; types 1 and 2 on a chain without them get a
  `gasPrice` and keep the type.
- Transactions: without an `opGasPriceOracle` on a chain with an L1 fee (`signer.ts` 91) the
  value of an emptying transaction leaves nothing for that fee, so that the node refuses it,
  and `txCost` omits it: `EmptyingIsCovered` and `TxCostBounds` say what the signer can
  know.  `gasLimitFailover` does not cover the estimate of an emptying transaction;
  an `l1Fee` that the caller gives counts as 0 in its value; overlapping sends of one object
  may leave the `txCost` of one with the gas limit of the other; on Hardhat, where the
  object keeps no nonce, sending it again executes it again.
- HTTP: a cancelled request may still be answered in the moment before ethers calls the
  listener (`getUrl.ts` 46-48): nothing after `fetch` looks at the signal again.
- Network: ethers sends what is queued without waiting for the network, so that calls that
  do not ask for it may be answered by a node of the wrong chain before it is found out.
- Traces: `traceBlock` spares the request for the block for JavaScript numbers only
  (`traceBlock.ts` 64).  One named by a bigint or a hexadecimal string is fetched beside its
  traces, and a reorganisation in between names a block that was not traced.
- Block 0: `traceBlock(0)`, `getBlockReceipts(0)` and `getProof` at block 0 use the latest
  block.
- Block hashes: the head of the earlier fetch may be reported as replaced, as its hash came
  from a contract that did not know it (`blockHashes.ts` 68).
- Proofs: `verifyERC20Proof` with an explicit past `blockNumber` and no balance compares
  the balance at the latest block with the proof of the past one (`verifyProof.ts` 85).
- Storage: only `createTransactions` awaits `tx.done` (`idb.ts` 217); the other methods
  return before the commit, which may fail unheard.  `createMultipleTransactions` that fails
  in the middle of its list leaves what it put before, which is committed.  `addItem` finds
  a key in a store without a `keyPath` but adds without it, so the item is added again
  although line 110 says that it is added "only if key is new", and takes a stored 0, '',
  false or null for absent (line 123); the model assumes that the data of a store with a
  `keyPath` carry the key that is looked up; `deleteDB` called by the application waits for
  its own connection; the `onupgradeneeded` listener never fires.
- Wallet: `BrowserProvider` cannot be constructed until the app's provider has detected its
  network; `getSigner` registers its listeners anew on each call.

## 6. Not modelled

- `formatFeeHistory`: averages that nothing in `src/` reads.
- `events.ts`, `multicall.ts`, `permit.ts`, `price.ts`, `getStorageAt`, `traceTransaction`,
  `getBlockReceipts`, `lookupAddress` and `getText`: one request each, or requests in
  sequence, and a conversion of the reply; no state.
- Hashing and Merkle verification (`prover/`), name hashing, formatting helpers: what they
  show is used, how they compute it is not.
- `hardhat/`: build scripts over the file system, whose order the operating system decides;
  of the fixtures, the switching of `multicallMaxCount` is modelled.
- The reading methods of `idb.ts`: a readonly transaction changes nothing.
- `typechain/`, `typechain-hardhat/`, `lib/`: contract bindings generated by a tool (about
  18 000 lines) and three bundles of the same sources written by the build (about 17 000
  lines).  What is written by hand is about 3 700 lines, so that the model covers a small
  part of the repository's lines and most of its logic.
- ethers' own cache of identical calls, which sits above `_perform` and only merges calls
  before the model sees them; transports other than HTTP.
