# A TLA+ model of the TTCHAIN 2.0 node

TTCHAIN is a C++ blockchain node derived from BitShares 1.0. Its chain of
blocks was replaced by a DAG: every *seed* node with an enabled delegate
produces blocks of its own, a block names all the tips its producer knew as
parents, and every node executes a block as soon as all its parents are stored.
This project models that core, the way blocks travel between nodes, the way
transactions get into blocks and what their execution does to the state and to
the money in it, checks it with TLC on small instances, and proves its central
invariants with TLAPS for all instances. Paths below are relative to
`src/src/Chain/libraries/`.

## 1. Inventory

| Part | State | Operations | Hard behaviour |
|---|---|---|---|
| Block DAG store, `blockchain/ChainDatabase.cpp` | full blocks by id with their child lists, number -> id index, last number per producer, head slot, extend status (all separate level databases) | `push_block`, `set_block_parents`, `update_last_index`, `update_head_block`, `extend_chain`, `repair_database` | several databases written one after the other; exceptions and crashes in between; blocks in any order |
| Delegate loop, `client/Client.cpp` `delegate_loop` | `generating_block`, the idle counter | `generate_block`, `generate_empty_blocks`, push, broadcast | yields between two blocks whose numbers are already fixed; no exception handler |
| Block relay and sync, `client/Client.cpp` | `is_syncing`, `in_process_sync_reply`, `sync_counter` | `handle_message`, `on_new_block`, `on_sync_request_message`, `on_sync_reply_message`, `sync_loop` | flags read before and written after a yield; blocks dropped during a reply; asynchronous tasks |
| p2p transport, `net/Node.cpp`, `net/PeerConnection.cpp` | `_pending_messages`, one queue per peer | `broadcast`, `send_to_addr`, `advertise_inventory_loop` | a second thread; direct sends overtake broadcasts; connections break |
| Transaction pool, `ChainDatabase.cpp` | persistent pending database, in-memory fee index and overlay, sending states | `store_pending_transaction`, `clear_pending`, `revalidate_pending`, retransmission | asynchronous revalidation; crash; stale snapshots; several seeds |
| State layers, `PendingChainState.cpp` | what differs from the state below: entries stored, ids removed | lookups, `store`, `remove`, `apply_changes` | layers on layers; contract entries and storage share their removed ids; layers that outlive what they lie on |
| Ledger, `TransactionEvaluationState.cpp`, `*Operations.cpp`, `pay_delegate` | balances, supplies, fees, accounts of delegates, an index of votes in memory | one evaluator per operation, `post_evaluate`, `pay_delegate`, `AccountEntry::store` | rounding; a balance that may be negative for a while; votes kept in three places; exceptions in the middle of a block |
| Smart contracts, `ContractOperations.cpp`, `glua/` | contract entries and storage | registration, upgrade, destruction, storage, Lua VM | requests that lead to results; a full interpreter |
| Wallet, `wallet/` | keys, labels, scanned transactions | RPC commands | mostly sequential |
| Status nodes, `client/Client.cpp` `status_loop` | master, leases for wallet unlocking | status messages | none that matters: no lease is ever requested |
| RPC, CLI, utilities | - | - | I/O and formatting |

What makes each part correct:

* **DAG store**: the parent relation has no cycle; a store is closed under
  parents; links, last index and store agree, whatever an exception or a crash
  leaves; a block is executed exactly once; the head slot has the latest block.
* **Producing**: two broadcast blocks never share a number, and a number means
  the same block everywhere.
* **Sync**: no node skips a block; replies list parents first; all nodes end up
  with the same blocks; the flags never block a node for good.
* **Pool**: a transaction is pending or executed, never both; what is offered
  for a block is valid; a transaction sent is executed in the end, once.
* **State layers**: an evaluation works as if it had a private copy of the whole
  state, kept or forgotten as a whole.
* **Ledger**: no share is made or lost; votes agree with the balances behind
  them; no block leaves a debt.

## 2. Modules

`BlockDag` is the DAG store with the delegate loop, on all nodes; `DagSync`
EXTENDS it with the network and the clients' tasks. `MCBlockDag` and
`MCDagSync` are what TLC runs; `BlockDag_proofs` holds the theorems that hold
under all faults, `BlockDagWhole_proofs` those that need a run without crashes,
and `DagSync_proofs` those about the network.
`PendingPool` is the transaction pool and what becomes of its transactions on
all nodes; `TrxRelay` EXTENDS it with the retransmission from a wallet's node
to the seeds. `MCPendingPool`, `MCTrxRelay`, `PendingPool_proofs`,
`PendingPoolSingle_proofs` and `TrxRelay_proofs` belong to them. `StateLayers` and `Ledger` look
inside one node: `StateLayers` at how the state is kept while transactions and
blocks are evaluated, with the abstract specification `FlatState`; `Ledger` at
what the evaluation does to balances, fees, pay and votes. `Ledger` takes the
layer of a block as one record of entries, which is what `StateLayers` shows to
be sound. The first two pairs meet in the notion of a block's causal past: `BlockDag`
shows that a node that stores a block stores all its ancestors, and
`PendingPool` takes as a block's past all that its producer stored.

### BlockDag

`db[n]` is the persistent ChainDatabase of node `n`: one field per level
database. `hdr` is what a block contains (number, rank, timestamp, parents,
whether it has transactions), `second[n]` the second block of a pair of empty
ones while the fiber waits for the first one's broadcast, `mode[n]` whether the
process runs and its delegate loop is scheduled.

`push_block` is the sequence of stages `LinkParents` .. `StoreHead`, in the
order of the source. `PushUpTo(d, b, h, kids, L, s)` is the database after
stage `s`: the last stage is a successful push, `Refused` is what remains when
`extend_chain` throws, `CrashPrefixes` are the states a crash can leave.
`Candidates` and `RankAbove` are `set_block_parents`.

The whole of `push_block` is one action because it never yields (the code
asserts it with `ASSERT_TASK_NOT_PREEMPTED`), and so is `generate_block` with
the push that follows. The two empty blocks are two actions, because
`broadcast_new_block` waits for the p2p thread between them.

Whether `extend_chain` accepts a block is a nondeterministic outcome
(`"throw"`): it depends on transactions and signatures. `apply_changes` is one
stage although it writes several databases.

Blocks arrive as they were broadcast (`OnNewBlock`) or in a sync reply
(`OnSyncBlock`). A reply brings the child list that its sender has, and
`push_block` stores it as it comes, so here the list is any set of the block's
children, whether the receiver has them or not. Which blocks a reply can bring
is decided by the sender's number index, not by what was broadcast:
`get_sync_reply_blocks_v2` goes on past the last index as long as numbers lead
to blocks. A producer that dies after it stored a block and before
`update_last_index` has such a block, and `ServeBlock` puts it on the network
(`served`) although `broadcast_new_block` never will.

Four statements one might expect are false in the code, and the model has no
such invariants. Child lists name blocks that the node does not have: those of
sync replies, and those of refused pushes. A block can be closed by them while
its producer's other blocks are open elsewhere, so ranks may decrease along a
producer's blocks. After crashes the entry of the last index need not be
stored: a node that has the unbroadcast block *k* and dies while it pushes the
other block *k*, between the two writes, has an index that leads nowhere, and
`LastExists` only says that some stored block has that number. And blocks of
two different contents with one number may exist (see *What the violations show*).

### DagSync

`out[n]` is the p2p thread's `_pending_messages`, `link[n][m]` a connection,
`jobs[n]` the tasks that the handlers start with `fc::async`, `waiting[n]` the
block handlers that sit in `send_to_addr`. Every change of a database is an
action of BlockDag conjoined with what the client does around it, so the
protocol refines BlockDag's `Spec` (`ImplementsDag`). What is not obvious is that
the child lists which travel with a reply name children only, however old the
reply is when its task runs. The run `sync_recovers` checks the refinement and
`DagSync_proofs` proves it. The faults of `DagSync` are exceptions and broken
connections; crashes are left to `BlockDag`. Without crashes all that sync
serves was broadcast before (`served = {}` is part of `SyncInv`).

A sync reply is the merge of `get_sync_reply_blocks_v2`, given by its order
(`Before`) instead of its loop: the merge always takes the smallest rank among
the producers' next blocks, so a block comes after everything with a smaller
*largest rank so far on its producer's list* (`MergeRank`).

### PendingPool

`pool[n]` has the persistent pending database (`pending`), the fee index in
memory (`index`), the transactions applied to `_pending_trx_state` (`overlay`)
and whether a `revalidate_pending` task is scheduled (`again`). `ledger[n]` has
the balances and how often each transaction was executed.

A transaction takes one unit from its payer, which is enough for two
transactions to exclude each other. A scan over the pool (`Scan`) is given by
its result: a set that can be executed, such that nothing that was evaluated
and left out still fits, cut off after a limit. `generate_block` scans the
index on a fresh overlay and leaves invalid transactions where they are, as
well as those its delegate's configuration keeps out of blocks (size, minimum
fee, length of the message, blacklists; `ChainDatabase.cpp:3154-3192`,
`3216-3273`): these are `Excluded[s]` for seed `s`. The limit on the size of the
block only puts transactions off, as `MaxTrx` does;
`revalidate_pending` scans the database and discards them; `open` scans the
database and leaves them. The checks for duplicates and expiration in
`TransactionEvaluationState::evaluate` are commented out in the source (lines
299-319), so the models have none.

`GenerateBlock` is `generate_block` and the push of the new block, which do not
yield in between. Its alternatives: nothing was valid; success; `push_block`
throws after the pool was cleared; a crash before and after `apply_changes`.
Empty blocks do not touch the pool's transactions and are left to `BlockDag`.
A block that is not executable on a node's ledger is refused without effect.

### TrxRelay

`sending` is `_sending_trx_state_db` of the wallet's node, `due` the
transactions whose minute is over, `call[f]` what a fiber is doing in
`network_broadcast_transaction` or `network_send_transaction` (waiting for the
mutex; waiting for the p2p thread), `todo` the list that
`rebroadcast_pending_loop` made before its first send. `active` is the list of
seeds that announced themselves, `linked` the real connections. The actions on
pools and ledgers are those of PendingPool (`ImplementsPool`).

### StateLayers and FlatState

`db` is the state of the chain, `pend` the layer of the pending transactions
(`_pending_trx_state`), `gen` the layer of a block that is being generated,
`top` the layer of the evaluation that is under way and `base` what it lies on.
A layer has the entries stored in it, the contract storage stored in it, and the
removed ids. All maps of PendingChainState work alike and are one map here,
except that contract entries and contract storage share `_contract_id_remove`:
`View` is what lookups find, `InsertEntry`, `EraseEntry` and `InsertStorage` are
the edits, `ApplyToLayer` and `ApplyToDb` are `apply_changes` (a removal is
recorded only if the layer below finds the id). `StorageOperation::evaluate`
does not look for the contract whose storage it writes; that `StoreStorage` asks
for it stands for the VM, which has loaded the contract before it makes the
operation.

One action per edit, with the operations on contracts as they use the layers:
`RegisterContract` stores a temporary entry and removes it again in one step,
`ContractInfo` stores it for good in the result. `EvaluateResult` is the switch
from the layer of a request to a fresh one for its result. Evaluations do not
yield, so there is one at a time; generation has several, and is itself not
interrupted by others (`generating`). A restart can come anywhere and leaves
only `db`; the torn `apply_changes` of a crash is the subject of `dag_repair`.

`FlatState` has four whole states (chain, pool, build, work) that are copied,
edited and kept. `Flat` maps each to the `View` through the layers.

### Ledger

`chain` is what the database holds, `work` what the block's layer shows, `ev`
the `TransactionEvaluationState` (what was withdrawn and not deposited, vote
deltas, required fees, the contract balances to check at the end), `index` the
set `_delegate_votes`. `phase` says where `apply_transactions` is. One action
per operation, `EndTransaction` for `post_evaluate`, `validate_required_fee` and
`update_delegate_votes`, `EndBlock` for `pay_delegate` and `apply_changes`,
`Throw` for any exception. The program's int64 amounts are unbounded integers:
sums are `fc::safe` or bounded by the supply.

`WithdrawContractOperation::evaluate` takes any balance id and adjusts no votes.
The operation is only made by the node itself, in results, with the balances and
the margin of a contract, which have no slate (`Transaction.cpp:146-153`,
`ContractOperations.cpp:334, 397, 548, 649`), so `WithdrawContract` is offered
`ContractBalance` only. `VotesMatch` depends on it.

Balances have a fixed asset, owner and slate, since their id is the hash of
their condition. A slate is known when its delegates are registered. `rate`
above 100 stands for the 255 with which account operations say "no delegate".

`Ledger` leaves three behaviours as they are in the source, to be known by a
reader: a delegate that retracts its account in its own block is paid
afterwards, and a retracted account cannot withdraw it
(`AccountOperations.cpp:95` asks for an empty pay balance only at that moment);
`pay_delegate` issues shares without a look at `maximum_share_supply`; and
`DepositOperation` compares its count before it increments it, so a transaction
may have one deposit more than the constant says.

## 3. Runs

| Run | Bounds | Shows |
|---|---|---|
| `dag_throws` | 2 producers, 4 blocks, 2 timestamps, 2 exceptions, sync replies with any child lists | `WholeInv`, `ExecutedOnce`, `HeadLatest`, `NumbersAgree` |
| `dag_faults` | 2 producers, 4 blocks, 2 faults (exception or crash at any stage), sync replies with any child lists, unbroadcast blocks served | `DagInv` and its named parts |
| `dag_repair` | 1 crash | **violation** of `ExecutedOnce` |
| `sync_order` | 3 nodes in a line, 2 producers, 4 blocks, no empty blocks, no faults, only the third node's `sync_loop` asks, replies cut anywhere after 1 block | `ReplyInOrder`, `NoGap` |
| `sync_recovers` | 1 producer, 2 blocks, 1 exception, 1 broken connection | `NoGap`, `OrderInv` (with `SyncInv` as a part), `ImplementsDag`, `Convergence`, `ReplyEnds` |
| `sync_diverge` | 1 producer, 3 blocks, pairs of empty blocks, 1 broken connection | **violation** of `Convergence` |
| `pool_single` | 1 seed, 1 other node, 3 transactions on a balance of 2, blocks of 1, 2 faults (exception or crash, not inside `extend_chain`) | `SingleInv`, `PendingNotExecuted`, `AtMostOnce`, `BlocksAccepted` |
| `pool_faults` | 2 seeds, 3 blocks, 2 faults, transactions that exclude each other, a limit of 1 on revalidation, which leaves valid transactions out of the index, one seed that excludes a transaction, all kinds of faults | `PoolInv` and its parts, `PoolValid` |
| `pool_conflict` | 2 seeds | **violation** of `BlocksAccepted` |
| `relay` | 2 seeds, 1 transaction, 2 blocks, 1 exception or crash, 1 broken connection or locked wallet | `RelayInv`, `OneSeed`, `ImplementsPool`, `Delivered` |
| `layers` | 1 plain id with 2 values, 1 contract id with 1 value | `LayersInv`, `StorageOwned`, `EditsExact`, `ImplementsFlat` |
| `ledger` | 4 balances (cash, a vote, a contract's, an issued asset), 2 accounts of which 1 is a delegate at first, 2 blocks, 2 transactions of at most 3 operations, amounts 1 and 2 | `LedgerInv`, `BooksInv`, `SupplyConserved`, `VotesMatch`, `VoteIndexExact`, `NoOverdraft` |

Four blocks are enough for a block that is closed by two children, for one on
top of them by either producer, and for a pair of empty blocks with a block
before and one after it. Two faults allow a second fault on what the first one
left. In `sync_order` the third node hears of the first one's blocks only in
sync replies of the second, so a reply merges the blocks of two producers; with
two nodes a reply never has blocks of more than one. Four blocks give each
producer two, made on each other's or concurrently. `Asking` says whose
`sync_loop` sends requests, which keeps the instance small; the others still ask
when a block does not fit. Pairs of empty blocks are left out of `sync_order`,
since with them a node can skip a number even without faults (the second of the
pair is broadcast, pushed and built upon wherever the first is dropped while a
reply is processed), and then replies have blocks whose parents the receiver
lacks: that is `sync_diverge`. What happens with several producers beyond four
blocks is not known from this project: ranks may decrease along a producer's
blocks (section 2), and it takes more blocks than TLC can follow here for that
to matter to the merge. In `sync_recovers` a block
can arrive before its parent and while a reply is being processed. `MaxTasks`
bounds only when `sync_loop` adds a request; `sync_recovers` lets it fire while
a task is pending, which is when it resets the flags of a task that still runs.
In the pool runs a payer cannot afford all its transactions, so every scan has
something to leave out. In `relay` two seeds are what it takes for a
transaction to go to the wrong one, and one fault or break already loses it.
In `layers` nothing is bounded but the sets: every sequence of edits, nested
evaluations and restarts is covered for them, and an id that is not a contract,
one that is, and two values are what edits can confuse. In `ledger` three
operations are a withdrawal, a deposit and one more between them, two
transactions let the second work on what the first left in the block's layer,
and two blocks let the second pay from the fees of the first. The constants of
`pay_delegate` (2 new shares, fees divided by 2, a rate of 50) make each of its
divisions lose something in some states and nothing in others. Deadlock is not checked
in the runs of `BlockDag`, `DagSync`, `PendingPool` and `TrxRelay`: production
stops at the bounds, and a quiet network is a legal state.

**Fairness** (`SyncFairness`). Threads keep running (weak fairness of the
handlers, tasks, the advertise loop and `sync_loop`, which reschedules itself
in every case), broken connections are established again (the node connects to
its peers in a loop), and a delegate loop finishes the pair of blocks it has
begun. Production itself has no fairness: `Convergence` says what happens once
it stops.

`RelayFairness` has in addition: the loops of the seeds produce (a scheduled
`delegate_loop` runs every interval and takes what the pool offers), a minute
passes, blocks reach the wallet's node (that is `Convergence`), and operators
start the nodes in `Returning` again and unlock their wallets. The last is the
assumption about people, and it is needed: a sending state names the seed a
transaction was sent to, and only a block removes it.
`rebroadcast_pending_loop` (`Client.cpp:1109`) skips the transaction while that
seed is not active, and the wallet's command never chooses another. So if that
seed never returns, the transaction stays pending although another seed is
active, and although a comment (`ChainDatabase.cpp:3081`) wants it sent again
after 60 seconds. With `Returning` without one of the seeds TLC finds that
behaviour. `Delivered` speaks of transactions that no seed excludes: one that a seed
excludes stays pending there as long as its delegate's configuration is what it is.

### What the violations show

* `dag_repair`. `extend_chain` marks a block with status 1, applies its
  effects, and marks it with status 2. `repair_database` looks for status 1
  at start-up, but `repair_block` is commented out. A crash in between leaves
  effects without the block. The trace ends there; the block is new to
  `push_block`, which executes it again when a peer sends it.
* No run of its own: with the constants of `dag_repair` and
  `NumbersAgree` as the invariant, TLC finds a second effect of a crash.
  `push_block` writes a block and then the last index, from which the next
  number is taken. A producer that dies in between has a block *k* and
  the last index *k* - 1. After the restart it may serve the block in a sync
  reply, since the walk over the numbers does not stop at the last index, and it
  makes a new block *k*, which overwrites the entry of the number index and is
  broadcast. A peer that has pushed the first has the first under that number.
  If the first is never served, nothing happens; `NumbersUnique`, about
  broadcast blocks, holds under all faults.
* `sync_diverge`. The two empty blocks have the same parents, so the second is
  acceptable without the first. If the first is lost, `update_last_index` jumps
  over it, and sync requests, which start after the last index, never ask for
  it. The node cannot accept descendants of the lost block either. Without
  empty blocks the parents of a producer's block include its previous one as
  long as that is open, and the gap cannot arise: `NoNumberSkipped` proves it
  for one producer.
* `pool_conflict`. Nothing orders concurrent blocks: a node executes them as
  they come. Two seeds whose pools hold transactions on the same balance make
  two blocks; each node executes the first it gets and refuses the other, and
  whatever has it as an ancestor. A wallet's node avoids this for one
  transaction by sending it to one seed only (`OneSeed`), not for two
  transactions of the same balance sent from different nodes.

`Delivered` and `PendingNotExecuted` fail as well for a crash between
`apply_changes` and the store of the block (fault `"torn"`): the seed has
executed the transaction and no block carries it. The cause is that of
`dag_repair`, so the runs leave that fault out. `OneSeed` holds while no process
has died, no push has thrown and the transaction is pending at the wallet's node. If the wallet's
node dies between the send and the store of the sending state, the call after
the restart chooses a seed anew. A call that still waits for the
mutex when its block arrives finds no sending state and may send to another
seed, which by then knows the transaction or will refuse to execute it again
only if it has the block.

## 4. Proofs

All theorems hold for every value of the constants under the named assumptions
of the modules. Theorems under further assumptions state them with ASSUME.

**BlockDag_proofs** proves `Spec => []DagInv`: any nodes, blocks, timestamps,
number of faults and bound on numbers, any child lists in sync replies, and
unbroadcast blocks served by them. The conclusions are listed as theorems:
`TypeCorrect`, `Acyclic`, `StoreClosed`, `LinksComplete`, `LastFound`,
`NumbersNeverReused`. None of these is inductive alone. That broadcast blocks
never share a number needs that such a block is stored *and counted* by its
producer (`SentCounted`: the broadcast follows the whole of `push_block`), that
whatever reaches other nodes its producer still has (`ShownStored`,
`ForeignStored`), and that the second empty block still has the next number when
the fiber resumes (`SecondIsNext`): blocks that arrive in the meantime belong to
other producers. That links survive every prefix of the writes needs
`AncestorsStored`, since `push_block` links only parents it finds. The argument
goes over one lemma per kind of database change (`PushUpTo` for every stage),
then one step per action.

**BlockDagWhole_proofs** assumes that no node dies inside `push_block`
(`"crash" \notin Faults`) and nothing else: exceptions, sync replies and their
child lists are as in the code. It proves `WholeInv` and from it `ExecutedOnce`,
`HeadLatest` and `NumbersAgree`. A stored block then went through `push_block`
to the end, so it was broadcast, the number index leads to it, the last index
has counted it and `update_head_block` has seen it (`StoredFound`,
`NumbersTrue`); so there is nothing for `ServeBlock` to put on the network
(`served = {}`), and with `NumbersUnique` a number means one block. An exception
comes before all of these writes and leaves only links. Every step is a push to
the end, a refused push or no change of a database (`NextIsWhole`), and one lemma
for each shows that the invariant stays. `dag_repair` shows that the
assumption is needed for `ExecutedOnce`, and section 3 how a crash breaks
`NumbersAgree`.

**PendingPool_proofs** proves `Spec => []PoolInv`: any nodes, seeds, balances,
payers and limits, with exceptions and crashes at any point. The theorems for a
reader are `OfferedIsValid` (`PoolValid`) and `LayersNested` (`PoolLayers`).
`PoolValid` says nothing while a revalidation is scheduled and is not inductive:
`store_pending_transaction` evaluates against the overlay, not against the
index. `OverlayFits` closes the gap: the overlay is always executable on the
ledger, and equals the index unless a revalidation is scheduled. The proof
states the invariant for one node (`NodeOK`), shows that each change of a pool
keeps it, and needs one lemma on cardinalities: adding a transaction that fits
keeps a set executable (`FitsValid`).

**PendingPoolSingle_proofs** assumes one seed and no crash inside `extend_chain`
and proves `AtMostOnce`, `PendingNotExecuted` and `BlocksAccepted`. The
invariant `SingleInv` says why one seed is enough: it stores every block, so
what it puts into a new block is in none before (`BlocksDisjoint`), and a ledger
is the genesis less what the stored blocks paid (`LedgerOfStored`), whatever the
order. A block that the seed could pay after all the blocks before it can then
be paid by a node that has fewer. With two seeds the first step fails, which is
`pool_conflict`.

**TrxRelay_proofs** proves that the relay implements `PendingPool`
(`RelayImplementsPool`, one step per action), `RelaySafety => []RelayInv` and
from it `OneSeed`, for any seeds, transactions, connections and orders of the two
fibers. `OneSeed` is not inductive: it does not say where the next copy will go.
`SeedAgreed` does: as long as the wallet's node has not executed a transaction,
every seed that has it, every call that sent it and every entry of the loop's
list name the recorded seed, or none is recorded and all name the seed that the
holder of `broadcast_trx_mutex` chose. A call that finds no recorded seed and the
mutex free therefore knows that no seed has the transaction. An entry of the
loop's list without a seed may be stale when its turn comes; that is harmless
because `network_broadcast_transaction` looks the seed up again under the mutex.
A block removes the recorded seeds only of what it settles. The invariant is
stated up to the first fault, because a crash loses the calls.

**StateLayers_proofs** proves `LayersInv`, `StorageOwned`, `EditsExact` and the
refinement `Spec => ImplementsFlat`. The refinement needs `Sound`: without it
`ApplyToLayer` and the view through two layers differ, since a removal is
recorded only if the id is found below, and since storing a contract's entry
shows storage that a removal had hidden. A layer removes a contract only after
it stored it itself (the temporary entry of a registration, whose address is
not in use), so there is nothing hidden. The lemmas say that the view of an edit
is an edit of the view, and that the view through two layers is the view through
the merged one.

**Ledger_proofs** proves `LedgerInv` and from it `NoOverdraft` and
`VoteIndexExact`. `NoOverdraft` speaks of the database; the transaction on top
of it may have debts, and `DebtsRemembered` says that each is on the list that
`post_evaluate` goes through, so that the end of the transaction clears them.
`VoteIndexExact` needs `DelegatesStay`: `Reindex` is right for every change of an
account but one that a delegate is no more, which no operation makes.

`SupplyConserved` and `VotesMatch` speak of the database. What they rest on is
`BooksInv`: shares and votes add up in the database *and* in the layer of the
block, where what is withdrawn and not yet deposited, and the vote deltas not
yet written, are part of the sum; and between transactions nothing of that kind
is open (`NothingOpen`), so that the layer of a complete block can replace the
database and an exception can go back to it. Each operation moves an amount
between two places of these sums: the lemmas say what a sum over a set is when
one element changes. They need induction over finite sets, which is done by the
smallest counterexample (a set with one element less still has the property).
What the divisions of `pay_delegate` yield is irrelevant: the sums hold for
every outcome, because what is paid, destroyed and kept is computed from the
same numbers.

**DagSync_proofs** has two parts. The first holds for any nodes, producers,
exceptions, broken connections and orders of fibers and messages. `SyncInv` adds to
`DagInv` that the number indexes name blocks with these numbers
(`NumbersTrue`), that child lists name blocks whose parents say so
(`ChildsTrue`), and the types of what the network carries: the items of a reply
and of the task that pushes them are blocks with true child lists. All of this
is monotone, since headers never change once a block is made, so it survives
messages that are late or computed from a state that is gone. From it follows `SyncImplementsDag`, one step per action: the theorems of
`BlockDag_proofs` are about the nodes on the network. Two lemmas about
algorithms carry it: the merge lists each block of a reply once (`Before` is a
strict total order, so the number of predecessors enumerates a finite set), and
`get_new_block_list`, a recursion over the reply, returns items of the reply.

The second part assumes `OneProducer`: one producer, no pairs of empty blocks,
and fewer exceptions than `MinChildren`. `ChainInv` says why no number is
skipped. The producer stores all that it broadcasts. Its last block has no
children but those that were refused, fewer than `MinChildren`, so it is open,
a candidate, and a parent of the next block. A node that can push block *k*
therefore has block *k* - 1, and its last index never jumps. This is
`NoNumberSkipped`. `OrderInv` adds the messages: a request under way names
numbers that its sender has, so the reply, whose numbers follow these without a
gap, starts at the latest where the receiver stops; the merge by rank is the
order of numbers there, because a block's predecessors in the reply are counted
by its number. This is `RepliesParentsFirst`.

`OneProducer` is needed in all its parts. With empty blocks `sync_diverge`
shows the gap, and a reply then has blocks whose parents the receiver lacks.
With `MinChildren` refused blocks the last block is closed before it has a
child that exists, and the next block does not name it. With several
producers the last block of one may be closed by blocks of the others, and the
chain of numbers is no longer a chain of parents.

Model-checked only: all liveness (`Convergence`, `ReplyEnds`, `Delivered`), which
TLAPS cannot prove under fairness, and `ReplyInOrder` and `NoGap` with two
producers, on the instance of `sync_order`.

## 5. Not modelled

* Block signatures and delegate slots (`verify_header`), statistics entries,
  `migrate_old_block` (one-time upgrade), queries.
* The p2p handshake, peer database and encryption; the chain server.
* The Lua VM: what a contract computes is a free choice of result operations.
* Escrow and multisignature conditions, creation and update of assets, slates
  as entries of their own, names, messages: they decide whether an operation is
  allowed, or keep data that no property here is about.
* Incomplete results (`ChainDatabase.cpp:3238`): a result that is larger than the
  limit travels without its operations. Every node runs the request again and
  compares the id of the result, but does not evaluate its operations, so such a
  transaction is recorded and changes no balance.
* Status nodes: `wallet_unlock` would ask them for a lease, but that request is
  commented out (`WalletApi.cpp:286-297`); what is left changes no state that
  anything else reads.
* `update_random_seed`: the seed depends on the order in which a node executes
  concurrent blocks, which differs between nodes, and the order of delegates
  with it; so does the share of the fees that a block's producer gets. Nothing
  in the repository says what should hold instead.
* Wallet, RPC and CLI.

Block numbers (48 bits, with 16 for the node) and amounts (64 bits) are
unbounded here: 2^48 blocks of one producer are out of reach, and amounts are
added with checks or bounded by the supply.

## 6. Plan

1. `BlockDag`, `DagSync`, their runs and `BlockDag_proofs` (done).
2. `PendingPool`, `TrxRelay`, their runs and `PendingPool_proofs` (done).
3. `StateLayers` against `FlatState`, `Ledger`, their runs and proofs (done).
4. What holds without crashes or with one seed: `BlockDagWhole_proofs`,
   `PendingPoolSingle_proofs` (done).
5. `TrxRelay` implements `PendingPool`, and `OneSeed`: `TrxRelay_proofs` (done).
6. The sums of `Ledger`, and `DagSync`: the refinement of `BlockDag`, and the
   order of blocks with one producer: `Ledger_proofs`, `DagSync_proofs` (done).
7. `NoGap` and `ReplyInOrder` with several producers and no empty blocks: which
   bound on faults makes them true, and the invariant over merged chains.
8. Batches of transactions (`network_broadcast_transactions`); escrow and
   multisignature conditions in `Ledger`.
