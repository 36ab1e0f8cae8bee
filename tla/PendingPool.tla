----------------------------- MODULE PendingPool -----------------------------
(***************************************************************************)
(* The pending transactions of a node and what becomes of them.            *)
(*                                                                         *)
(* A node keeps pending transactions in a database on disk, the evaluated  *)
(* ones also in an index sorted by fee, and their effects in an overlay on *)
(* top of the ledger.  A block clears its transactions from the pool and   *)
(* empties the overlay; a task that runs later evaluates the rest again.   *)
(* A seed makes blocks of what the index offers; every node executes a     *)
(* block once it has the blocks its producer had.                          *)
(*                                                                         *)
(* Abstracted: a transaction takes one unit from the balance of its payer, *)
(* and that is all that its evaluation depends on.  The order of fees and  *)
(* of ids is arbitrary.  Contract results count as their origin (both ids  *)
(* are cleared).  Transactions may reach a node any number of times, at    *)
(* any time (module TrxRelay says when they do).  The parents of a block   *)
(* stand for all blocks its producer had (BlockDag, AncestorsStored).      *)
(***************************************************************************)
EXTENDS Naturals, FiniteSets

CONSTANTS
    Node,          \* nodes with a ChainDatabase
    Seed,          \* the nodes that produce blocks
    Trx,           \* transactions
    Account,       \* accounts that pay
    Payer,         \* transaction -> account
    Funds,         \* account -> balance in the genesis state
    MaxIndex,      \* ALP_BLOCKCHAIN_REVALIDATE_MAX_TRX_COUNT
    MaxTrx,        \* block_max_transaction_count
    Excluded,      \* seed -> transactions its DelegateConfig keeps out of blocks
    MaxBlocks,     \* bound on the number of blocks
    Faults,        \* fault kinds that occur: a subset of FaultKind
    MaxFaults      \* bound on the number of faults in a behaviour

\* push_block throws; a crash outside extend_chain or before its effects are
\* written; a crash after that and before the block is stored.
FaultKind == {"throw", "crash", "torn"}

ASSUME PendingPoolAssumption ==
    /\ Seed \subseteq Node
    /\ IsFiniteSet(Trx)
    /\ Payer \in [Trx -> Account]
    /\ Funds \in [Account -> Nat]
    /\ MaxIndex \in Nat /\ MaxTrx \in Nat \ {0}
    /\ Excluded \in [Seed -> SUBSET Trx]
    /\ MaxBlocks \in Nat
    /\ Faults \subseteq FaultKind
    /\ MaxFaults \in Nat

VARIABLES
    pool,      \* node -> its pool
    ledger,    \* node -> balances and executions
    stored,    \* node -> numbers of the blocks it stores
    blocks,    \* block number -> transactions and causal past
    made,      \* number of blocks made so far
    mode,      \* node -> down, idle (running) or looping (delegate_loop on)
    faults     \* faults so far

vars == <<pool, ledger, stored, blocks, made, mode, faults>>

BlockNo == 1 .. MaxBlocks

Pool ==
    [pending : SUBSET Trx,      \* _pending_transaction_db, on disk
     index   : SUBSET Trx,      \* _pending_fee_index, in memory
     overlay : SUBSET Trx,      \* what _pending_trx_state has applied, in memory
     again   : BOOLEAN]         \* is a revalidate_pending task scheduled?

Ledger ==
    [balance  : [Account -> Nat],   \* _balance_id_to_entry
     executed : [Trx -> Nat]]       \* how often; _transaction_id_to_entry if > 0

Block == [trx : SUBSET Trx, past : SUBSET BlockNo]

NoBlock == [trx |-> {}, past |-> {}]

EmptyPool == [pending |-> {}, index |-> {}, overlay |-> {}, again |-> FALSE]

-----------------------------------------------------------------------------
(* Evaluation.                                                             *)

Paid(S, a) == Cardinality({t \in S : Payer[t] = a})

\* The transactions S can all be executed on top of balances bal.
Valid(bal, S) == \A a \in Account : Paid(S, a) <= bal[a]

\* evaluate(t) on an overlay with the effects of S succeeds.
Fits(bal, S, t) == Paid(S, Payer[t]) < bal[Payer[t]]

\* Faulty KnownTrx: only the pool is searched.
KnownInPool(p, l, t) == t \in p.pending

\* store_pending_transaction returns nullptr.
KnownTrx(p, l, t) == t \in p.pending \/ l.executed[t] > 0

\* store_pending_transaction: a transaction that does not fit is refused.
WithPending(p, t) ==
    [p EXCEPT !.pending = @ \cup {t}, !.index = @ \cup {t}, !.overlay = @ \cup {t}]

\* Faulty forms of Cleared: the fee index keeps its entries; the overlay
\* keeps its effects; no revalidation is scheduled.
ClearedInDb(p, B) ==
    [p EXCEPT !.pending = @ \ B, !.overlay = {}, !.again = TRUE]
ClearedNoTask(p, B) ==
    [p EXCEPT !.pending = @ \ B, !.index = @ \ B, !.overlay = {}]
ClearedNot(p, B) == [p EXCEPT !.overlay = {}, !.again = TRUE]

\* clear_pending of a block with transactions B.
Cleared(p, B) ==
    [pending |-> p.pending \ B, index |-> p.index \ B, overlay |-> {}, again |-> TRUE]

\* Faulty Scan: transactions are not evaluated.
ScanUnchecked(bal, S, keep, drop, max) ==
    /\ keep \subseteq S /\ drop = {}
    /\ keep = S \/ Cardinality(keep) = max

\* A scan of S evaluates one transaction after the other, keeps those in keep
\* and finds those in drop invalid; after max kept ones it stops.
Scan(bal, S, keep, drop, max) ==
    /\ keep \subseteq S /\ drop \subseteq S \ keep
    /\ Valid(bal, keep)
    /\ \A t \in drop : ~Fits(bal, keep, t)
    /\ Cardinality(keep) <= max
    /\ \/ keep \cup drop = S
       \/ /\ Cardinality(keep) = max
          /\ \E last \in keep : \A t \in drop : Payer[t] # Payer[last]

\* apply_changes of a block with transactions B.
Executed(l, B) ==
    [balance  |-> [a \in Account |-> l.balance[a] - Paid(B, a)],
     executed |-> [t \in Trx |-> IF t \in B THEN l.executed[t] + 1 ELSE l.executed[t]]]

-----------------------------------------------------------------------------
Init ==
    /\ pool = [n \in Node |-> EmptyPool]
    /\ ledger = [n \in Node |-> [balance |-> Funds, executed |-> [t \in Trx |-> 0]]]
    /\ stored = [n \in Node |-> {}]
    /\ blocks = [i \in BlockNo |-> NoBlock]
    /\ made = 0
    /\ mode = [n \in Node |-> IF n \in Seed THEN "looping" ELSE "idle"]
    /\ faults = 0

Fault(kind) ==
    /\ kind \in Faults
    /\ faults < MaxFaults
    /\ faults' = faults + 1

\* The process dies: the disk keeps pending (all that counts of p) and l.
Dies(n, kind, p, l) ==
    /\ Fault(kind)
    /\ pool' = [pool EXCEPT ![n] = [EmptyPool EXCEPT !.pending = p.pending]]
    /\ ledger' = [ledger EXCEPT ![n] = l]
    /\ mode' = [mode EXCEPT ![n] = "down"]

\* on_new_transaction on a seed, cache_transaction on a wallet's node.
StorePending(n, t) ==
    /\ mode[n] # "down"
    /\ ~KnownTrx(pool[n], ledger[n], t)
    /\ Fits(ledger[n].balance, pool[n].overlay, t)
    /\ pool' = [pool EXCEPT ![n] = WithPending(@, t)]
    /\ UNCHANGED <<ledger, stored, blocks, made, mode, faults>>

\* Faulty RevalidatePending: the overlay is not filled.
RevalidateIndexOnly(n) ==
    /\ pool[n].again
    /\ \E keep, drop \in SUBSET pool[n].pending :
          /\ Scan(ledger[n].balance, pool[n].pending, keep, drop, MaxIndex + 1)
          /\ pool' = [pool EXCEPT ![n] =
                [@ EXCEPT !.pending = @ \ drop, !.index = keep, !.again = FALSE]]
    /\ UNCHANGED <<ledger, stored, blocks, made, mode, faults>>

\* The task revalidate_pending.
RevalidatePending(n) ==
    /\ pool[n].again
    /\ \E keep, drop \in SUBSET pool[n].pending :
          /\ Scan(ledger[n].balance, pool[n].pending, keep, drop, MaxIndex + 1)
          /\ pool' = [pool EXCEPT ![n] =
                [pending |-> @.pending \ drop, index |-> keep, overlay |-> keep,
                 again |-> FALSE]]
    /\ UNCHANGED <<ledger, stored, blocks, made, mode, faults>>

\* delegate_loop: generate_block, sign, push_block, broadcast.  The scan starts
\* on the ledger without the overlay; transactions that turn out invalid, and
\* those excluded for their size, their fee, their message or a blacklist, stay
\* in the pool.  The pool is cleared before the block is pushed and again by
\* extend_chain.
GenerateBlock(n) ==
    /\ n \in Seed /\ mode[n] = "looping"
    /\ pool[n].index # {}
    /\ made < MaxBlocks
    /\ \E B \in SUBSET pool[n].index :
          LET p == Cleared(pool[n], B)
              l == Executed(ledger[n], B) IN
          /\ \E drop \in SUBSET pool[n].index :
                Scan(ledger[n].balance, pool[n].index \ Excluded[n], B, drop, MaxTrx)
          /\ \/ \* nothing was valid: no block
                /\ B = {}
                /\ pool' = [pool EXCEPT ![n] = p]
                /\ UNCHANGED <<ledger, stored, blocks, made, mode, faults>>
             \/ /\ B # {}
                /\ pool' = [pool EXCEPT ![n] = Cleared(p, B)]
                /\ ledger' = [ledger EXCEPT ![n] = l]
                /\ made' = made + 1
                /\ blocks' = [blocks EXCEPT ![made + 1] = [trx |-> B, past |-> stored[n]]]
                /\ stored' = [stored EXCEPT ![n] = @ \cup {made + 1}]
                /\ UNCHANGED <<mode, faults>>
             \/ \* push_block throws: the loop ends, the pool is cleared already
                /\ B # {}
                /\ Fault("throw")
                /\ pool' = [pool EXCEPT ![n] = p]
                /\ mode' = [mode EXCEPT ![n] = "idle"]
                /\ UNCHANGED <<ledger, stored, blocks, made>>
             \/ \* a crash before or after apply_changes, before the block is stored
                /\ B # {}
                /\ Dies(n, "crash", p, ledger[n]) \/ Dies(n, "torn", p, l)
                /\ UNCHANGED <<stored, blocks, made>>

\* Node n receives block i and has its causal past: push_block.  If the block
\* is not valid on n's ledger, extend_chain throws and nothing here changes.
PushBlock(n, i) ==
    LET B == blocks[i].trx
        l == Executed(ledger[n], B) IN
    /\ mode[n] # "down"
    /\ i <= made /\ i \notin stored[n]
    /\ blocks[i].past \subseteq stored[n]
    /\ Valid(ledger[n].balance, B)
    /\ \/ /\ pool' = [pool EXCEPT ![n] = Cleared(@, B)]
          /\ ledger' = [ledger EXCEPT ![n] = l]
          /\ stored' = [stored EXCEPT ![n] = @ \cup {i}]
          /\ UNCHANGED <<mode, faults>>
       \/ \* a crash after apply_changes, before or after clear_pending
          /\ Dies(n, "torn", pool[n], l) \/ Dies(n, "torn", Cleared(pool[n], B), l)
          /\ UNCHANGED stored
    /\ UNCHANGED <<blocks, made>>

\* The process dies between two operations.
Crash(n) ==
    /\ mode[n] # "down"
    /\ Dies(n, "crash", pool[n], ledger[n])
    /\ UNCHANGED <<stored, blocks, made>>

\* ChainDatabase::open evaluates what the pending database holds; what is not
\* valid stays in it.
Open(n) ==
    /\ mode[n] = "down"
    /\ \E keep \in SUBSET pool[n].pending :
          /\ Scan(ledger[n].balance, pool[n].pending, keep, pool[n].pending \ keep,
                  Cardinality(Trx))
          /\ pool' = [pool EXCEPT ![n] = [@ EXCEPT !.index = keep, !.overlay = keep]]
    /\ mode' = [mode EXCEPT ![n] = "idle"]
    /\ UNCHANGED <<ledger, stored, blocks, made, faults>>

\* reschedule_delegate_loop
RescheduleDelegateLoop(n) ==
    /\ n \in Seed /\ mode[n] = "idle"
    /\ mode' = [mode EXCEPT ![n] = "looping"]
    /\ UNCHANGED <<pool, ledger, stored, blocks, made, faults>>

\* wallet_lock, wallet_close: delegate_loop returns at its next turn.
WalletLock(n) ==
    /\ n \in Seed /\ mode[n] = "looping"
    /\ mode' = [mode EXCEPT ![n] = "idle"]
    /\ UNCHANGED <<pool, ledger, stored, blocks, made, faults>>

Next ==
    \E n \in Node :
        \/ \E t \in Trx : StorePending(n, t)
        \/ RevalidatePending(n)
        \/ GenerateBlock(n)
        \/ \E i \in BlockNo : PushBlock(n, i)
        \/ Crash(n)
        \/ Open(n)
        \/ RescheduleDelegateLoop(n)
        \/ WalletLock(n)

Spec == Init /\ [][Next]_vars

-----------------------------------------------------------------------------
(* Properties.                                                             *)

TypeOK ==
    /\ pool \in [Node -> Pool]
    /\ ledger \in [Node -> Ledger]
    /\ stored \in [Node -> SUBSET BlockNo]
    /\ blocks \in [BlockNo -> Block]
    /\ made \in 0 .. MaxBlocks
    /\ mode \in [Node -> {"down", "idle", "looping"}]
    /\ faults \in 0 .. MaxFaults

\* Disk and memory agree: what the overlay counts is offered by the index, and
\* what the index offers is in the pending database.
PoolLayers ==
    \A n \in Node : pool[n].overlay \subseteq pool[n].index
                      /\ pool[n].index \subseteq pool[n].pending

\* Unless a revalidation is due, the transactions offered for a block can all
\* be executed on the node's ledger, one after the other in any order.
PoolValid ==
    \A n \in Node : ~pool[n].again => Valid(ledger[n].balance, pool[n].index)

\* A transaction that the node has executed is not pending any more: late
\* retransmissions and the producer's own pool do not bring it back.
PendingNotExecuted ==
    \A n \in Node : \A t \in pool[n].pending : ledger[n].executed[t] = 0

\* No node executes a transaction twice, however often it arrives.
AtMostOnce ==
    \A n \in Node : \A t \in Trx : ledger[n].executed[t] <= 1

\* A block that its producer executed can be executed by every node that has
\* its causal past, so that all replicas can reach the same state.
BlocksAccepted ==
    \A n \in Node : \A i \in 1 .. made :
        i \notin stored[n] /\ blocks[i].past \subseteq stored[n]
            => Valid(ledger[n].balance, blocks[i].trx)

-----------------------------------------------------------------------------
(* The inductive invariant behind PoolLayers and PoolValid.                *)

\* What the overlay has applied fits on the ledger, and the overlay is
\* complete unless a revalidation is due.
OverlayFits ==
    \A n \in Node :
        /\ Valid(ledger[n].balance, pool[n].overlay)
        /\ ~pool[n].again => pool[n].overlay = pool[n].index

\* Pending database, fee index and overlay stay nested, and the overlay can be
\* executed, through clear_pending, revalidate_pending and every fault.
PoolInv == TypeOK /\ PoolLayers /\ OverlayFits

-----------------------------------------------------------------------------
(* What makes PendingNotExecuted, AtMostOnce and BlocksAccepted inductive  *)
(* when there is one seed, and no crash tears the execution of a block.    *)

\* The transactions of the blocks that node n stores.
Done(n) == {t \in Trx : \E i \in stored[n] : t \in blocks[i].trx}

\* The seed stores every block.
SeedStoresAll ==
    /\ \A n \in Node : stored[n] \subseteq 1 .. made
    /\ \A s \in Seed : stored[s] = 1 .. made

\* No two blocks have a transaction in common.
BlocksDisjoint ==
    \A i, j \in 1 .. made : i # j => blocks[i].trx \cap blocks[j].trx = {}

\* A node has executed the blocks it stores, and paid for them, and nothing else.
LedgerOfStored ==
    \A n \in Node :
        /\ \A t \in Trx : ledger[n].executed[t] = IF t \in Done(n) THEN 1 ELSE 0
        /\ \A a \in Account : ledger[n].balance[a] + Paid(Done(n), a) = Funds[a]

\* With one seed every ledger is what the stored blocks make of the genesis, and
\* none of what they executed is pending.
SingleInv ==
    PoolInv /\ SeedStoresAll /\ BlocksDisjoint /\ LedgerOfStored /\ PendingNotExecuted

=============================================================================
