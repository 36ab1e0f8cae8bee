---------------------- MODULE PendingPoolSingle_proofs ----------------------
(***************************************************************************)
(* Theorems about PendingPool with one seed and no torn execution: every   *)
(* replica accepts every block, and executes a transaction at most once.   *)
(***************************************************************************)
EXTENDS PendingPool_proofs

-----------------------------------------------------------------------------
(* Counting.                                                               *)

\* Disjoint sets of transactions cost an account the sum of what they cost.
LEMMA PaidUnion ==
    ASSUME NEW S \in SUBSET Trx, NEW T \in SUBSET Trx, S \cap T = {}, NEW a
    PROVE  Paid(S \cup T, a) = Paid(S, a) + Paid(T, a)
<1> DEFINE U == {t \in S : Payer[t] = a}
           V == {t \in T : Payer[t] = a}
<1>1. IsFiniteSet(U) /\ IsFiniteSet(V) /\ Cardinality(U) \in Nat /\ Cardinality(V) \in Nat
  BY PaidType DEF Paid
<1>2. {t \in S \cup T : Payer[t] = a} = U \cup V /\ U \cap V = {}
  OBVIOUS
<1>3. Cardinality(U \cup V) = Cardinality(U) + Cardinality(V) - Cardinality(U \cap V)
  <2> HIDE DEF U, V
  <2> QED BY <1>1, FS_Union
<1>4. Cardinality(U \cap V) = 0
  BY <1>2, FS_EmptySet
<1>5. Paid(S \cup T, a) = Cardinality(U \cup V)
  BY <1>2 DEF Paid
<1>6. Paid(S, a) = Cardinality(U) /\ Paid(T, a) = Cardinality(V)
  BY DEF Paid
<1> HIDE DEF U, V
<1> QED
  BY <1>1, <1>3, <1>4, <1>5, <1>6

\* More transactions do not cost less.
LEMMA PaidMonotone ==
    ASSUME NEW T \in SUBSET Trx, NEW S \in SUBSET T, NEW a
    PROVE  Paid(S, a) <= Paid(T, a)
<1>1. IsFiniteSet({t \in T : Payer[t] = a})
  BY PaidType
<1>2. {t \in S : Payer[t] = a} \in SUBSET {t \in T : Payer[t] = a}
  OBVIOUS
<1> QED
  BY <1>1, <1>2, FS_Subset DEF Paid

-----------------------------------------------------------------------------
(* Steps that execute nothing, and steps that execute a block.             *)

\* A step of one pool that adds nothing executed to the pending transactions.
LEMMA PoolOnly ==
    ASSUME SingleInv, PoolInv', UNCHANGED <<ledger, stored, blocks, made>>,
           NEW n \in Node, NEW q, pool' = [pool EXCEPT ![n] = q],
           \A t \in q.pending : ledger[n].executed[t] = 0
    PROVE  SingleInv'
<1>1. pool \in [Node -> Pool]
  BY DEF SingleInv, PoolInv, TypeOK
<1>2. PendingNotExecuted'
  BY <1>1 DEF SingleInv, PendingNotExecuted
<1>3. SeedStoresAll' /\ BlocksDisjoint'
  BY DEF SingleInv, SeedStoresAll, BlocksDisjoint
<1>4. LedgerOfStored'
  BY DEF SingleInv, LedgerOfStored, Done
<1> QED
  BY <1>2, <1>3, <1>4 DEF SingleInv

\* Node n executes block i, whose transactions B it has not executed before.
LEMMA ExecuteBlock ==
    ASSUME SingleInv, NEW n \in Node, NEW i \in BlockNo, NEW B \in SUBSET Trx,
           Valid(ledger[n].balance, B), B \cap Done(n) = {},
           blocks'[i].trx = B,
           \A m \in Node : \A j \in stored[m] : blocks'[j] = blocks[j],
           stored' = [stored EXCEPT ![n] = @ \cup {i}],
           ledger' = [ledger EXCEPT ![n] = Executed(@, B)],
           NEW q, q.pending \subseteq pool[n].pending \ B,
           pool' = [pool EXCEPT ![n] = q]
    PROVE  LedgerOfStored' /\ PendingNotExecuted'
<1>1. /\ pool \in [Node -> Pool] /\ ledger \in [Node -> Ledger]
      /\ stored \in [Node -> SUBSET BlockNo]
  BY DEF SingleInv, PoolInv, TypeOK
<1>2. \A m \in Node : Done(m) \in SUBSET Trx
  BY DEF Done
<1>3. ASSUME NEW m \in Node, m # n
      PROVE  ledger'[m] = ledger[m] /\ pool'[m] = pool[m] /\ Done(m)' = Done(m)
  BY <1>1, <1>3 DEF Done
<1>4. Done(n)' = Done(n) \cup B
  BY <1>1 DEF Done
<1>5. /\ ledger'[n].balance = [a \in Account |-> ledger[n].balance[a] - Paid(B, a)]
      /\ ledger'[n].executed = [t \in Trx |-> IF t \in B THEN ledger[n].executed[t] + 1
                                                        ELSE ledger[n].executed[t]]
      /\ pool'[n].pending \subseteq pool[n].pending \ B
  BY <1>1 DEF Executed
<1>6. \A t \in Trx : ledger[n].executed[t] = IF t \in Done(n) THEN 1 ELSE 0
  BY DEF SingleInv, LedgerOfStored
<1>7. \A t \in Trx : ledger'[n].executed[t] = IF t \in Done(n)' THEN 1 ELSE 0
  BY <1>4, <1>5, <1>6
<1>8. ASSUME NEW a \in Account
      PROVE  ledger'[n].balance[a] + Paid(Done(n)', a) = Funds[a]
  <2>1. Paid(Done(n)', a) = Paid(Done(n), a) + Paid(B, a)
    BY <1>2, <1>4, PaidUnion
  <2>2. Paid(Done(n), a) \in Nat /\ Paid(B, a) \in Nat /\ ledger[n].balance[a] \in Nat
    BY <1>1, <1>2, PaidType DEF Ledger
  <2>3. ledger[n].balance[a] + Paid(Done(n), a) = Funds[a]
    BY DEF SingleInv, LedgerOfStored
  <2>4. ledger'[n].balance[a] = ledger[n].balance[a] - Paid(B, a)
    BY <1>5
  <2> QED BY <2>1, <2>2, <2>3, <2>4
<1>9. ASSUME NEW m \in Node
      PROVE  /\ \A t \in Trx : ledger'[m].executed[t] = IF t \in Done(m)' THEN 1 ELSE 0
             /\ \A a \in Account : ledger'[m].balance[a] + Paid(Done(m)', a) = Funds[a]
             /\ \A t \in pool'[m].pending : ledger'[m].executed[t] = 0
  <2>1. CASE m = n
    <3>1. pool[n].pending \in SUBSET Trx
      BY <1>1 DEF Pool
    <3>2. \A t \in pool[n].pending : ledger[n].executed[t] = 0
      BY DEF SingleInv, PendingNotExecuted
    <3>3. \A t \in pool'[n].pending : ledger'[n].executed[t] = 0
      BY <1>5, <3>1, <3>2
    <3> QED BY <1>7, <1>8, <2>1, <3>3
  <2>2. CASE m # n
    <3>1. /\ \A t \in Trx : ledger[m].executed[t] = IF t \in Done(m) THEN 1 ELSE 0
          /\ \A a \in Account : ledger[m].balance[a] + Paid(Done(m), a) = Funds[a]
          /\ \A t \in pool[m].pending : ledger[m].executed[t] = 0
      BY DEF SingleInv, LedgerOfStored, PendingNotExecuted
    <3>2. ledger'[m] = ledger[m] /\ pool'[m] = pool[m] /\ Done(m)' = Done(m)
      BY <1>3, <2>2
    <3> QED BY <3>1, <3>2
  <2> QED BY <2>1, <2>2
<1>10. LedgerOfStored'
  BY <1>9 DEF LedgerOfStored
<1>11. PendingNotExecuted'
  BY <1>9 DEF PendingNotExecuted
<1> QED
  BY <1>10, <1>11
-----------------------------------------------------------------------------
(* The invariant.                                                          *)

\* The genesis state satisfies the invariant.
LEMMA SingleInvInit == Init => SingleInv
<1> SUFFICES ASSUME Init PROVE SingleInv
  OBVIOUS
<1>1. PoolInv
  BY PoolInvInit
<1>2. \A n \in Node : Done(n) = {}
  BY DEF Init, Done
<1>3. 1 .. made = {}
  BY DEF Init
<1>4. LedgerOfStored
  <2> SUFFICES ASSUME NEW n \in Node
               PROVE  /\ \A t \in Trx : ledger[n].executed[t] = IF t \in Done(n) THEN 1 ELSE 0
                      /\ \A a \in Account : ledger[n].balance[a] + Paid(Done(n), a) = Funds[a]
    BY DEF LedgerOfStored
  <2>1. ledger[n].balance = Funds /\ \A t \in Trx : ledger[n].executed[t] = 0
    BY DEF Init
  <2>2. \A a \in Account : Paid({}, a) = 0 /\ Funds[a] \in Nat
    BY PaidNothing, PendingPoolAssumption
  <2> QED BY <1>2, <2>1, <2>2
<1> QED
  BY <1>1, <1>3, <1>4, PendingPoolAssumption
  DEF Init, SingleInv, SeedStoresAll, BlocksDisjoint, PendingNotExecuted, EmptyPool

\* Between two steps every block can be executed by every node that lacks it:
\* its transactions are new to the node, and the seed could pay for all blocks.
LEMMA BlockFits ==
    ASSUME SingleInv, NEW s \in Seed, NEW n \in Node,
           NEW i \in 1 .. made, i \notin stored[n]
    PROVE  /\ blocks[i].trx \in SUBSET Trx /\ blocks[i].trx \cap Done(n) = {}
           /\ Valid(ledger[n].balance, blocks[i].trx)
<1> DEFINE B == blocks[i].trx
<1>1. /\ ledger \in [Node -> Ledger] /\ blocks \in [BlockNo -> Block]
      /\ made \in 0 .. MaxBlocks /\ s \in Node /\ i \in BlockNo
  BY PendingPoolAssumption DEF SingleInv, PoolInv, TypeOK, BlockNo
<1>2. B \in SUBSET Trx
  BY <1>1 DEF Block
<1>3. B \cap Done(n) = {}
  BY DEF SingleInv, SeedStoresAll, BlocksDisjoint, Done
<1>4. Done(n) \cup B \in SUBSET Done(s)
  BY <1>2 DEF SingleInv, SeedStoresAll, Done
<1>5. Done(n) \in SUBSET Trx /\ Done(s) \in SUBSET Trx
  BY DEF Done
<1> HIDE DEF B
<1>6. ASSUME NEW a \in Account
      PROVE  Paid(B, a) <= ledger[n].balance[a]
  <2>1. Paid(Done(n) \cup B, a) = Paid(Done(n), a) + Paid(B, a)
    BY <1>2, <1>3, <1>5, PaidUnion
  <2>2. Paid(Done(n) \cup B, a) <= Paid(Done(s), a)
    BY <1>4, <1>5, PaidMonotone
  <2>3. /\ Paid(Done(n), a) \in Nat /\ Paid(B, a) \in Nat /\ Paid(Done(s), a) \in Nat
        /\ ledger[n].balance[a] \in Nat /\ ledger[s].balance[a] \in Nat
    BY <1>1, <1>2, <1>5, PaidType DEF Ledger
  <2>4. /\ ledger[n].balance[a] + Paid(Done(n), a) = Funds[a]
        /\ ledger[s].balance[a] + Paid(Done(s), a) = Funds[a]
    BY <1>1 DEF SingleInv, LedgerOfStored
  <2> QED BY <2>1, <2>2, <2>3, <2>4
<1> QED
  BY <1>2, <1>3, <1>6 DEF Valid, B

\* The seed makes a block.
LEMMA GenerateBlockSingle ==
    ASSUME SingleInv, PoolInv', NEW s, Seed = {s}, "torn" \notin Faults, GenerateBlock(s)
    PROVE  SingleInv'
<1>1. /\ pool \in [Node -> Pool] /\ ledger \in [Node -> Ledger]
      /\ stored \in [Node -> SUBSET BlockNo] /\ blocks \in [BlockNo -> Block]
      /\ made \in 0 .. MaxBlocks /\ s \in Node
  BY PendingPoolAssumption DEF SingleInv, PoolInv, TypeOK
<1>2. PICK B \in SUBSET pool[s].index :
         /\ Valid(ledger[s].balance, B)
         /\ \/ pool' = [pool EXCEPT ![s] = Cleared(pool[s], B)]
                /\ UNCHANGED <<ledger, stored, blocks, made>>
            \/ /\ made < MaxBlocks
               /\ pool' = [pool EXCEPT ![s] = Cleared(Cleared(pool[s], B), B)]
               /\ ledger' = [ledger EXCEPT ![s] = Executed(ledger[s], B)]
               /\ made' = made + 1
               /\ blocks' = [blocks EXCEPT ![made + 1] = [trx |-> B, past |-> stored[s]]]
               /\ stored' = [stored EXCEPT ![s] = @ \cup {made + 1}]
            \/ Dies(s, "crash", Cleared(pool[s], B), ledger[s])
                /\ UNCHANGED <<stored, blocks, made>>
  BY Zenon DEF GenerateBlock, Scan, Dies, Fault
<1>3. /\ B \in SUBSET Trx /\ B \subseteq pool[s].pending
      /\ pool[s].pending \in SUBSET Trx
  BY <1>1 DEF SingleInv, PoolInv, PoolLayers, Pool
<1>4. \A t \in pool[s].pending : ledger[s].executed[t] = 0
  BY <1>1 DEF SingleInv, PendingNotExecuted
<1>5. CASE /\ pool' = [pool EXCEPT ![s] = Cleared(pool[s], B)]
           /\ UNCHANGED <<ledger, stored, blocks, made>>
  <2>1. Cleared(pool[s], B).pending = pool[s].pending \ B
    BY DEF Cleared
  <2> QED BY <1>1, <1>4, <1>5, <2>1, PoolOnly
<1>6. CASE /\ made < MaxBlocks
           /\ pool' = [pool EXCEPT ![s] = Cleared(Cleared(pool[s], B), B)]
           /\ ledger' = [ledger EXCEPT ![s] = Executed(ledger[s], B)]
           /\ made' = made + 1
           /\ blocks' = [blocks EXCEPT ![made + 1] = [trx |-> B, past |-> stored[s]]]
           /\ stored' = [stored EXCEPT ![s] = @ \cup {made + 1}]
  <2>1. made + 1 \in BlockNo /\ made + 1 \notin 1 .. made
    BY <1>1, <1>6, PendingPoolAssumption DEF BlockNo
  <2>2. blocks'[made + 1].trx = B
    BY <1>1, <1>6, <2>1
  <2>3. \A j \in 1 .. made : blocks'[j] = blocks[j]
    BY <1>1, <1>6, <2>1, PendingPoolAssumption DEF BlockNo
  <2>4. \A m \in Node : \A j \in stored[m] : blocks'[j] = blocks[j]
    BY <2>3 DEF SingleInv, SeedStoresAll
  <2>5. B \cap Done(s) = {}
    BY <1>1, <1>3, <1>4 DEF SingleInv, LedgerOfStored
  <2>6. Cleared(Cleared(pool[s], B), B).pending \subseteq pool[s].pending \ B
    BY DEF Cleared
  <2>7. LedgerOfStored' /\ PendingNotExecuted'
    BY <1>1, <1>2, <1>3, <1>6, <2>1, <2>2, <2>4, <2>5, <2>6, ExecuteBlock
  <2>8. 1 .. made' = (1 .. made) \cup {made + 1}
    BY <1>1, <1>6
  <2>9. SeedStoresAll'
    BY <1>1, <1>6, <2>8 DEF SingleInv, SeedStoresAll
  <2>10. \A j \in 1 .. made : blocks[j].trx \cap B = {}
    BY <1>1, <1>3, <2>5 DEF SingleInv, SeedStoresAll, Done
  <2>11. BlocksDisjoint'
    BY <2>2, <2>3, <2>8, <2>10 DEF SingleInv, BlocksDisjoint
  <2> QED BY <2>7, <2>9, <2>11 DEF SingleInv
<1>7. CASE /\ Dies(s, "crash", Cleared(pool[s], B), ledger[s])
           /\ UNCHANGED <<stored, blocks, made>>
  <2> DEFINE q == [EmptyPool EXCEPT !.pending = Cleared(pool[s], B).pending]
  <2>1. q.pending = pool[s].pending \ B
    BY DEF Cleared, EmptyPool
  <2>2. pool' = [pool EXCEPT ![s] = q] /\ ledger' = ledger
    BY <1>1, <1>7 DEF Dies
  <2> HIDE DEF q
  <2> QED BY <1>1, <1>4, <1>7, <2>1, <2>2, PoolOnly
<1> QED
  BY <1>2, <1>5, <1>6, <1>7

\* A node executes a block that it receives.
LEMMA PushBlockSingle ==
    ASSUME SingleInv, PoolInv', NEW s, Seed = {s}, "torn" \notin Faults,
           NEW n \in Node, NEW i \in BlockNo, PushBlock(n, i)
    PROVE  SingleInv'
<1> DEFINE B == blocks[i].trx
<1>1. /\ pool \in [Node -> Pool] /\ stored \in [Node -> SUBSET BlockNo]
      /\ made \in 0 .. MaxBlocks /\ s \in Node
  BY PendingPoolAssumption DEF SingleInv, PoolInv, TypeOK
<1>2. i \in 1 .. made /\ i \notin stored[n] /\ UNCHANGED <<blocks, made>>
  BY <1>1 DEF PushBlock, BlockNo
<1>3. /\ pool' = [pool EXCEPT ![n] = Cleared(pool[n], B)]
      /\ ledger' = [ledger EXCEPT ![n] = Executed(ledger[n], B)]
      /\ stored' = [stored EXCEPT ![n] = @ \cup {i}]
  BY DEF PushBlock, Dies, Fault
<1>4. B \in SUBSET Trx /\ B \cap Done(n) = {} /\ Valid(ledger[n].balance, B)
  BY <1>2, BlockFits
<1>5. Cleared(pool[n], B).pending \subseteq pool[n].pending \ B
  BY DEF Cleared
<1>6. LedgerOfStored' /\ PendingNotExecuted'
  BY <1>2, <1>3, <1>4, <1>5, ExecuteBlock
<1>7. SeedStoresAll' /\ BlocksDisjoint'
  BY <1>1, <1>2, <1>3 DEF SingleInv, SeedStoresAll, BlocksDisjoint
<1> QED
  BY <1>6, <1>7 DEF SingleInv

\* Every step keeps the invariant.
LEMMA SingleInvStep ==
    ASSUME NEW s, Seed = {s}, "torn" \notin Faults
    PROVE  SingleInv /\ [Next]_vars => SingleInv'
<1> SUFFICES ASSUME SingleInv, [Next]_vars PROVE SingleInv'
  OBVIOUS
<1>1. PoolInv'
  BY PoolInvStep DEF SingleInv
<1>2. /\ pool \in [Node -> Pool] /\ ledger \in [Node -> Ledger]
  BY DEF SingleInv, PoolInv, TypeOK
<1>3. ASSUME NEW n \in Node PROVE \A t \in pool[n].pending : ledger[n].executed[t] = 0
  BY DEF SingleInv, PendingNotExecuted
<1>4. ASSUME NEW n \in Node, NEW t \in Trx, StorePending(n, t) PROVE SingleInv'
  <2>1. WithPending(pool[n], t).pending = pool[n].pending \cup {t}
    BY <1>2 DEF WithPending, Pool
  <2>2. ledger[n].executed[t] = 0
    BY <1>2, <1>4 DEF StorePending, KnownTrx, Ledger
  <2>3. /\ pool' = [pool EXCEPT ![n] = WithPending(pool[n], t)]
        /\ UNCHANGED <<ledger, stored, blocks, made>>
    BY <1>4 DEF StorePending
  <2>4. \A u \in WithPending(pool[n], t).pending : ledger[n].executed[u] = 0
    BY <1>3, <2>1, <2>2
  <2> QED BY <1>1, <2>3, <2>4, PoolOnly
<1>5. ASSUME NEW n \in Node, RevalidatePending(n) PROVE SingleInv'
  <2>1. PICK q : /\ pool' = [pool EXCEPT ![n] = q] /\ q.pending \subseteq pool[n].pending
                 /\ UNCHANGED <<ledger, stored, blocks, made>>
    BY <1>5 DEF RevalidatePending
  <2>2. \A t \in q.pending : ledger[n].executed[t] = 0
    BY <1>3, <2>1
  <2> QED BY <1>1, <2>1, <2>2, PoolOnly
<1>6. ASSUME NEW n \in Node, Open(n) PROVE SingleInv'
  <2>1. PICK keep : pool' = [pool EXCEPT ![n] = [@ EXCEPT !.index = keep, !.overlay = keep]]
    BY <1>6 DEF Open
  <2> DEFINE q == [pool[n] EXCEPT !.index = keep, !.overlay = keep]
  <2>2. pool' = [pool EXCEPT ![n] = q] /\ UNCHANGED <<ledger, stored, blocks, made>>
    BY <1>6, <2>1 DEF Open
  <2>3. q.pending = pool[n].pending
    BY <1>2 DEF Pool
  <2> HIDE DEF q
  <2>4. \A t \in q.pending : ledger[n].executed[t] = 0
    BY <1>3, <2>3
  <2> QED BY <1>1, <2>2, <2>4, PoolOnly
<1>7. ASSUME NEW n \in Node, Crash(n) PROVE SingleInv'
  <2> DEFINE q == [EmptyPool EXCEPT !.pending = pool[n].pending]
  <2>1. q.pending = pool[n].pending
    BY DEF EmptyPool
  <2>2. /\ pool' = [pool EXCEPT ![n] = q] /\ ledger' = ledger
        /\ UNCHANGED <<stored, blocks, made>>
    BY <1>2, <1>7 DEF Crash, Dies
  <2> HIDE DEF q
  <2> QED BY <1>1, <1>3, <2>1, <2>2, PoolOnly
<1>8. ASSUME NEW n \in Node, RescheduleDelegateLoop(n) \/ WalletLock(n) PROVE SingleInv'
  <2>1. UNCHANGED <<pool, ledger, stored, blocks, made>>
    BY <1>8 DEF RescheduleDelegateLoop, WalletLock
  <2>2. pool' = [pool EXCEPT ![n] = pool[n]]
    BY <1>2, <2>1
  <2> QED BY <1>1, <1>3, <2>1, <2>2, PoolOnly
<1>9. ASSUME NEW n \in Node, GenerateBlock(n) PROVE SingleInv'
  <2>1. n = s
    BY <1>9 DEF GenerateBlock
  <2> QED BY <1>1, <1>9, <2>1, GenerateBlockSingle
<1>10. ASSUME NEW n \in Node, NEW i \in BlockNo, PushBlock(n, i) PROVE SingleInv'
  BY <1>1, <1>10, PushBlockSingle
<1>11. CASE UNCHANGED vars
  BY <1>1, <1>11 DEF vars, SingleInv, SeedStoresAll, BlocksDisjoint, LedgerOfStored,
                     PendingNotExecuted, Done
<1> QED
  BY <1>4, <1>5, <1>6, <1>7, <1>8, <1>9, <1>10, <1>11 DEF Next

\* With one seed, exceptions and crashes between operations leave every node
\* with exactly the executions of the blocks it stores.
THEOREM SingleSeedInvariant ==
    ASSUME NEW s, Seed = {s}, "torn" \notin Faults
    PROVE  Spec => []SingleInv
<1>1. Init => SingleInv
  BY SingleInvInit
<1>2. SingleInv /\ [Next]_vars => SingleInv'
  BY SingleInvStep
<1> QED
  BY <1>1, <1>2, PTL DEF Spec

\* With one seed no node executes a transaction twice, however often it
\* arrives, with exceptions in push_block and crashes between operations.
THEOREM SingleSeedOnce ==
    ASSUME NEW s, Seed = {s}, "torn" \notin Faults
    PROVE  Spec => []AtMostOnce
<1>1. SingleInv => AtMostOnce
  BY DEF SingleInv, LedgerOfStored, AtMostOnce
<1> QED
  BY <1>1, SingleSeedInvariant, PTL

\* With one seed a transaction that was executed neither stays nor becomes
\* pending: clear_pending and store_pending_transaction see to it.
THEOREM SingleSeedPending ==
    ASSUME NEW s, Seed = {s}, "torn" \notin Faults
    PROVE  Spec => []PendingNotExecuted
<1>1. SingleInv => PendingNotExecuted
  BY DEF SingleInv
<1> QED
  BY <1>1, SingleSeedInvariant, PTL

\* With one seed every node can execute every block as soon as it has the
\* blocks before it: the replicas can reach the same state.
THEOREM SingleSeedAccepted ==
    ASSUME NEW s, Seed = {s}, "torn" \notin Faults
    PROVE  Spec => []BlocksAccepted
<1>1. SingleInv => BlocksAccepted
  <2> SUFFICES ASSUME SingleInv, NEW n \in Node, NEW i \in 1 .. made, i \notin stored[n]
               PROVE  Valid(ledger[n].balance, blocks[i].trx)
    BY DEF BlocksAccepted
  <2> QED BY BlockFits
<1> QED
  BY <1>1, SingleSeedInvariant, PTL
=============================================================================
