-------------------------- MODULE PendingPool_proofs --------------------------
(***************************************************************************)
(* Theorems about PendingPool, for every set of nodes and transactions and *)
(* every fault.                                                            *)
(***************************************************************************)
EXTENDS PendingPool, FiniteSetTheorems, TLAPS

-----------------------------------------------------------------------------
(* Counting what an account pays.                                          *)

\* A set of transactions costs an account a natural number.
LEMMA PaidType ==
    ASSUME NEW S \in SUBSET Trx, NEW a
    PROVE  /\ Paid(S, a) \in Nat
           /\ IsFiniteSet({t \in S : Payer[t] = a})
<1>1. {t \in S : Payer[t] = a} \in SUBSET Trx
  OBVIOUS
<1>2. IsFiniteSet({t \in S : Payer[t] = a})
  BY <1>1, FS_Subset, PendingPoolAssumption
<1> QED
  BY <1>2, FS_CardinalityType DEF Paid

\* Nothing costs nothing.
LEMMA PaidNothing ==
    ASSUME NEW a
    PROVE  Paid({}, a) = 0
<1>1. {t \in {} : Payer[t] = a} = {}
  OBVIOUS
<1> QED
  BY <1>1, FS_EmptySet DEF Paid

\* An empty overlay fits on every ledger.
LEMMA NothingValid ==
    ASSUME NEW bal \in [Account -> Nat]
    PROVE  Valid(bal, {})
<1> SUFFICES ASSUME NEW a \in Account
             PROVE  Paid({}, a) <= bal[a]
  BY DEF Valid
<1> QED
  BY PaidNothing

\* evaluate: an overlay that fits still fits with a transaction that fits.
LEMMA FitsValid ==
    ASSUME NEW bal \in [Account -> Nat], NEW S \in SUBSET Trx, NEW t \in Trx,
           Valid(bal, S), Fits(bal, S, t)
    PROVE  Valid(bal, S \cup {t})
<1> SUFFICES ASSUME NEW a \in Account
             PROVE  Paid(S \cup {t}, a) <= bal[a]
  BY DEF Valid
<1>1. Paid(S, a) <= bal[a] /\ Paid(S, a) \in Nat /\ bal[a] \in Nat
  BY PaidType DEF Valid
<1>2. CASE Payer[t] = a
  <2>1. {u \in S \cup {t} : Payer[u] = a} = {u \in S : Payer[u] = a} \cup {t}
    BY <1>2
  <2>2. IsFiniteSet({u \in S : Payer[u] = a})
    BY PaidType
  <2>3. \/ Paid(S \cup {t}, a) = Paid(S, a)
        \/ Paid(S \cup {t}, a) = Paid(S, a) + 1
    BY <2>1, <2>2, FS_AddElement DEF Paid
  <2>4. Paid(S, a) < bal[a]
    BY <1>2 DEF Fits
  <2> QED
    BY <1>1, <2>3, <2>4
<1>3. CASE Payer[t] # a
  <2>1. {u \in S \cup {t} : Payer[u] = a} = {u \in S : Payer[u] = a}
    BY <1>3
  <2> QED
    BY <1>1, <2>1 DEF Paid
<1> QED
  BY <1>2, <1>3

\* apply_changes of a valid block leaves no negative balance.
LEMMA ExecutedType ==
    ASSUME NEW l \in Ledger, NEW B \in SUBSET Trx, Valid(l.balance, B)
    PROVE  Executed(l, B) \in Ledger
<1>1. ASSUME NEW a \in Account
      PROVE  l.balance[a] - Paid(B, a) \in Nat
  <2>1. l.balance[a] \in Nat
    BY DEF Ledger
  <2>2. Paid(B, a) \in Nat /\ Paid(B, a) <= l.balance[a]
    BY PaidType DEF Valid
  <2> QED
    BY <2>1, <2>2
<1>2. ASSUME NEW t \in Trx
      PROVE  l.executed[t] \in Nat /\ l.executed[t] + 1 \in Nat
  BY DEF Ledger
<1> QED
  BY <1>1, <1>2 DEF Executed, Ledger

-----------------------------------------------------------------------------
(* One node's pool and ledger.                                             *)

\* What the invariant says of the pool p and the ledger l of one node.
NodeOK(p, l) ==
    /\ p \in Pool /\ l \in Ledger
    /\ p.overlay \subseteq p.index /\ p.index \subseteq p.pending
    /\ Valid(l.balance, p.overlay)
    /\ ~p.again => p.overlay = p.index

\* The invariant, node by node.
LEMMA PoolInvNodes ==
    PoolInv <=> TypeOK /\ \A n \in Node : NodeOK(pool[n], ledger[n])
BY DEF PoolInv, TypeOK, PoolLayers, OverlayFits, NodeOK

\* clear_pending restores a node's pool on whatever ledger results.
LEMMA ClearedOK ==
    ASSUME NEW p, NEW l, NEW m \in Ledger, NEW B \in SUBSET Trx, NodeOK(p, l)
    PROVE  NodeOK(Cleared(p, B), m)
<1>1. Cleared(p, B) \in Pool
  BY DEF NodeOK, Cleared, Pool
<1>2. Valid(m.balance, {})
  BY NothingValid DEF Ledger
<1> QED
  BY <1>1, <1>2 DEF NodeOK, Cleared

\* So does a crash, which leaves only the pending database.
LEMMA DeadOK ==
    ASSUME NEW p, NEW l, NEW m \in Ledger, NodeOK(p, l)
    PROVE  NodeOK([EmptyPool EXCEPT !.pending = p.pending], m)
<1> DEFINE q == [EmptyPool EXCEPT !.pending = p.pending]
<1>1. q \in Pool
  BY DEF EmptyPool, NodeOK, Pool
<1>2. q.index = {} /\ q.overlay = {}
  BY DEF EmptyPool
<1>3. Valid(m.balance, {})
  BY NothingValid DEF Ledger
<1> HIDE DEF q
<1>4. NodeOK(q, m)
  BY <1>1, <1>2, <1>3 DEF NodeOK
<1> QED
  BY <1>4 DEF q

\* One step of node n leaves the other nodes alone.
LEMMA OneNode ==
    ASSUME TypeOK, \A m \in Node : NodeOK(pool[m], ledger[m]),
           NEW n \in Node, NEW p, NEW l, NodeOK(p, l),
           pool' = [pool EXCEPT ![n] = p],
           ledger' = [ledger EXCEPT ![n] = l]
    PROVE  /\ \A m \in Node : NodeOK(pool'[m], ledger'[m])
           /\ pool' \in [Node -> Pool] /\ ledger' \in [Node -> Ledger]
<1>1. p \in Pool /\ l \in Ledger
  BY DEF NodeOK
<1>2. pool' \in [Node -> Pool] /\ ledger' \in [Node -> Ledger]
  BY <1>1 DEF TypeOK
<1>3. ASSUME NEW m \in Node
      PROVE  NodeOK(pool'[m], ledger'[m])
  <2>1. CASE m = n
    <3>1. pool'[m] = p /\ ledger'[m] = l
      BY <2>1 DEF TypeOK
    <3> QED
      BY <3>1
  <2>2. CASE m # n
    <3>1. pool'[m] = pool[m] /\ ledger'[m] = ledger[m]
      BY <2>2 DEF TypeOK
    <3> QED
      BY <3>1
  <2> QED
    BY <2>1, <2>2
<1> QED
  BY <1>2, <1>3

-----------------------------------------------------------------------------
(* The invariant.                                                          *)

\* The genesis state satisfies the invariant.
LEMMA PoolInvInit == Init => PoolInv
<1> SUFFICES ASSUME Init
             PROVE  PoolInv
  OBVIOUS
<1>1. TypeOK
  BY PendingPoolAssumption
  DEF Init, TypeOK, Pool, Ledger, Block, NoBlock, EmptyPool, BlockNo
<1>2. ASSUME NEW n \in Node
      PROVE  NodeOK(pool[n], ledger[n])
  <2>1. pool[n] = EmptyPool /\ pool[n] \in Pool /\ ledger[n] \in Ledger
    BY <1>1 DEF Init, TypeOK
  <2>2. Valid(ledger[n].balance, {})
    BY <2>1, NothingValid DEF Ledger
  <2> QED
    BY <2>1, <2>2 DEF NodeOK, EmptyPool
<1> QED
  BY <1>1, <1>2, PoolInvNodes

\* Every step keeps the invariant.
LEMMA PoolInvStep == PoolInv /\ [Next]_vars => PoolInv'
<1> SUFFICES ASSUME PoolInv, [Next]_vars
             PROVE  PoolInv'
  OBVIOUS
<1>1. TypeOK /\ \A m \in Node : NodeOK(pool[m], ledger[m])
  BY PoolInvNodes
<1>2. SUFFICES /\ \A m \in Node : NodeOK(pool'[m], ledger'[m])
               /\ TypeOK'
  BY DEF PoolInv, TypeOK, PoolLayers, OverlayFits, NodeOK
<1> DEFINE Same(n) == ledger' = [ledger EXCEPT ![n] = ledger[n]]
           Kept(n) == pool' = [pool EXCEPT ![n] = pool[n]]
           Rest == /\ stored' \in [Node -> SUBSET BlockNo]
                   /\ blocks' \in [BlockNo -> Block]
                   /\ made' \in 0 .. MaxBlocks
                   /\ mode' \in [Node -> {"down", "idle", "looping"}]
                   /\ faults' \in 0 .. MaxFaults
<1>3. ASSUME NEW n \in Node, ledger' = ledger
      PROVE  Same(n)
  BY <1>1, <1>3 DEF TypeOK
<1>4. ASSUME NEW n \in Node, NEW p, NEW l, NodeOK(p, l), Rest,
             pool' = [pool EXCEPT ![n] = p], ledger' = [ledger EXCEPT ![n] = l]
      PROVE  TypeOK' /\ \A m \in Node : NodeOK(pool'[m], ledger'[m])
  BY <1>1, <1>4, OneNode DEF TypeOK
<1>5. ASSUME NEW n \in Node, NEW kind, NEW p, NEW q, NEW l \in Ledger, NodeOK(p, q),
             Dies(n, kind, p, l), UNCHANGED <<stored, blocks, made>>
      PROVE  TypeOK' /\ \A m \in Node : NodeOK(pool'[m], ledger'[m])
  <2>1. NodeOK([EmptyPool EXCEPT !.pending = p.pending], l)
    BY <1>5, DeadOK
  <2>2. Rest
    BY <1>1, <1>5, PendingPoolAssumption DEF Dies, Fault, TypeOK
  <2> QED
    BY <1>4, <1>5, <2>1, <2>2 DEF Dies
<1>6. ASSUME NEW n \in Node, NEW t \in Trx, StorePending(n, t)
      PROVE  TypeOK' /\ \A m \in Node : NodeOK(pool'[m], ledger'[m])
  <2>1. NodeOK(pool[n], ledger[n])
    BY <1>1
  <2>2. Valid(ledger[n].balance, pool[n].overlay \cup {t})
    BY <1>6, <2>1, FitsValid DEF StorePending, NodeOK, Ledger, Pool
  <2>3. /\ WithPending(pool[n], t) \in Pool
        /\ WithPending(pool[n], t).pending = pool[n].pending \cup {t}
        /\ WithPending(pool[n], t).index = pool[n].index \cup {t}
        /\ WithPending(pool[n], t).overlay = pool[n].overlay \cup {t}
        /\ WithPending(pool[n], t).again = pool[n].again
    BY <2>1 DEF WithPending, NodeOK, Pool
  <2>4. NodeOK(WithPending(pool[n], t), ledger[n])
    BY <2>1, <2>2, <2>3 DEF NodeOK
  <2>5. pool' = [pool EXCEPT ![n] = WithPending(pool[n], t)]
    BY <1>6 DEF StorePending
  <2>6. Rest /\ Same(n)
    BY <1>1, <1>3, <1>6 DEF StorePending, TypeOK
  <2> QED
    BY <1>4, <2>4, <2>5, <2>6
<1>7. ASSUME NEW n \in Node, RevalidatePending(n)
      PROVE  TypeOK' /\ \A m \in Node : NodeOK(pool'[m], ledger'[m])
  <2>1. PICK keep \in SUBSET pool[n].pending, drop \in SUBSET pool[n].pending :
          /\ Scan(ledger[n].balance, pool[n].pending, keep, drop, MaxIndex + 1)
          /\ pool' = [pool EXCEPT ![n] =
                [pending |-> pool[n].pending \ drop, index |-> keep, overlay |-> keep,
                 again |-> FALSE]]
    BY <1>7 DEF RevalidatePending
  <2>2. NodeOK(pool[n], ledger[n])
    BY <1>1
  <2>3. /\ Valid(ledger[n].balance, keep)
        /\ keep \subseteq pool[n].pending \ drop
    BY <2>1 DEF Scan
  <2>4. NodeOK([pending |-> pool[n].pending \ drop, index |-> keep, overlay |-> keep,
                again |-> FALSE], ledger[n])
    BY <2>2, <2>3 DEF NodeOK, Pool
  <2>5. Rest /\ Same(n)
    BY <1>1, <1>3, <1>7 DEF RevalidatePending, TypeOK
  <2> QED
    BY <1>4, <2>1, <2>4, <2>5
<1>8. ASSUME NEW n \in Node, GenerateBlock(n)
      PROVE  TypeOK' /\ \A m \in Node : NodeOK(pool'[m], ledger'[m])
  <2>1. NodeOK(pool[n], ledger[n])
    BY <1>1
  <2> DEFINE P(B) == Cleared(pool[n], B)
             L(B) == Executed(ledger[n], B)
  <2>2. PICK B \in SUBSET pool[n].index :
          /\ \E drop \in SUBSET pool[n].index :
                Scan(ledger[n].balance, pool[n].index \ Excluded[n], B, drop, MaxTrx)
          /\ \/ /\ pool' = [pool EXCEPT ![n] = P(B)]
                /\ UNCHANGED <<ledger, stored, blocks, made, mode, faults>>
             \/ /\ pool' = [pool EXCEPT ![n] = Cleared(P(B), B)]
                /\ ledger' = [ledger EXCEPT ![n] = L(B)]
                /\ made' = made + 1
                /\ blocks' = [blocks EXCEPT ![made + 1] = [trx |-> B, past |-> stored[n]]]
                /\ stored' = [stored EXCEPT ![n] = @ \cup {made + 1}]
                /\ UNCHANGED <<mode, faults>>
             \/ /\ Fault("throw")
                /\ pool' = [pool EXCEPT ![n] = P(B)]
                /\ mode' = [mode EXCEPT ![n] = "idle"]
                /\ UNCHANGED <<ledger, stored, blocks, made>>
             \/ /\ Dies(n, "crash", P(B), ledger[n]) \/ Dies(n, "torn", P(B), L(B))
                /\ UNCHANGED <<stored, blocks, made>>
    BY <1>8 DEF GenerateBlock
  <2>3. B \in SUBSET Trx /\ ledger[n] \in Ledger /\ Valid(ledger[n].balance, B)
    BY <2>1, <2>2 DEF NodeOK, Pool, Scan
  <2>4. L(B) \in Ledger
    BY <2>3, ExecutedType
  <2>5. NodeOK(P(B), ledger[n]) /\ NodeOK(P(B), L(B))
    BY <2>1, <2>3, <2>4, ClearedOK
  <2>6. NodeOK(Cleared(P(B), B), L(B))
    BY <2>3, <2>4, <2>5, ClearedOK
  <2> HIDE DEF P, L
  <2>7. CASE /\ pool' = [pool EXCEPT ![n] = P(B)]
             /\ UNCHANGED <<ledger, stored, blocks, made, mode, faults>>
    <3>1. Rest /\ Same(n)
      BY <1>1, <1>3, <2>7 DEF TypeOK
    <3> QED
      BY <1>4, <2>5, <2>7, <3>1
  <2>8. CASE /\ pool' = [pool EXCEPT ![n] = Cleared(P(B), B)]
             /\ ledger' = [ledger EXCEPT ![n] = L(B)]
             /\ made' = made + 1
             /\ blocks' = [blocks EXCEPT ![made + 1] = [trx |-> B, past |-> stored[n]]]
             /\ stored' = [stored EXCEPT ![n] = @ \cup {made + 1}]
             /\ UNCHANGED <<mode, faults>>
    <3>1. made < MaxBlocks
      BY <1>8 DEF GenerateBlock
    <3>2. made + 1 \in BlockNo /\ made + 1 \in 0 .. MaxBlocks
      BY <1>1, <3>1, PendingPoolAssumption DEF TypeOK, BlockNo
    <3>3. stored[n] \in SUBSET BlockNo
      BY <1>1 DEF TypeOK
    <3>4. [trx |-> B, past |-> stored[n]] \in Block
      BY <2>3, <3>3 DEF Block
    <3>5. stored' \in [Node -> SUBSET BlockNo]
      BY <1>1, <2>8, <3>2 DEF TypeOK
    <3>6. blocks' \in [BlockNo -> Block]
      BY <1>1, <2>8, <3>4 DEF TypeOK
    <3>7. Rest
      BY <1>1, <2>8, <3>2, <3>5, <3>6 DEF TypeOK
    <3> QED
      BY <1>4, <2>6, <2>8, <3>7
  <2>9. CASE /\ Fault("throw")
             /\ pool' = [pool EXCEPT ![n] = P(B)]
             /\ mode' = [mode EXCEPT ![n] = "idle"]
             /\ UNCHANGED <<ledger, stored, blocks, made>>
    <3>1. Rest /\ Same(n)
      BY <1>1, <1>3, <2>9, PendingPoolAssumption DEF TypeOK, Fault
    <3> QED
      BY <1>4, <2>5, <2>9, <3>1
  <2>10. CASE /\ Dies(n, "crash", P(B), ledger[n]) \/ Dies(n, "torn", P(B), L(B))
              /\ UNCHANGED <<stored, blocks, made>>
    BY <1>5, <2>3, <2>4, <2>5, <2>10
  <2> QED
    BY <2>2, <2>7, <2>8, <2>9, <2>10
<1>9. ASSUME NEW n \in Node, NEW i \in BlockNo, PushBlock(n, i)
      PROVE  TypeOK' /\ \A m \in Node : NodeOK(pool'[m], ledger'[m])
  <2> DEFINE B == blocks[i].trx
             l == Executed(ledger[n], B)
  <2>1. NodeOK(pool[n], ledger[n]) /\ ledger[n] \in Ledger
    BY <1>1 DEF NodeOK
  <2>2. B \in SUBSET Trx /\ Valid(ledger[n].balance, B)
    BY <1>1, <1>9 DEF TypeOK, Block, PushBlock
  <2>3. l \in Ledger
    BY <2>1, <2>2, ExecutedType
  <2>4. NodeOK(Cleared(pool[n], B), l)
    BY <2>1, <2>2, <2>3, ClearedOK
  <2>5. /\ \/ /\ pool' = [pool EXCEPT ![n] = Cleared(pool[n], B)]
              /\ ledger' = [ledger EXCEPT ![n] = l]
              /\ stored' = [stored EXCEPT ![n] = @ \cup {i}]
              /\ UNCHANGED <<mode, faults>>
           \/ /\ Dies(n, "torn", pool[n], l) \/ Dies(n, "torn", Cleared(pool[n], B), l)
              /\ UNCHANGED stored
        /\ UNCHANGED <<blocks, made>>
    BY <1>9 DEF PushBlock
  <2> HIDE DEF B, l
  <2>6. CASE /\ pool' = [pool EXCEPT ![n] = Cleared(pool[n], B)]
             /\ ledger' = [ledger EXCEPT ![n] = l]
             /\ stored' = [stored EXCEPT ![n] = @ \cup {i}]
             /\ UNCHANGED <<mode, faults>>
    <3>1. Rest
      BY <1>1, <2>5, <2>6 DEF TypeOK
    <3> QED
      BY <1>4, <2>4, <2>6, <3>1
  <2>7. CASE /\ Dies(n, "torn", pool[n], l) \/ Dies(n, "torn", Cleared(pool[n], B), l)
             /\ UNCHANGED stored
    BY <1>5, <2>1, <2>3, <2>4, <2>5, <2>7
  <2> QED
    BY <2>5, <2>6, <2>7
<1>10. ASSUME NEW n \in Node, Crash(n)
       PROVE  TypeOK' /\ \A m \in Node : NodeOK(pool'[m], ledger'[m])
  <2>1. NodeOK(pool[n], ledger[n]) /\ ledger[n] \in Ledger
    BY <1>1 DEF NodeOK
  <2> QED
    BY <1>5, <1>10, <2>1 DEF Crash
<1>11. ASSUME NEW n \in Node, Open(n)
       PROVE  TypeOK' /\ \A m \in Node : NodeOK(pool'[m], ledger'[m])
  <2>1. PICK keep \in SUBSET pool[n].pending :
          /\ Scan(ledger[n].balance, pool[n].pending, keep, pool[n].pending \ keep,
                  Cardinality(Trx))
          /\ pool' = [pool EXCEPT ![n] =
                        [pool[n] EXCEPT !.index = keep, !.overlay = keep]]
    BY <1>11 DEF Open
  <2>2. NodeOK(pool[n], ledger[n])
    BY <1>1
  <2> DEFINE q == [pool[n] EXCEPT !.index = keep, !.overlay = keep]
  <2>3. q \in Pool /\ q.pending = pool[n].pending /\ q.index = keep /\ q.overlay = keep
    BY <2>2 DEF NodeOK, Pool
  <2>4. Valid(ledger[n].balance, keep)
    BY <2>1 DEF Scan
  <2>5. pool' = [pool EXCEPT ![n] = q]
    BY <2>1
  <2>6. Rest /\ Same(n)
    BY <1>1, <1>3, <1>11 DEF Open, TypeOK
  <2> HIDE DEF q
  <2>7. NodeOK(q, ledger[n])
    BY <2>2, <2>3, <2>4 DEF NodeOK
  <2> QED
    BY <1>4, <2>5, <2>6, <2>7
<1>12. ASSUME NEW n \in Node, RescheduleDelegateLoop(n)
       PROVE  TypeOK' /\ \A m \in Node : NodeOK(pool'[m], ledger'[m])
  BY <1>1, <1>12 DEF RescheduleDelegateLoop, TypeOK
<1>13. ASSUME NEW n \in Node, WalletLock(n)
       PROVE  TypeOK' /\ \A m \in Node : NodeOK(pool'[m], ledger'[m])
  BY <1>1, <1>13 DEF WalletLock, TypeOK
<1>14. CASE UNCHANGED vars
  BY <1>1, <1>14 DEF vars, TypeOK
<1> QED
  BY <1>6, <1>7, <1>8, <1>9, <1>10, <1>11, <1>12, <1>13, <1>14 DEF Next

\* The inductive invariant of the pool: at every node, under exceptions and
\* crashes at any point, the layers are nested, the overlay fits on the ledger
\* and is complete unless a revalidation is scheduled.
THEOREM PoolInvariant == Spec => []PoolInv
<1>1. Init => PoolInv
  BY PoolInvInit
<1>2. PoolInv /\ [Next]_vars => PoolInv'
  BY PoolInvStep
<1> QED
  BY <1>1, <1>2, PTL DEF Spec

\* The types survive every fault; no balance becomes negative.
THEOREM PoolTypes == Spec => []TypeOK
<1>1. PoolInv => TypeOK
  BY DEF PoolInv
<1> QED
  BY <1>1, PoolInvariant, PTL

\* What generate_block is offered when no revalidation is due can all be
\* executed: store_pending_transaction, clear_pending, revalidate_pending and
\* open keep the fee index valid on the ledger.
THEOREM OfferedIsValid == Spec => []PoolValid
<1>1. PoolInv => PoolValid
  BY DEF PoolInv, OverlayFits, PoolValid
<1> QED
  BY <1>1, PoolInvariant, PTL

\* The overlay, the fee index and the pending database never contradict each
\* other, although only the last one survives a crash.
THEOREM LayersNested == Spec => []PoolLayers
<1>1. PoolInv => PoolLayers
  BY DEF PoolInv
<1> QED
  BY <1>1, PoolInvariant, PTL

=============================================================================
