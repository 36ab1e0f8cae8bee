--------------------------- MODULE TrxRelay_proofs ---------------------------
(***************************************************************************)
(* Theorems about TrxRelay: it adds nothing to the behaviour of the pools, *)
(* and without faults a pending transaction is at one seed.                *)
(***************************************************************************)
EXTENDS TrxRelay, PendingPool_proofs

-----------------------------------------------------------------------------
(* The relay implements PendingPool.                                       *)

\* Every step of the relay is one of PendingPool or changes no pool.
LEMMA RelayStep == [RelayNext]_relayVars => [Next]_vars
<1> USE PendingPoolAssumption, TrxRelayAssumption
<1> SUFFICES ASSUME [RelayNext]_relayVars PROVE [Next]_vars
  OBVIOUS
<1>1. ASSUME NEW t \in Trx, WalletTransfer(t) PROVE Next
  BY <1>1 DEF WalletTransfer, Next
<1>2. ASSUME NEW t \in Trx, Elapse(t) PROVE UNCHANGED vars
  BY <1>2 DEF Elapse
<1>3. ASSUME NEW f \in Fiber, BroadcastTrx(f) \/ SendReturns(f) PROVE UNCHANGED vars
  BY <1>3 DEF BroadcastTrx, SendReturns
<1>4. ASSUME RebroadcastLoop \/ RebroadcastNext PROVE UNCHANGED vars
  BY <1>4 DEF RebroadcastLoop, RebroadcastNext
<1>5. ASSUME NEW s \in Seed,
             SeedOpen(s) \/ SeedClose(s) \/ Connect(s) \/ Disconnect(s)
      PROVE  UNCHANGED vars
  BY <1>5 DEF SeedOpen, SeedClose, Connect, Disconnect
<1>6. ASSUME NEW s \in Seed, SeedLock(s) PROVE Next
  BY <1>6 DEF SeedLock, Next
<1>7. ASSUME NEW s \in Seed, SeedStep(s) PROVE Next
  BY <1>7 DEF SeedStep, Next
<1>8. ASSUME NEW s \in Seed, NEW t \in Trx, OnNewTransaction(s, t) PROVE [Next]_vars
  BY <1>8 DEF OnNewTransaction, Next
<1>9. ASSUME LocalStep PROVE Next
  BY <1>9 DEF LocalStep, Next
<1>10. ASSUME NEW i \in BlockNo, LocalPush(i) PROVE Next
  BY <1>10 DEF LocalPush, Next
<1>11. CASE UNCHANGED relayVars
  BY <1>11 DEF relayVars
<1> QED
  BY <1>1, <1>2, <1>3, <1>4, <1>5, <1>6, <1>7, <1>8, <1>9, <1>10, <1>11 DEF RelayNext

\* The calls of the wallet, the retransmission loop, lost messages and the list
\* of active seeds change pools and ledgers only as PendingPool allows.
THEOREM RelayImplementsPool == RelaySafety => ImplementsPool
<1>1. RelayInit => Init
  BY DEF RelayInit
<1> QED
  BY <1>1, RelayStep, PTL DEF RelaySafety, ImplementsPool, Spec

-----------------------------------------------------------------------------
(* Types.                                                                  *)

LEMMA RelayTypesStep ==
    ASSUME RelayTypes, PoolInv, [RelayNext]_relayVars
    PROVE  RelayTypes'
<1> USE PendingPoolAssumption, TrxRelayAssumption DEF RelayTypes, Fiber, NoCall
<1> DEFINE Call == [trx : Trx \cup {NoTrx}, seed : Seed \cup {NoSeed}, mutex : BOOLEAN]
<1>0. LocalLives => /\ active' \subseteq Seed /\ linked' \subseteq Seed
                    /\ mail' \in [Seed -> SUBSET Trx]
                    /\ call' \in [Fiber -> Call]
                    /\ todo' \subseteq Trx \X (Seed \cup {NoSeed})
  <2>1. CASE mode'[Local] = "down"
    <3>1. [s \in Seed |-> {}] \in [Seed -> SUBSET Trx]
      OBVIOUS
    <3>2. [f \in Fiber |-> NoCall] \in [Fiber -> Call]
      OBVIOUS
    <3> QED BY <2>1, <3>1, <3>2 DEF LocalLives
  <2>2. CASE mode'[Local] # "down"
    BY <2>2 DEF LocalLives
  <2> QED BY <2>1, <2>2
<1>1. ASSUME NEW t \in Trx, WalletTransfer(t) PROVE RelayTypes'
  BY <1>1 DEF WalletTransfer
<1>2. ASSUME NEW t \in Trx, Elapse(t) PROVE RelayTypes'
  BY <1>2 DEF Elapse
<1>3. ASSUME NEW f \in Fiber, BroadcastTrx(f) PROVE RelayTypes'
  <2> DEFINE t == call[f].trx
  <2>1. /\ t \in Trx
        /\ active' \subseteq Seed /\ linked' = linked
        /\ sending' = sending /\ due' = due /\ todo' = todo
    BY <1>3 DEF BroadcastTrx, ActiveSeeds, Wants
  <2>2. \/ call' = [call EXCEPT ![f] = NoCall] /\ mail' = mail
        \/ \E s \in Seed : /\ mail' = [mail EXCEPT ![s] = @ \cup {t}]
                           /\ call' = [call EXCEPT ![f] = [trx |-> t, seed |-> s, mutex |-> TRUE]]
    BY <1>3 DEF BroadcastTrx, Target, ActiveSeeds
  <2> HIDE DEF t
  <2>3. mail' \in [Seed -> SUBSET Trx]
    BY <2>1, <2>2
  <2>4. call' \in [Fiber -> Call]
    <3>1. NoCall \in Call
      OBVIOUS
    <3>2. \A s \in Seed : [trx |-> t, seed |-> s, mutex |-> TRUE] \in Call
      BY <2>1
    <3> HIDE DEF NoCall, Call, Fiber
    <3>3. call \in [Fiber -> Call]
      BY DEF Call
    <3> QED
      BY <2>2, <3>1, <3>2, <3>3
  <2> QED
    BY <2>1, <2>3, <2>4
<1>4. ASSUME NEW f \in Fiber, SendReturns(f) PROVE RelayTypes'
  BY <1>4 DEF SendReturns, Sent
<1>5. ASSUME RebroadcastLoop PROVE RelayTypes'
  <2>1. pool[Local].index \subseteq Trx
    BY DEF PoolInv, TypeOK, Pool
  <2> QED
    BY <1>5, <2>1 DEF RebroadcastLoop, ActiveSeeds
<1>6. ASSUME RebroadcastNext PROVE RelayTypes'
  <2>1. PICK e \in todo :
          /\ todo' = todo \ {e}
          /\ \/ /\ call' = [call EXCEPT !["loop"] = [NoCall EXCEPT !.trx = e[1]]]
                /\ mail' = mail
             \/ /\ e[2] \in active \cap linked
                /\ mail' = [mail EXCEPT ![e[2]] = @ \cup {e[1]}]
                /\ call' = [call EXCEPT !["loop"] =
                              [trx |-> e[1], seed |-> e[2], mutex |-> FALSE]]
             \/ mail' = mail /\ call' = call
    BY <1>6 DEF RebroadcastNext
  <2>2. e[1] \in Trx /\ e[2] \in Seed \cup {NoSeed}
    OBVIOUS
  <2>3. mail' \in [Seed -> SUBSET Trx]
    BY <2>1, <2>2
  <2>4. call' \in [Fiber -> Call]
    <3>1. /\ [NoCall EXCEPT !.trx = e[1]] \in Call
          /\ [trx |-> e[1], seed |-> e[2], mutex |-> FALSE] \in Call
      BY <2>2
    <3> HIDE DEF NoCall, Call, Fiber
    <3>2. call \in [Fiber -> Call]
      BY DEF Call
    <3> QED
      BY <2>1, <3>1, <3>2
  <2> QED
    BY <1>6, <2>1, <2>3, <2>4 DEF RebroadcastNext
<1>7. ASSUME NEW s \in Seed,
             SeedOpen(s) \/ SeedClose(s) \/ Connect(s) \/ Disconnect(s) \/ SeedLock(s)
      PROVE  RelayTypes'
  BY <1>7 DEF SeedOpen, SeedClose, Connect, Disconnect, SeedLock
<1>8. ASSUME NEW s \in Seed, SeedStep(s) PROVE RelayTypes'
  BY <1>8 DEF SeedStep
<1>9. ASSUME NEW s \in Seed, NEW t \in Trx, OnNewTransaction(s, t) PROVE RelayTypes'
  BY <1>9 DEF OnNewTransaction
<1>10. ASSUME LocalStep PROVE RelayTypes'
  BY <1>10, <1>0 DEF LocalStep
<1>11. ASSUME NEW i \in BlockNo, LocalPush(i) PROVE RelayTypes'
  <2>1. sending' \in [Trx -> Seed \cup {NoSeed}] /\ due' \subseteq Trx
    BY <1>11 DEF LocalPush
  <2> QED
    BY <1>0, <1>11, <2>1 DEF LocalPush
<1>12. CASE UNCHANGED relayVars
  BY <1>12 DEF relayVars, relay
<1> QED
  BY <1>1, <1>2, <1>3, <1>4, <1>5, <1>6, <1>7, <1>8, <1>9, <1>10, <1>11, <1>12
  DEF RelayNext

-----------------------------------------------------------------------------
(* One seed for a transaction.                                             *)

\* Faults are counted and never forgotten.
LEMMA FaultsStay ==
    ASSUME PoolInv, [Next]_vars, faults' = 0
    PROVE  faults = 0
<1>1. faults \in Nat
  BY PendingPoolAssumption DEF PoolInv, TypeOK
<1>2. faults' = faults \/ faults' = faults + 1
  BY DEF Next, StorePending, RevalidatePending, GenerateBlock, PushBlock, Crash, Open,
         RescheduleDelegateLoop, WalletLock, Dies, Fault, vars
<1> QED
  BY <1>1, <1>2

\* A step that gives no seed an unsettled transaction, and forgets neither the
\* recorded seeds nor the calls, keeps the agreement.
LEMMA NothingGiven ==
    ASSUME RelayAgrees, call' = call, todo' \subseteq todo,
           mode'[Local] # "down",
           \A t \in pool'[Local].pending : Unsettled(t)',
           \A t \in Trx : Unsettled(t)' =>
               /\ Unsettled(t) /\ sending'[t] = sending[t]
               /\ Holders(t)' \subseteq Holders(t)
    PROVE  RelayAgrees'
<1>1. MutexHeld'
  BY DEF RelayAgrees, MutexHeld, Sent
<1>2. ASSUME NEW t \in Trx, Unsettled(t)' PROVE SeedAgreed(t)'
  <2>1. /\ SeedAgreed(t) /\ sending'[t] = sending[t]
        /\ Holders(t)' \subseteq Holders(t)
    BY <1>2 DEF RelayAgrees
  <2> QED
    BY <2>1 DEF SeedAgreed, Choosing, Sent
<1> QED
  BY <1>1, <1>2 DEF RelayAgrees

\* Without a fault, a seed's own steps only take transactions from its pool.
LEMMA SeedTakes ==
    ASSUME PoolInv, NEW s \in Seed, SeedStep(s), faults' = faults
    PROVE  /\ pool'[Local] = pool[Local] /\ ledger'[Local] = ledger[Local]
           /\ mode'[Local] = mode[Local]
           /\ \A r \in Seed : pool'[r].pending \subseteq pool[r].pending
<1> USE PendingPoolAssumption, TrxRelayAssumption
<1>0. /\ faults \in Nat /\ s # Local /\ s \in Node /\ Local \in Node
      /\ pool \in [Node -> Pool] /\ ledger \in [Node -> Ledger]
      /\ mode \in [Node -> {"down", "idle", "looping"}]
  BY DEF PoolInv, TypeOK
<1>f. \A k : ~Fault(k)
  BY <1>0 DEF Fault
<1>1. CASE RevalidatePending(s)
  BY <1>0, <1>1 DEF RevalidatePending
<1>2. CASE GenerateBlock(s)
  <2>1. /\ \E B : \/ pool' = [pool EXCEPT ![s] = Cleared(pool[s], B)]
                  \/ pool' = [pool EXCEPT ![s] = Cleared(Cleared(pool[s], B), B)]
        /\ mode' = mode
        /\ ledger' = ledger \/ \E l : ledger' = [ledger EXCEPT ![s] = l]
    BY <1>2, <1>f DEF GenerateBlock, Dies
  <2> QED
    BY <1>0, <2>1 DEF Cleared
<1>3. ASSUME NEW i \in BlockNo, PushBlock(s, i)
      PROVE  /\ pool'[Local] = pool[Local] /\ ledger'[Local] = ledger[Local]
             /\ mode'[Local] = mode[Local]
             /\ \A r \in Seed : pool'[r].pending \subseteq pool[r].pending
  <2>1. /\ pool' = [pool EXCEPT ![s] = Cleared(@, blocks[i].trx)]
        /\ mode' = mode
        /\ \E l : ledger' = [ledger EXCEPT ![s] = l]
    BY <1>3, <1>f DEF PushBlock, Dies
  <2> QED
    BY <1>0, <2>1 DEF Cleared
<1>4. CASE Crash(s)
  BY <1>4, <1>f DEF Crash, Dies
<1>5. CASE Open(s)
  BY <1>0, <1>5 DEF Open
<1>6. CASE RescheduleDelegateLoop(s)
  BY <1>0, <1>6 DEF RescheduleDelegateLoop
<1> QED
  BY <1>1, <1>2, <1>3, <1>4, <1>5, <1>6 DEF SeedStep

\* network_broadcast_transaction: a seed is chosen only under the mutex and when
\* none is recorded, so that no other seed has the transaction.
LEMMA BroadcastAgrees ==
    ASSUME RelayTypes, RelayAgrees, NEW f \in Fiber, BroadcastTrx(f)
    PROVE  RelayAgrees'
<1> USE TrxRelayAssumption
<1> DEFINE t == call[f].trx
<1>0. /\ t \in Trx /\ call[f].seed = NoSeed
      /\ \A g \in Fiber : ~call[g].mutex
      /\ UNCHANGED <<vars, sending, todo>>
  BY DEF BroadcastTrx, Wants, RelayTypes
<1>1. /\ mode'[Local] # "down"
      /\ \A u \in pool'[Local].pending : Unsettled(u)'
      /\ \A u \in Trx : Unsettled(u)' <=> Unsettled(u)
  BY <1>0 DEF RelayAgrees, Unsettled, vars
<1>2. CASE call' = [call EXCEPT ![f] = NoCall] /\ mail' = mail
  <2>1. \A g \in Fiber : Sent(g)' => g # f /\ Sent(g) /\ call'[g] = call[g]
    BY <1>2 DEF Sent, NoCall, RelayTypes
  <2>2. \A g \in Fiber : ~call'[g].mutex
    BY <1>0, <1>2 DEF NoCall, RelayTypes
  <2>3. MutexHeld'
    BY <2>1, <2>2 DEF MutexHeld, RelayAgrees
  <2>4. ASSUME NEW u \in Trx, Unsettled(u)' PROVE SeedAgreed(u)'
    <3>1. SeedAgreed(u) /\ Holders(u)' = Holders(u)
      BY <1>0, <1>1, <1>2, <2>4 DEF RelayAgrees, Holders, vars
    <3> QED
      BY <1>0, <2>1, <3>1 DEF SeedAgreed, Choosing
  <2> QED
    BY <1>1, <2>3, <2>4 DEF RelayAgrees
<1>3. ASSUME NEW s \in Target(t),
             mail' = [mail EXCEPT ![s] = @ \cup {t}],
             call' = [call EXCEPT ![f] = [trx |-> t, seed |-> s, mutex |-> TRUE]]
      PROVE  RelayAgrees'
  <2>1. s \in Seed /\ (sending[t] = NoSeed \/ sending[t] = s)
    BY <1>3 DEF Target, ActiveSeeds, RelayTypes
  <2>2. /\ call'[f].trx = t /\ call'[f].seed = s /\ call'[f].mutex
        /\ \A g \in Fiber \ {f} : call'[g] = call[g]
    BY <1>3 DEF RelayTypes
  <2>3. Sent(f)' /\ Choosing(f, t)' /\ \A g \in Fiber \ {f} : Sent(g)' <=> Sent(g)
    BY <2>1, <2>2 DEF Sent, Choosing
  <2>4. MutexHeld'
    BY <1>0, <2>2, <2>3 DEF MutexHeld, RelayAgrees
  <2>5. ASSUME NEW u \in Trx, Unsettled(u)' PROVE SeedAgreed(u)'
    <3>1. SeedAgreed(u)
      BY <1>1, <2>5 DEF RelayAgrees
    <3>2. CASE u # t
      <4>1. Holders(u)' = Holders(u)
        BY <1>0, <1>3, <2>1, <3>2 DEF Holders, vars, RelayTypes
      <4> QED
        BY <1>0, <2>2, <2>3, <3>1, <3>2, <4>1 DEF SeedAgreed, Choosing
    <3>3. CASE u = t
      <4>1. Holders(u)' \subseteq Holders(u) \cup {s}
        BY <1>0, <1>3, <2>1, <3>3 DEF Holders, vars, RelayTypes
      <4>2. Holders(u) \subseteq {s}
        BY <1>0, <2>1, <3>1, <3>3 DEF SeedAgreed, Choosing, Holders
      <4>3. \A g \in Fiber \ {f} : Sent(g)' /\ call'[g].trx = u => sending[u] = call'[g].seed
        BY <1>0, <2>2, <2>3, <3>1, <3>3 DEF SeedAgreed, Choosing
      <4> QED
        BY <1>0, <2>1, <2>2, <2>3, <3>1, <3>3, <4>1, <4>2, <4>3 DEF SeedAgreed
    <3> QED
      BY <3>2, <3>3
  <2> QED
    BY <1>1, <2>4, <2>5 DEF RelayAgrees
<1> QED
  BY <1>2, <1>3 DEF BroadcastTrx

\* store_transaction_sending_state records what the mutex protected.
LEMMA ReturnAgrees ==
    ASSUME RelayTypes, RelayAgrees, NEW f \in Fiber, SendReturns(f)
    PROVE  RelayAgrees'
<1> USE TrxRelayAssumption
<1> DEFINE t == call[f].trx
           s == call[f].seed
<1>0. /\ s \in Seed /\ t \in Trx /\ Sent(f)
      /\ UNCHANGED <<vars, mail, todo>>
      /\ sending' = [sending EXCEPT ![t] = s]
      /\ call' = [call EXCEPT ![f] = NoCall]
  BY DEF SendReturns, Sent, RelayTypes, RelayAgrees, MutexHeld
<1>1. /\ mode'[Local] # "down"
      /\ \A u \in pool'[Local].pending : Unsettled(u)'
      /\ \A u \in Trx : Unsettled(u)' <=> Unsettled(u)
      /\ \A u \in Trx : Holders(u)' = Holders(u)
  BY <1>0 DEF RelayAgrees, Unsettled, Holders, vars
<1>2. /\ call'[f].seed = NoSeed /\ ~call'[f].mutex
      /\ \A g \in Fiber \ {f} : call'[g] = call[g]
  BY <1>0 DEF NoCall, RelayTypes
<1>3. ~Sent(f)' /\ \A g \in Fiber \ {f} : Sent(g)' <=> Sent(g)
  BY <1>2 DEF Sent
<1>4. sending'[t] = s /\ \A u \in Trx \ {t} : sending'[u] = sending[u]
  BY <1>0 DEF RelayTypes
<1>5. MutexHeld'
  BY <1>2, <1>3 DEF MutexHeld, RelayAgrees
<1>6. ASSUME NEW u \in Trx, Unsettled(u)' PROVE SeedAgreed(u)'
  <2>1. SeedAgreed(u)
    BY <1>1, <1>6 DEF RelayAgrees
  <2>2. CASE u # t
    BY <1>0, <1>1, <1>2, <1>3, <1>4, <2>1, <2>2 DEF SeedAgreed, Choosing
  <2>3. CASE u = t
    <3>1. sending[u] = s \/ (sending[u] = NoSeed /\ Choosing(f, u))
      BY <1>0, <2>1, <2>3 DEF SeedAgreed
    <3>2. \A g \in Fiber \ {f} : Choosing(f, u) => ~Choosing(g, u)
      BY DEF RelayAgrees, MutexHeld, Choosing
    <3>3. \A r \in Holders(u) : r = s
      BY <1>0, <2>1, <2>3, <3>1, <3>2 DEF SeedAgreed, Holders
    <3>4. \A g \in Fiber \ {f} : Sent(g) /\ call[g].trx = u => call[g].seed = s
      BY <1>0, <2>1, <2>3, <3>1, <3>2 DEF SeedAgreed, Sent
    <3>5. \A r \in Seed : <<u, r>> \in todo => r = s
      BY <1>0, <2>1, <2>3, <3>1 DEF SeedAgreed
    <3> QED
      BY <1>0, <1>1, <1>2, <1>3, <1>4, <2>3, <3>3, <3>4, <3>5 DEF SeedAgreed
  <2> QED
    BY <2>2, <2>3
<1> QED
  BY <1>1, <1>5, <1>6 DEF RelayAgrees

\* The loop's list names the recorded seeds, and goes stale only in that a seed
\* is recorded for what had none.
LEMMA LoopAgrees ==
    ASSUME RelayTypes, RelayAgrees, RebroadcastLoop
    PROVE  RelayAgrees'
<1> USE TrxRelayAssumption
<1>0. /\ UNCHANGED <<vars, sending, mail, call>>
      /\ \A t, s : <<t, s>> \in todo' => s = sending[t]
  BY DEF RebroadcastLoop
<1>1. /\ mode'[Local] # "down" /\ MutexHeld'
      /\ \A u \in pool'[Local].pending : Unsettled(u)'
  BY <1>0 DEF RelayAgrees, Unsettled, MutexHeld, Sent, vars
<1>2. ASSUME NEW u \in Trx, Unsettled(u)' PROVE SeedAgreed(u)'
  <2>1. SeedAgreed(u) /\ Holders(u)' = Holders(u)
    BY <1>0, <1>2 DEF RelayAgrees, Unsettled, Holders, vars
  <2> QED
    BY <1>0, <2>1 DEF SeedAgreed, Choosing, Sent
<1> QED
  BY <1>1, <1>2 DEF RelayAgrees

\* network_send_transaction goes to the recorded seed only.
LEMMA LoopNextAgrees ==
    ASSUME RelayTypes, RelayAgrees, RebroadcastNext
    PROVE  RelayAgrees'
<1> USE TrxRelayAssumption DEF Fiber
<1>0. /\ UNCHANGED <<vars, sending>> /\ call["loop"] = NoCall
      /\ todo' \subseteq todo
  BY DEF RebroadcastNext
<1>1. PICK e \in todo :
        \/ /\ call' = [call EXCEPT !["loop"] = [NoCall EXCEPT !.trx = e[1]]]
           /\ mail' = mail
        \/ /\ e[2] \in Seed
           /\ mail' = [mail EXCEPT ![e[2]] = @ \cup {e[1]}]
           /\ call' = [call EXCEPT !["loop"] =
                         [trx |-> e[1], seed |-> e[2], mutex |-> FALSE]]
        \/ mail' = mail /\ call' = call
  BY DEF RebroadcastNext, RelayTypes
<1>2. e[1] \in Trx /\ e = <<e[1], e[2]>>
  BY DEF RelayTypes
<1>3. /\ mode'[Local] # "down"
      /\ \A u \in pool'[Local].pending : Unsettled(u)'
      /\ \A u \in Trx : Unsettled(u)' <=> Unsettled(u)
  BY <1>0 DEF RelayAgrees, Unsettled, vars
<1>4. /\ call'["wallet"] = call["wallet"]
      /\ ~call["loop"].mutex /\ ~call'["loop"].mutex
      /\ ~Sent("loop")
  BY <1>0, <1>1 DEF NoCall, Sent, RelayTypes
<1>5. Sent("loop")' => /\ e[2] \in Seed
                       /\ call'["loop"].trx = e[1] /\ call'["loop"].seed = e[2]
  BY <1>0, <1>1 DEF NoCall, Sent, RelayTypes
<1>6. Sent("wallet")' <=> Sent("wallet")
  BY <1>4 DEF Sent
<1>7. MutexHeld'
  BY <1>2, <1>4, <1>5, <1>6 DEF MutexHeld, RelayAgrees
<1>8. ASSUME NEW u \in Trx, Unsettled(u)' PROVE SeedAgreed(u)'
  <2>1. SeedAgreed(u)
    BY <1>3, <1>8 DEF RelayAgrees
  <2>2. u = e[1] /\ e[2] \in Seed => sending[u] = e[2]
    BY <1>2, <2>1 DEF SeedAgreed
  <2>3. \A s \in Holders(u)' : s \in Holders(u) \/ sending[u] = s
    BY <1>0, <1>1, <1>2, <2>2 DEF Holders, vars, RelayTypes
  <2>4. \A f \in Fiber : Choosing(f, u) <=> Choosing(f, u)'
    BY <1>4, <1>6 DEF Choosing
  <2>5. \A f \in Fiber : Choosing(f, u) => call'[f].seed = call[f].seed
    BY <1>4 DEF Choosing
  <2>6. \A s \in Holders(u)' :
          \/ sending'[u] = s
          \/ sending'[u] = NoSeed /\ \E f \in Fiber : Choosing(f, u)' /\ call'[f].seed = s
    BY <1>0, <2>1, <2>3, <2>4, <2>5 DEF SeedAgreed
  <2>7. \A f \in Fiber : Sent(f)' /\ call'[f].trx = u =>
          sending'[u] = call'[f].seed \/ (sending'[u] = NoSeed /\ Choosing(f, u)')
    BY <1>0, <1>4, <1>5, <1>6, <2>1, <2>2, <2>4 DEF SeedAgreed
  <2>8. \A s \in Seed : <<u, s>> \in todo' => sending'[u] = s
    BY <1>0, <2>1 DEF SeedAgreed
  <2> QED
    BY <2>6, <2>7, <2>8 DEF SeedAgreed
<1> QED
  BY <1>3, <1>7, <1>8 DEF RelayAgrees

\* cache_transaction gives the transaction to no seed.
LEMMA TransferAgrees ==
    ASSUME PoolInv, RelayTypes, RelayAgrees, NEW t \in Trx, WalletTransfer(t)
    PROVE  RelayAgrees'
<1> USE PendingPoolAssumption, TrxRelayAssumption DEF Fiber
<1>0. /\ UNCHANGED <<ledger, mode, sending, mail, todo>>
      /\ call["wallet"] = NoCall
      /\ call' = [call EXCEPT !["wallet"] = [NoCall EXCEPT !.trx = t]]
      /\ ~KnownTrx(pool[Local], ledger[Local], t)
      /\ pool' = [pool EXCEPT ![Local] = WithPending(@, t)]
  BY DEF WalletTransfer, StorePending
<1>1. /\ pool \in [Node -> Pool] /\ ledger[Local].executed[t] \in Nat
      /\ Local \in Node /\ Seed \subseteq Node
  BY DEF PoolInv, TypeOK, Ledger
<1>2. Unsettled(t)
  BY <1>0, <1>1 DEF KnownTrx, Unsettled
<1>3. /\ \A u \in pool'[Local].pending : Unsettled(u)'
      /\ \A u \in Trx : Unsettled(u)' <=> Unsettled(u)
      /\ \A u \in Trx : Holders(u)' = Holders(u)
      /\ mode'[Local] # "down"
  BY <1>0, <1>1, <1>2 DEF RelayAgrees, Unsettled, Holders, WithPending, Pool
<1>4. /\ call'["loop"] = call["loop"]
      /\ ~call["wallet"].mutex /\ ~call'["wallet"].mutex
      /\ ~Sent("wallet") /\ ~Sent("wallet")'
  BY <1>0 DEF NoCall, Sent, RelayTypes
<1>5. Sent("loop")' <=> Sent("loop")
  BY <1>4 DEF Sent
<1>6. MutexHeld'
  BY <1>4, <1>5 DEF MutexHeld, RelayAgrees
<1>7. ASSUME NEW u \in Trx, Unsettled(u)' PROVE SeedAgreed(u)'
  <2>1. SeedAgreed(u)
    BY <1>3, <1>7 DEF RelayAgrees
  <2> QED
    BY <1>0, <1>3, <1>4, <1>5, <2>1 DEF SeedAgreed, Choosing
<1> QED
  BY <1>3, <1>6, <1>7 DEF RelayAgrees

\* on_new_transaction moves a transaction from the mail of a seed to its pool.
LEMMA ArrivalAgrees ==
    ASSUME PoolInv, RelayTypes, RelayAgrees, NEW s \in Seed, NEW t \in Trx,
           OnNewTransaction(s, t)
    PROVE  RelayAgrees'
<1> USE PendingPoolAssumption, TrxRelayAssumption
<1>0. /\ UNCHANGED <<ledger, mode, sending, call, todo>>
      /\ t \in mail[s] /\ mail' = [mail EXCEPT ![s] = @ \ {t}]
      /\ pool' = pool \/ pool' = [pool EXCEPT ![s] = WithPending(@, t)]
  BY DEF OnNewTransaction, StorePending, vars
<1>1. /\ pool \in [Node -> Pool] /\ s # Local
      /\ Local \in Node /\ Seed \subseteq Node
  BY DEF PoolInv, TypeOK
<1>2. \A u \in Trx : Holders(u)' \subseteq Holders(u)
  <2>1. \A r \in Seed : pool'[r].pending \subseteq
            IF r = s THEN pool[r].pending \cup {t} ELSE pool[r].pending
    <3>1. \A r \in Seed : pool'[r] = pool[r] \/ (r = s /\ pool'[r] = WithPending(pool[r], t))
      BY <1>0, <1>1
    <3>2. WithPending(pool[s], t).pending = pool[s].pending \cup {t}
      BY <1>1 DEF WithPending, Pool
    <3> QED
      BY <3>1, <3>2
  <2>2. \A r \in Seed : mail'[r] \subseteq mail[r]
    BY <1>0 DEF RelayTypes
  <2> QED
    BY <1>0, <2>1, <2>2 DEF Holders
<1>3. pool'[Local] = pool[Local]
  BY <1>0, <1>1
<1> QED
  BY <1>0, <1>2, <1>3, NothingGiven DEF RelayAgrees, Unsettled

\* What the wallet's node does to its pool and ledger settles transactions.
LEMMA LocalAgrees ==
    ASSUME PoolInv, RelayTypes, RelayAgrees, faults' = faults,
           LocalStep \/ \E i \in BlockNo : LocalPush(i)
    PROVE  RelayAgrees'
<1> USE PendingPoolAssumption, TrxRelayAssumption
<1>0. /\ faults \in Nat /\ Local \in Node /\ Seed \subseteq Node /\ Local \notin Seed
      /\ pool \in [Node -> Pool] /\ ledger \in [Node -> Ledger]
      /\ blocks \in [BlockNo -> Block]
      /\ mode[Local] # "down"
  BY DEF PoolInv, TypeOK, RelayAgrees
<1>f. \A k : ~Fault(k)
  BY <1>0 DEF Fault
<1>1. CASE LocalStep
  <2>1. RevalidatePending(Local)
    BY <1>0, <1>1, <1>f DEF LocalStep, Crash, Dies, Open
  <2>2. mode' = mode /\ ledger' = ledger
    BY <2>1 DEF RevalidatePending
  <2>3. UNCHANGED <<mail, call, todo, sending>>
    BY <1>0, <1>1, <2>2 DEF LocalStep, LocalLives
  <2>4. /\ pool'[Local].pending \subseteq pool[Local].pending
        /\ \A s \in Seed : pool'[s] = pool[s]
    BY <1>0, <2>1 DEF RevalidatePending
  <2>5. \A u \in Trx : Holders(u)' \subseteq Holders(u)
    BY <2>3, <2>4 DEF Holders
  <2> QED
    BY <1>0, <2>2, <2>3, <2>4, <2>5, NothingGiven DEF RelayAgrees, Unsettled
<1>2. ASSUME NEW i \in BlockNo, LocalPush(i) PROVE RelayAgrees'
  <2> DEFINE B == blocks[i].trx
  <2>1. /\ mode' = mode
        /\ pool' = [pool EXCEPT ![Local] = Cleared(@, B)]
        /\ ledger' = [ledger EXCEPT ![Local] = Executed(ledger[Local], B)]
    BY <1>2, <1>f DEF LocalPush, PushBlock, Dies
  <2>2. UNCHANGED <<mail, call, todo>>
    BY <1>0, <1>2, <2>1 DEF LocalPush, LocalLives
  <2>3. sending' = [u \in Trx |-> IF u \in B THEN NoSeed ELSE sending[u]]
    BY <1>0, <1>2, <2>1 DEF LocalPush
  <2>4. /\ pool'[Local].pending = pool[Local].pending \ B
        /\ \A s \in Seed : pool'[s] = pool[s]
    BY <1>0, <2>1 DEF Cleared
  <2>5. \A u \in Trx : Holders(u)' \subseteq Holders(u)
    BY <2>2, <2>4 DEF Holders
  <2>6. \A u \in Trx : ledger'[Local].executed[u] =
            IF u \in B THEN ledger[Local].executed[u] + 1 ELSE ledger[Local].executed[u]
    BY <1>0, <2>1 DEF Executed
  <2>7. ledger[Local].executed \in [Trx -> Nat]
    BY <1>0 DEF Ledger
  <2>8. \A u \in Trx : Unsettled(u)' <=> Unsettled(u) /\ u \notin B
    BY <2>6, <2>7 DEF Unsettled
  <2>9. \A u \in Trx : Unsettled(u)' => sending'[u] = sending[u]
    BY <2>3, <2>8
  <2>10. \A u \in pool'[Local].pending : Unsettled(u)'
    <3>1. pool[Local].pending \subseteq Trx
      BY <1>0 DEF Pool
    <3> QED
      BY <2>4, <2>8, <3>1 DEF RelayAgrees
  <2> QED
    BY <1>0, <2>1, <2>2, <2>5, <2>8, <2>9, <2>10, NothingGiven
<1> QED
  BY <1>1, <1>2

\* Every step without a fault keeps the agreement.
LEMMA AgreesStep ==
    ASSUME PoolInv, RelayTypes, RelayAgrees, RelayNext, faults' = faults
    PROVE  RelayAgrees'
<1> USE PendingPoolAssumption, TrxRelayAssumption
<1>1. ASSUME NEW t \in Trx, Elapse(t) PROVE RelayAgrees'
  <2>1. UNCHANGED <<vars, sending, mail, call, todo>>
    BY <1>1 DEF Elapse
  <2> QED
    BY <2>1, NothingGiven DEF vars, RelayAgrees, Unsettled, Holders
<1>2. ASSUME NEW s \in Seed, SeedOpen(s) \/ SeedClose(s) \/ Connect(s) PROVE RelayAgrees'
  <2>1. UNCHANGED <<vars, sending, mail, call, todo>>
    BY <1>2 DEF SeedOpen, SeedClose, Connect
  <2> QED
    BY <2>1, NothingGiven DEF vars, RelayAgrees, Unsettled, Holders
<1>3. ASSUME NEW s \in Seed, Disconnect(s) PROVE RelayAgrees'
  <2>1. UNCHANGED <<vars, sending, call, todo>> /\ mail' = [mail EXCEPT ![s] = {}]
    BY <1>3 DEF Disconnect
  <2>2. \A u \in Trx : Holders(u)' \subseteq Holders(u)
    BY <2>1 DEF Holders, RelayTypes, vars
  <2> QED
    BY <2>1, <2>2, NothingGiven DEF vars, RelayAgrees, Unsettled
<1>4. ASSUME NEW s \in Seed, SeedLock(s) PROVE RelayAgrees'
  <2>1. UNCHANGED <<pool, ledger, sending, mail, call, todo>>
    BY <1>4 DEF SeedLock, WalletLock
  <2>2. mode'[Local] = mode[Local]
    BY <1>4 DEF SeedLock, WalletLock, PoolInv, TypeOK
  <2> QED
    BY <2>1, <2>2, NothingGiven DEF RelayAgrees, Unsettled, Holders
<1>5. ASSUME NEW s \in Seed, SeedStep(s) PROVE RelayAgrees'
  <2>1. /\ pool'[Local] = pool[Local] /\ ledger'[Local] = ledger[Local]
        /\ mode'[Local] = mode[Local]
        /\ \A r \in Seed : pool'[r].pending \subseteq pool[r].pending
    BY <1>5, SeedTakes
  <2>2. UNCHANGED <<sending, call, todo>>
    BY <1>5 DEF SeedStep
  <2>3. mail' = mail \/ mail' = [mail EXCEPT ![s] = {}]
    BY <1>5 DEF SeedStep
  <2>4. \A u \in Trx : Holders(u)' \subseteq Holders(u)
    BY <2>1, <2>3 DEF Holders, RelayTypes
  <2> QED
    BY <2>1, <2>2, <2>4, NothingGiven DEF RelayAgrees, Unsettled
<1> QED
  BY <1>1, <1>2, <1>3, <1>4, <1>5, TransferAgrees, BroadcastAgrees, ReturnAgrees,
     LoopAgrees, LoopNextAgrees, ArrivalAgrees, LocalAgrees
  DEF RelayNext

\* The mutex, the recorded seed and the loop's list always name one seed for a
\* transaction that the wallet's node has not executed, until the first fault.
THEOREM RelayInvariant == RelaySafety => []RelayInv
<1> USE PendingPoolAssumption, TrxRelayAssumption
<1>1. RelayInit => RelayInv
  <2> SUFFICES ASSUME RelayInit PROVE RelayInv
    OBVIOUS
  <2>1. PoolInv
    BY PoolInvInit DEF RelayInit
  <2>2. RelayTypes
    BY DEF RelayInit, RelayTypes, NoCall
  <2>3. /\ Local \in Node /\ Local \notin Seed /\ Seed \subseteq Node
        /\ \A n \in Node : pool[n].pending = {}
        /\ mode[Local] = "idle"
    BY DEF RelayInit, Init, EmptyPool
  <2>4. \A f \in Fiber : ~call[f].mutex /\ ~Sent(f)
    BY DEF RelayInit, Sent, NoCall
  <2>5. \A t \in Trx : Holders(t) = {}
    BY <2>3 DEF RelayInit, Holders
  <2>6. todo = {}
    BY DEF RelayInit
  <2>7. RelayAgrees
    BY <2>3, <2>4, <2>5, <2>6 DEF RelayAgrees, MutexHeld, SeedAgreed
  <2> QED
    BY <2>1, <2>2, <2>7 DEF RelayInv
<1>2. RelayInv /\ [RelayNext]_relayVars => RelayInv'
  <2> SUFFICES ASSUME RelayInv, [RelayNext]_relayVars PROVE RelayInv'
    OBVIOUS
  <2>1. PoolInv /\ RelayTypes
    BY DEF RelayInv
  <2>2. [Next]_vars
    BY RelayStep
  <2>3. PoolInv' /\ RelayTypes'
    BY <2>1, <2>2, PoolInvStep, RelayTypesStep
  <2>4. ASSUME faults' = 0 PROVE RelayAgrees'
    <3>1. faults = 0 /\ RelayAgrees
      BY <2>1, <2>2, <2>4, FaultsStay DEF RelayInv
    <3>2. CASE RelayNext
      BY <2>1, <2>4, <3>1, <3>2, AgreesStep
    <3>3. CASE UNCHANGED relayVars
      <4>1. UNCHANGED <<pool, ledger, mode, sending, mail, call, todo>>
        BY <3>3 DEF relayVars, relay, vars
      <4> QED
        BY <3>1, <4>1, NothingGiven DEF RelayAgrees, Unsettled, Holders
    <3> QED
      BY <3>2, <3>3
  <2> QED
    BY <2>3, <2>4 DEF RelayInv
<1> QED
  BY <1>1, <1>2, PTL DEF RelaySafety

\* Retransmissions, broken connections and the two fibers of the wallet's node
\* never bring a pending transaction to two seeds, until the first fault.
THEOREM PendingAtOneSeed == RelaySafety => []OneSeed
<1>1. RelayInv => OneSeed
  <2> SUFFICES ASSUME RelayInv, faults = 0, NEW t \in pool[Local].pending
               PROVE  Cardinality(Holders(t)) <= 1
    BY DEF OneSeed, Holders
  <2>1. t \in Trx
    BY PendingPoolAssumption, TrxRelayAssumption DEF RelayInv, PoolInv, TypeOK, Pool
  <2>2. SeedAgreed(t) /\ MutexHeld
    BY <2>1 DEF RelayInv, RelayAgrees
  <2>3. \A r, s \in Holders(t) : r = s
    BY <2>2, TrxRelayAssumption DEF SeedAgreed, MutexHeld, Choosing, Holders
  <2>4. CASE Holders(t) = {}
    BY <2>4, FS_EmptySet
  <2>5. CASE Holders(t) # {}
    <3>1. PICK s : Holders(t) = {s}
      BY <2>3, <2>5
    <3> QED
      BY <3>1, FS_Singleton
  <2> QED
    BY <2>4, <2>5
<1> QED
  BY <1>1, RelayInvariant, PTL

=============================================================================
