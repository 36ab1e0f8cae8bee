------------------------------ MODULE TrxRelay ------------------------------
(***************************************************************************)
(* How the transactions of a wallet's node reach a seed.                   *)
(*                                                                         *)
(* A local node stores its transaction in its own pool and sends it to one *)
(* seed of its active list.  The seed is remembered (sending state); if no *)
(* block brings the transaction within a minute, rebroadcast_pending_loop  *)
(* sends it to the same seed again.  The fiber that sends waits for the    *)
(* p2p thread before it records the seed.  The commands of the wallet and  *)
(* the loop are separate fibers; broadcast_trx_mutex keeps their calls of  *)
(* network_broadcast_transaction apart.                                    *)
(*                                                                         *)
(* The module adds this to PendingPool: every change of a pool or a ledger *)
(* is an action of PendingPool.                                            *)
(***************************************************************************)
EXTENDS PendingPool

CONSTANTS
    Local,         \* the wallet's node
    NoSeed,        \* no seed is recorded
    NoTrx,         \* no transaction
    Returning,     \* nodes whose operators start them again after a crash
    MaxBreaks      \* bound on the number of broken connections and locked wallets

ASSUME TrxRelayAssumption ==
    /\ Local \in Node \ Seed
    /\ NoSeed \notin Seed
    /\ NoTrx \notin Trx
    /\ Returning \subseteq Node
    /\ MaxBreaks \in Nat

VARIABLES
    sending,   \* transaction -> seedAddr in _sending_trx_state_db, on disk
    due,       \* transactions sent more than a minute ago
    active,    \* _active_seed_list
    linked,    \* seeds connected to the local node
    mail,      \* seed -> transactions sent to it and not yet handled
    call,      \* fiber -> its call of a network_* function
    todo,      \* what rebroadcast_pending_loop still has to send
    breaks     \* connections broken and wallets locked so far

relay == <<sending, due, active, linked, mail, call, todo, breaks>>
relayVars == <<vars, relay>>

Fiber == {"wallet", "loop"}

NoCall == [trx |-> NoTrx, seed |-> NoSeed, mutex |-> FALSE]

\* A call that waits for the mutex, and one that waits for the p2p thread.
Wants(f) == call[f].trx # NoTrx /\ call[f].seed = NoSeed
Sent(f) == call[f].seed # NoSeed

\* get_active_seed_list drops the seeds that are not connected.
ActiveSeeds == active \cap linked

-----------------------------------------------------------------------------
(* The local node.                                                         *)

\* A wallet command: cache_transaction, then network_broadcast_transaction.
WalletTransfer(t) ==
    /\ call["wallet"] = NoCall
    /\ StorePending(Local, t)
    /\ call' = [call EXCEPT !["wallet"] = [NoCall EXCEPT !.trx = t]]
    /\ UNCHANGED <<sending, due, active, linked, mail, todo, breaks>>

\* Faulty Target: the recorded seed is ignored.
TargetAny(t) == ActiveSeeds

\* network_broadcast_transaction: a recorded seed, or else any active one.
Target(t) ==
    IF sending[t] = NoSeed THEN ActiveSeeds ELSE ActiveSeeds \cap {sending[t]}

\* network_broadcast_transaction, with the mutex.
BroadcastTrx(f) ==
    LET t == call[f].trx IN
    /\ Wants(f)
    /\ \A g \in Fiber : ~call[g].mutex
    /\ active' = ActiveSeeds
    /\ \/ /\ Target(t) = {}
          /\ call' = [call EXCEPT ![f] = NoCall]
          /\ UNCHANGED mail
       \/ \E s \in Target(t) :
             /\ mail' = [mail EXCEPT ![s] = @ \cup {t}]
             /\ call' = [call EXCEPT ![f] = [trx |-> t, seed |-> s, mutex |-> TRUE]]
    /\ UNCHANGED <<vars, sending, due, linked, todo, breaks>>

\* send_to_addr has returned: store_transaction_sending_state.
SendReturns(f) ==
    /\ Sent(f)
    /\ sending' = [sending EXCEPT ![call[f].trx] = call[f].seed]
    /\ due' = due \ {call[f].trx}
    /\ call' = [call EXCEPT ![f] = NoCall]
    /\ UNCHANGED <<vars, active, linked, mail, todo, breaks>>

\* A minute has passed since sentTime.
Elapse(t) ==
    /\ sending[t] # NoSeed /\ t \notin due
    /\ due' = due \cup {t}
    /\ UNCHANGED <<vars, sending, active, linked, mail, call, todo, breaks>>

\* Faulty RebroadcastLoop: what was sent once is left alone.
RebroadcastUnsent ==
    /\ mode[Local] # "down"
    /\ call["loop"] = NoCall /\ todo = {}
    /\ active' = ActiveSeeds /\ active' # {}
    /\ todo' = {<<t, NoSeed>> : t \in {u \in pool[Local].index : sending[u] = NoSeed}}
    /\ todo' # {}
    /\ UNCHANGED <<vars, sending, due, linked, mail, call, breaks>>

\* rebroadcast_pending_loop collects what get_pending_transactions_for_send
\* returns: what was never sent, and what is due with the seed it went to.
RebroadcastLoop ==
    /\ mode[Local] # "down"
    /\ call["loop"] = NoCall /\ todo = {}
    /\ active' = ActiveSeeds /\ active' # {}
    /\ todo' = {<<t, sending[t]>> : t \in {u \in pool[Local].index :
                                              sending[u] = NoSeed \/ u \in due}}
    /\ todo' # {}
    /\ UNCHANGED <<vars, sending, due, linked, mail, call, breaks>>

\* The loop takes the next one: network_broadcast_transaction if it had no seed,
\* network_send_transaction if its seed is on the active list, else nothing.
RebroadcastNext ==
    /\ call["loop"] = NoCall
    /\ \E e \in todo :
          LET t == e[1]
              s == e[2] IN
          /\ todo' = todo \ {e}
          /\ \/ /\ s = NoSeed
                /\ call' = [call EXCEPT !["loop"] = [NoCall EXCEPT !.trx = t]]
                /\ UNCHANGED mail
             \/ /\ s \in active \cap linked
                /\ mail' = [mail EXCEPT ![s] = @ \cup {t}]
                /\ call' = [call EXCEPT !["loop"] =
                              [trx |-> t, seed |-> s, mutex |-> FALSE]]
             \/ /\ s \in Seed \ (active \cap linked)
                /\ UNCHANGED <<mail, call>>
    /\ UNCHANGED <<vars, sending, due, active, linked, breaks>>

-----------------------------------------------------------------------------
(* The seeds and the network.                                              *)

\* Faulty OnNewTransaction: known transactions are stored again.
OnNewTransactionUnchecked(s, t) ==
    /\ mode[s] # "down" /\ t \in mail[s]
    /\ mail' = [mail EXCEPT ![s] = @ \ {t}]
    /\ pool' = [pool EXCEPT ![s] = WithPending(@, t)]
    /\ UNCHANGED <<ledger, stored, blocks, made, mode, faults>>
    /\ UNCHANGED <<sending, due, active, linked, call, todo, breaks>>

\* trx_message_type on seed s: on_new_transaction.
OnNewTransaction(s, t) ==
    /\ mode[s] # "down" /\ t \in mail[s]
    /\ mail' = [mail EXCEPT ![s] = @ \ {t}]
    /\ \/ StorePending(s, t)
       \/ /\ \/ KnownTrx(pool[s], ledger[s], t)
             \/ ~Fits(ledger[s].balance, pool[s].overlay, t)
          /\ UNCHANGED vars
    /\ UNCHANGED <<sending, due, active, linked, call, todo, breaks>>

\* seed_open_message_type, which seeds broadcast when they run their loop.
SeedOpen(s) ==
    /\ s \in linked /\ mode[s] = "looping" /\ mode[Local] # "down"
    /\ s \notin active
    /\ active' = active \cup {s}
    /\ UNCHANGED <<vars, sending, due, linked, mail, call, todo, breaks>>

\* The operator locks the wallet of seed s.
SeedLock(s) ==
    /\ breaks < MaxBreaks
    /\ breaks' = breaks + 1
    /\ WalletLock(s)
    /\ UNCHANGED <<sending, due, active, linked, mail, call, todo>>

\* seed_close_message_type, which a seed broadcasts once its wallet is locked;
\* it may get lost.
SeedClose(s) ==
    /\ s \in linked \cap active /\ mode[s] = "idle" /\ mode[Local] # "down"
    /\ active' = active \ {s}
    /\ UNCHANGED <<vars, sending, due, linked, mail, call, todo, breaks>>

\* p2p_network_connect_loop has reached the seed again.
Connect(s) ==
    /\ mode[s] # "down" /\ mode[Local] # "down"
    /\ s \notin linked
    /\ linked' = linked \cup {s}
    /\ UNCHANGED <<vars, sending, due, active, mail, call, todo, breaks>>

\* A connection breaks and loses what it carries.
Disconnect(s) ==
    /\ s \in linked /\ breaks < MaxBreaks
    /\ breaks' = breaks + 1
    /\ linked' = linked \ {s}
    /\ mail' = [mail EXCEPT ![s] = {}]
    /\ UNCHANGED <<vars, sending, due, active, call, todo>>

-----------------------------------------------------------------------------
(* The actions of PendingPool, with what they do to the relay.             *)

\* A seed's own steps.  When it dies, its connection and the mail are gone.
SeedStep(s) ==
    /\ \/ RevalidatePending(s)
       \/ GenerateBlock(s)
       \/ \E i \in BlockNo : PushBlock(s, i)
       \/ Crash(s)
       \/ Open(s)
       \/ RescheduleDelegateLoop(s)
    /\ IF mode'[s] = "down"
       THEN linked' = linked \ {s} /\ mail' = [mail EXCEPT ![s] = {}]
       ELSE UNCHANGED <<linked, mail>>
    /\ UNCHANGED <<sending, due, active, call, todo, breaks>>

\* When the local node dies, its fibers and its active list are gone.
LocalLives ==
    IF mode'[Local] = "down"
    THEN /\ active' = {} /\ linked' = {}
         /\ mail' = [s \in Seed |-> {}]
         /\ call' = [f \in Fiber |-> NoCall]
         /\ todo' = {}
    ELSE UNCHANGED <<active, linked, mail, call, todo>>

\* clear_pending also removes the sending states of the block's transactions.
LocalPush(i) ==
    /\ PushBlock(Local, i)
    /\ \/ /\ pool'[Local].pending \cap blocks[i].trx = {}
          /\ sending' = [t \in Trx |-> IF t \in blocks[i].trx THEN NoSeed ELSE sending[t]]
          /\ due' = due \ blocks[i].trx
       \/ \* a crash comes first
          mode'[Local] = "down" /\ UNCHANGED <<sending, due>>
    /\ LocalLives
    /\ UNCHANGED breaks

LocalStep ==
    /\ RevalidatePending(Local) \/ Crash(Local) \/ Open(Local)
    /\ LocalLives
    /\ UNCHANGED <<sending, due, breaks>>

-----------------------------------------------------------------------------
RelayInit ==
    /\ Init
    /\ sending = [t \in Trx |-> NoSeed]
    /\ due = {}
    /\ active = Seed
    /\ linked = Seed
    /\ mail = [s \in Seed |-> {}]
    /\ call = [f \in Fiber |-> NoCall]
    /\ todo = {}
    /\ breaks = 0

RelayNext ==
    \/ \E t \in Trx : WalletTransfer(t) \/ Elapse(t)
    \/ \E f \in Fiber : BroadcastTrx(f) \/ SendReturns(f)
    \/ RebroadcastLoop \/ RebroadcastNext
    \/ \E s \in Seed :
          SeedOpen(s) \/ SeedLock(s) \/ SeedClose(s)
            \/ Connect(s) \/ Disconnect(s) \/ SeedStep(s)
            \/ \E t \in Trx : OnNewTransaction(s, t)
    \/ LocalStep \/ \E i \in BlockNo : LocalPush(i)

\* Fibers, loops and tasks keep running, connections come back, blocks arrive
\* (DagSync, Convergence), and operators start the returning nodes again.
RelayFairness ==
    /\ \A f \in Fiber : WF_relayVars(BroadcastTrx(f)) /\ WF_relayVars(SendReturns(f))
    /\ WF_relayVars(RebroadcastLoop) /\ WF_relayVars(RebroadcastNext)
    /\ \A t \in Trx : WF_relayVars(Elapse(t))
    /\ \A i \in BlockNo : WF_relayVars(LocalPush(i))
    /\ WF_relayVars(LocalStep /\ RevalidatePending(Local))
    /\ Local \in Returning => WF_relayVars(LocalStep /\ Open(Local))
    /\ \A s \in Seed :
          /\ WF_relayVars(SeedOpen(s)) /\ WF_relayVars(Connect(s))
          /\ \A t \in Trx : WF_relayVars(OnNewTransaction(s, t))
          /\ WF_relayVars(SeedStep(s) /\ GenerateBlock(s))
          /\ s \in Returning =>
                /\ WF_relayVars(SeedStep(s) /\ Open(s))
                /\ WF_relayVars(SeedStep(s) /\ RescheduleDelegateLoop(s))

RelaySafety == RelayInit /\ [][RelayNext]_relayVars

RelaySpec == RelaySafety /\ RelayFairness

-----------------------------------------------------------------------------
(* Properties.                                                             *)

\* Every step of the relay is a step of PendingPool or leaves its state alone.
ImplementsPool == Spec

\* Until a node crashes or a block is refused, at most one seed has a
\* transaction that is pending at the wallet's node: two seeds would both put it
\* into a block.  The mutex, the recorded seed and the loop's snapshot have to
\* play together for that.
OneSeed ==
    faults = 0 =>
        \A t \in pool[Local].pending :
            Cardinality({s \in Seed : t \in mail[s] \cup pool[s].pending}) <= 1

\* A pending transaction of the wallet that no seed excludes is executed in the
\* end, or discarded because it cannot be: lost messages and dead seeds only
\* delay it.
Delivered ==
    \A t \in Trx : (\A s \in Seed : t \notin Excluded[s]) =>
        t \in pool[Local].pending ~>
            (t \notin pool[Local].pending \/ ledger[Local].executed[t] > 0)

-----------------------------------------------------------------------------
(* The inductive invariant behind OneSeed.                                 *)

RelayTypes ==
    /\ sending \in [Trx -> Seed \cup {NoSeed}]
    /\ due \subseteq Trx
    /\ active \subseteq Seed /\ linked \subseteq Seed
    /\ mail \in [Seed -> SUBSET Trx]
    /\ call \in [Fiber -> [trx : Trx \cup {NoTrx}, seed : Seed \cup {NoSeed}, mutex : BOOLEAN]]
    /\ todo \subseteq Trx \X (Seed \cup {NoSeed})

\* No block with t has reached the wallet's node.
Unsettled(t) == ledger[Local].executed[t] = 0

\* The seeds that have t or are about to get it.
Holders(t) == {s \in Seed : t \in mail[s] \cup pool[s].pending}

\* A call of fiber f that chose a seed for t and has not recorded it yet.
Choosing(f, t) == call[f].mutex /\ call[f].trx = t /\ Sent(f)

\* One fiber has the mutex, and only while it chooses a seed.
MutexHeld ==
    /\ \A f, g \in Fiber : call[f].mutex /\ call[g].mutex => f = g
    /\ \A f \in Fiber : Sent(f) => call[f].trx \in Trx

\* While t is unsettled, its seed is the recorded one, or the one that the
\* holder of the mutex chose and will record: for the seeds that have it, for
\* the calls that sent it, and for the list of the loop.
SeedAgreed(t) ==
    /\ \A s \in Holders(t) :
          \/ sending[t] = s
          \/ sending[t] = NoSeed /\ \E f \in Fiber : Choosing(f, t) /\ call[f].seed = s
    /\ \A f \in Fiber : Sent(f) /\ call[f].trx = t =>
          sending[t] = call[f].seed \/ (sending[t] = NoSeed /\ Choosing(f, t))
    /\ \A s \in Seed : <<t, s>> \in todo => sending[t] = s

\* What holds until the first fault: the wallet's node runs, a transaction is
\* pending there only while it is unsettled, and all agree on its seed.
RelayAgrees ==
    /\ mode[Local] # "down"
    /\ \A t \in pool[Local].pending : Unsettled(t)
    /\ MutexHeld
    /\ \A t \in Trx : Unsettled(t) => SeedAgreed(t)

\* All that the wallet's node knows of an unsettled transaction names one seed,
\* until the first fault.
RelayInv ==
    PoolInv /\ RelayTypes /\ (faults = 0 => RelayAgrees)

=============================================================================
