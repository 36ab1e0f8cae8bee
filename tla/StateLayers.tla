----------------------------- MODULE StateLayers -----------------------------
(***************************************************************************)
(* The layers of state in which a node evaluates transactions and blocks.  *)
(*                                                                         *)
(* ChainDatabase holds the state of the chain.  A PendingChainState lies on*)
(* top of another state and records only what differs: entries stored and  *)
(* ids removed.  Pending transactions share one layer on the database, a   *)
(* block that is generated has another, and each of their transactions is  *)
(* evaluated in a layer on top of it.  A block that is executed has one    *)
(* layer on the database for all of its transactions.                      *)
(*                                                                         *)
(* Contract entries and contract storage are two maps with one set of      *)
(* removed ids; all other maps (properties, accounts, assets, slates,      *)
(* balances, transactions, slots, request and result ids) have a set each  *)
(* and are one map here, as their ids never meet.                          *)
(*                                                                         *)
(* FlatState says what all this is for: every evaluation has a private copy*)
(* of the whole state.  The refinement is not for free: a layer that       *)
(* removes a contract's entry hides the storage below it as well, and the  *)
(* storage shows again once the contract is stored again.                  *)
(***************************************************************************)

CONSTANTS
    Key,        \* ids of entries
    Contract,   \* the ids that are contract ids
    Value,      \* what an entry can hold
    Info,       \* what the entry and the storage of a contract can hold
    NoValue     \* no entry

ASSUME StateLayersAssumption ==
    /\ Contract \subseteq Key
    /\ Info \subseteq Value
    /\ NoValue \notin Value

VARIABLES
    db,         \* the maps of ChainDatabase
    pend,       \* _pending_trx_state
    gen,        \* pending_state of generate_block
    generating, \* is generate_block running?
    top,        \* pend_state and the like; pending_state of extend_chain
    base        \* what top lies on: none, pool (pend), build (gen), block (db)

vars == <<db, pend, gen, generating, top, base>>

Optional == Value \cup {NoValue}

State == [entry : [Key -> Optional], storage : [Contract -> Optional]]

Layer ==
    [entry   : [Key -> Optional],        \* _account_id_to_entry and the like
     storage : [Contract -> Optional],   \* _contract_id_to_storage
     removed : SUBSET Key]               \* _account_id_remove and the like

EmptyLayer ==
    [entry   |-> [k \in Key |-> NoValue],
     storage |-> [c \in Contract |-> NoValue],
     removed |-> {}]

-----------------------------------------------------------------------------
(* Lookups and updates of one layer.                                       *)

\* Map F of a layer on top of map G, with removed ids R.
Over(F, G, R) ==
    [i \in DOMAIN F |-> IF F[i] # NoValue THEN F[i]
                        ELSE IF i \in R THEN NoValue ELSE G[i]]

\* What lookups find in layer L on top of state s.
View(L, s) ==
    [entry   |-> Over(L.entry, s.entry, L.removed),
     storage |-> Over(L.storage, s.storage, L.removed)]

\* Faulty InsertEntry: the id stays removed.
InsertOnly(L, k, v) == [L EXCEPT !.entry[k] = v]

\* account_insert_into_id_map and the like
InsertEntry(L, k, v) == [L EXCEPT !.entry[k] = v, !.removed = @ \ {k}]

\* Faulty EraseEntry: the id is not remembered as removed.
EraseOnly(L, k) == [L EXCEPT !.entry[k] = NoValue]

\* account_erase_from_id_map and the like
EraseEntry(L, k) == [L EXCEPT !.entry[k] = NoValue, !.removed = @ \cup {k}]

\* contractstorage_insert_into_id_map
InsertStorage(L, c, v) == [L EXCEPT !.storage[c] = v]

\* apply_changes of layer L to the layer P below it, which lies on state s:
\* first the removals of what is found below, then the stores.
ApplyToLayer(L, P, s) ==
    [entry   |-> Over(L.entry, P.entry, L.removed),
     storage |-> Over(L.storage, P.storage, L.removed),
     removed |-> (P.removed \cup {k \in L.removed : View(P, s).entry[k] # NoValue})
                    \ {k \in Key : L.entry[k] # NoValue}]

\* apply_changes of layer L to the database.
ApplyToDb(L, d) ==
    [entry   |-> Over(L.entry, d.entry, L.removed),
     storage |-> Over(L.storage, d.storage, L.removed)]

\* The state that a layer on b lies on.
Below(b) ==
    CASE b = "pool"  -> View(pend, db)
      [] b = "build" -> View(gen, db)
      [] OTHER       -> db

\* What the running evaluation sees.
Current == View(top, Below(base))

-----------------------------------------------------------------------------
\* The genesis state has no contracts.
Init ==
    /\ db \in {s \in State : \A c \in Contract : s.entry[c] = NoValue /\ s.storage[c] = NoValue}
    /\ pend = EmptyLayer /\ gen = EmptyLayer /\ top = EmptyLayer
    /\ generating = FALSE
    /\ base = "none"

\* evaluate_transaction (pool), a transaction of generate_block (build),
\* extend_chain (block): a new layer.
Begin(b) ==
    /\ base = "none"
    /\ (b = "build") = generating
    /\ base' = b /\ top' = EmptyLayer
    /\ UNCHANGED <<db, pend, gen, generating>>

\* The evaluation goes on with layer L.
Continue(L) ==
    /\ top' = L
    /\ UNCHANGED <<db, pend, gen, generating, base>>

\* store and remove of an entry that is not a contract.
StoreEntry(k, v) ==
    /\ base # "none"
    /\ Continue(InsertEntry(top, k, v))

RemoveEntry(k) ==
    /\ base # "none"
    /\ Current.entry[k] # NoValue
    /\ Continue(EraseEntry(top, k))

\* Faulty RegisterContract: the address may be in use.
RegisterAnyway(c, v) ==
    /\ base # "none"
    /\ Continue(EraseEntry(InsertEntry(top, c, v), c))

\* RegisterContractOperation: a temporary entry v for the time of the VM's run.
\* What the VM changes becomes operations of the result.
RegisterContract(c, v) ==
    /\ base # "none"
    /\ Current.entry[c] = NoValue
    /\ Continue(EraseEntry(InsertEntry(top, c, v), c))

\* ContractInfoOperation, in a result.
ContractInfo(c, v) ==
    /\ base # "none"
    /\ Current.entry[c] = NoValue
    /\ Continue(InsertEntry(top, c, v))

\* OnUpgradeOperation, OnDestroyOperation: a destroyed contract keeps its entry.
UpdateContract(c, v) ==
    /\ base # "none"
    /\ Current.entry[c] # NoValue
    /\ Continue(InsertEntry(top, c, v))

\* StorageOperation.  Its evaluate() does not look for the contract: the guard
\* stands for the VM, which makes the operation for a contract it has loaded.
StoreStorage(c, v) ==
    /\ base # "none"
    /\ Current.entry[c] # NoValue
    /\ Continue(InsertStorage(top, c, v))

\* The evaluation led to a result transaction: what the request changed is
\* forgotten and the result is evaluated in a new layer.
EvaluateResult ==
    /\ base \in {"pool", "build"}
    /\ Continue(EmptyLayer)

\* An exception ends the evaluation of a transaction or of a block.
Throw ==
    /\ base # "none"
    /\ base' = "none" /\ top' = EmptyLayer
    /\ UNCHANGED <<db, pend, gen, generating>>

\* The transaction is valid: its changes go to the layer below.
ApplyToPool ==
    /\ base = "pool"
    /\ pend' = ApplyToLayer(top, pend, db)
    /\ base' = "none" /\ top' = EmptyLayer
    /\ UNCHANGED <<db, gen, generating>>

ApplyToBuild ==
    /\ base = "build"
    /\ gen' = ApplyToLayer(top, gen, db)
    /\ base' = "none" /\ top' = EmptyLayer
    /\ UNCHANGED <<db, pend, generating>>

\* Faulty ApplyBlock: the layer of pending transactions stays.
ApplyBlockOnly ==
    /\ base = "block"
    /\ db' = ApplyToDb(top, db)
    /\ base' = "none" /\ top' = EmptyLayer
    /\ UNCHANGED <<pend, gen, generating>>

\* The end of extend_chain: apply_changes, clear_pending.
ApplyBlock ==
    /\ base = "block"
    /\ db' = ApplyToDb(top, db)
    /\ pend' = EmptyLayer
    /\ base' = "none" /\ top' = EmptyLayer
    /\ UNCHANGED <<gen, generating>>

\* generate_block begins.
StartGenerate ==
    /\ base = "none" /\ ~generating
    /\ generating' = TRUE
    /\ gen' = EmptyLayer
    /\ UNCHANGED <<db, pend, top, base>>

\* It ends: with a block, and clear_pending, or without one.
EndGenerate ==
    /\ base = "none" /\ generating
    /\ generating' = FALSE
    /\ gen' = EmptyLayer
    /\ pend' \in {pend, EmptyLayer}
    /\ UNCHANGED <<db, top, base>>

\* revalidate_pending begins with a new layer.
RevalidatePending ==
    /\ base = "none" /\ ~generating
    /\ pend' = EmptyLayer
    /\ UNCHANGED <<db, gen, generating, top, base>>

\* The process ends at any time and starts again: only the database is left.
Restart ==
    /\ pend' = EmptyLayer /\ gen' = EmptyLayer /\ top' = EmptyLayer
    /\ generating' = FALSE /\ base' = "none"
    /\ UNCHANGED db

Next ==
    \/ \E b \in {"pool", "build", "block"} : Begin(b)
    \/ \E k \in Key \ Contract : RemoveEntry(k) \/ \E v \in Value : StoreEntry(k, v)
    \/ \E c \in Contract, v \in Info :
          RegisterContract(c, v) \/ ContractInfo(c, v) \/ UpdateContract(c, v)
             \/ StoreStorage(c, v)
    \/ EvaluateResult \/ Throw
    \/ ApplyToPool \/ ApplyToBuild \/ ApplyBlock
    \/ StartGenerate \/ EndGenerate \/ RevalidatePending
    \/ Restart

Spec == Init /\ [][Next]_vars

-----------------------------------------------------------------------------
(* Properties.                                                             *)

TypeOK ==
    /\ db \in State
    /\ pend \in Layer /\ gen \in Layer /\ top \in Layer
    /\ generating \in BOOLEAN
    /\ base \in {"none", "pool", "build", "block"}

\* Storage belongs to a contract that exists.
Owned(s) == \A c \in Contract : s.storage[c] # NoValue => s.entry[c] # NoValue

\* On the chain, in the pool, in a block that is built and in every evaluation,
\* contract storage is found only for a contract that is found: the temporary
\* entry of RegisterContractOperation and its removal leave nothing behind.
StorageOwned ==
    /\ Owned(db) /\ Owned(View(pend, db)) /\ Owned(View(gen, db))
    /\ Owned(Current)

\* Every store and remove changes what lookups find for its own id, and nothing
\* else: no other entry, and no storage, appears or disappears with it.  To
\* register a contract changes nothing at all (its result does).
EditsExact ==
    [][/\ \A k \in Key \ Contract : \A v \in Value :
             /\ StoreEntry(k, v) => Current' = [Current EXCEPT !.entry[k] = v]
             /\ RemoveEntry(k) => Current' = [Current EXCEPT !.entry[k] = NoValue]
       /\ \A c \in Contract : \A v \in Info :
             /\ RegisterContract(c, v) => Current' = Current
             /\ ContractInfo(c, v) \/ UpdateContract(c, v)
                   => Current' = [Current EXCEPT !.entry[c] = v]
             /\ StoreStorage(c, v) => Current' = [Current EXCEPT !.storage[c] = v]
      ]_vars

\* Every evaluation works as if it had a private copy of the whole state,
\* however many layers it looks through (PendingChainState.hpp).
Flat == INSTANCE FlatState WITH
    chain <- db, pool <- View(pend, db), build <- View(gen, db),
    building <- generating, work <- Current

ImplementsFlat == Flat!FlatSpec

-----------------------------------------------------------------------------
(* The inductive invariant behind the refinement.                          *)

\* A layer L on top of state s does not contradict itself: no id is both stored
\* and removed, a contract that it removes is not in s (its entry was temporary),
\* and storage belongs to a contract.
Sound(L, s) ==
    /\ \A k \in L.removed : L.entry[k] = NoValue
    /\ \A c \in L.removed \cap Contract : s.entry[c] = NoValue
    /\ Owned(View(L, s))

\* The layers of the pool, of a block that is built and of the running evaluation
\* fit what they lie on, and those that are not in use are empty.
LayersInv ==
    /\ TypeOK
    /\ Owned(db)
    /\ Sound(pend, db) /\ Sound(gen, db) /\ Sound(top, Below(base))
    /\ base = "none" => top = EmptyLayer
    /\ base # "none" => (base = "build") = generating
    /\ ~generating => gen = EmptyLayer
=============================================================================
