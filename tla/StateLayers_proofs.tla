------------------------- MODULE StateLayers_proofs --------------------------
(***************************************************************************)
(* Proofs about the layers of state: the inductive invariant, and that the *)
(* layers implement private copies (FlatState).                            *)
(***************************************************************************)
EXTENDS StateLayers, TLAPS

USE DEF Optional

-----------------------------------------------------------------------------
(* What a layer shows of the state below.                                  *)

\* A layer on a state is a state.
LEMMA ViewType ==
    ASSUME NEW L \in Layer, NEW s \in State
    PROVE  View(L, s) \in State
  BY DEF View, Over, Layer, State

\* An empty layer shows the state below, and is a layer.
LEMMA ViewEmpty ==
    ASSUME NEW s \in State
    PROVE  /\ EmptyLayer \in Layer
           /\ View(EmptyLayer, s) = s
  <1>1. EmptyLayer \in Layer
    BY DEF EmptyLayer, Layer
  <1>2. View(EmptyLayer, s).entry = s.entry
    BY DEF View, Over, EmptyLayer, State
  <1>3. View(EmptyLayer, s).storage = s.storage
    BY DEF View, Over, EmptyLayer, State
  <1>4. View(EmptyLayer, s) \in State
    BY <1>1, ViewType
  <1> QED BY <1>1, <1>2, <1>3, <1>4 DEF State

\* An empty layer is sound on a state whose storage is owned.
LEMMA EmptySound ==
    ASSUME NEW s \in State, Owned(s)
    PROVE  Sound(EmptyLayer, s)
  BY ViewEmpty DEF Sound, EmptyLayer

\* account_insert_into_id_map and the like change one entry, also of a contract
\* whose removal hid what lies below.
LEMMA InsertEntryView ==
    ASSUME NEW L \in Layer, NEW s \in State, Owned(s), Sound(L, s),
           NEW k \in Key, NEW v \in Value
    PROVE  /\ InsertEntry(L, k, v) \in Layer
           /\ View(InsertEntry(L, k, v), s) = [View(L, s) EXCEPT !.entry[k] = v]
           /\ Sound(InsertEntry(L, k, v), s)
  <1> DEFINE N == InsertEntry(L, k, v)
  <1>1. /\ N \in Layer
        /\ N.entry = [L.entry EXCEPT ![k] = v]
        /\ N.storage = L.storage
        /\ N.removed = L.removed \ {k}
    BY DEF InsertEntry, Layer
  <1>2. View(N, s).entry = [View(L, s).entry EXCEPT ![k] = v]
    <2> SUFFICES ASSUME NEW j \in Key
                 PROVE  View(N, s).entry[j] = [View(L, s).entry EXCEPT ![k] = v][j]
      BY <1>1 DEF View, Over, Layer, State
    <2> QED BY <1>1, StateLayersAssumption DEF View, Over, Layer, State
  <1>3. View(N, s).storage = View(L, s).storage
    BY <1>1 DEF View, Over, Layer, State, Owned, Sound
  <1>4. View(N, s) = [View(L, s) EXCEPT !.entry[k] = v]
    <2>1. View(N, s) \in State /\ View(L, s) \in State
      BY <1>1, ViewType
    <2> QED BY <1>2, <1>3, <2>1 DEF State
  <1>5. Owned(View(N, s))
    BY <1>2, <1>3, ViewType, StateLayersAssumption DEF Owned, State, Sound
  <1>6. Sound(N, s)
    BY <1>1, <1>5 DEF Sound, Layer
  <1> QED BY <1>1, <1>4, <1>6

\* account_erase_from_id_map and the like remove one entry.
LEMMA EraseEntryView ==
    ASSUME NEW L \in Layer, NEW s \in State, Sound(L, s),
           NEW k \in Key \ Contract
    PROVE  /\ EraseEntry(L, k) \in Layer
           /\ View(EraseEntry(L, k), s) = [View(L, s) EXCEPT !.entry[k] = NoValue]
           /\ Sound(EraseEntry(L, k), s)
  <1> DEFINE N == EraseEntry(L, k)
  <1>1. /\ N \in Layer
        /\ N.entry = [L.entry EXCEPT ![k] = NoValue]
        /\ N.storage = L.storage
        /\ N.removed = L.removed \cup {k}
    BY DEF EraseEntry, Layer
  <1>2. View(N, s).entry = [View(L, s).entry EXCEPT ![k] = NoValue]
    <2> SUFFICES ASSUME NEW j \in Key
                 PROVE  View(N, s).entry[j] = [View(L, s).entry EXCEPT ![k] = NoValue][j]
      BY <1>1 DEF View, Over, Layer, State
    <2> QED BY <1>1 DEF View, Over, Layer, State
  <1>3. View(N, s).storage = View(L, s).storage
    BY <1>1 DEF View, Over, Layer, State
  <1>4. View(N, s) = [View(L, s) EXCEPT !.entry[k] = NoValue]
    <2>1. View(N, s) \in State /\ View(L, s) \in State
      BY <1>1, ViewType
    <2> QED BY <1>2, <1>3, <2>1 DEF State
  <1>5. Owned(View(N, s))
    BY <1>2, <1>3, ViewType DEF Owned, State, Sound
  <1>6. Sound(N, s)
    BY <1>1, <1>5 DEF Sound, Layer
  <1> QED BY <1>1, <1>4, <1>6

\* The temporary entry of a contract that is registered leaves nothing that a
\* lookup could find, only an id in the set of removed ones.
LEMMA TemporaryEntryView ==
    ASSUME NEW L \in Layer, NEW s \in State, Owned(s), Sound(L, s),
           NEW c \in Contract, NEW v \in Value, View(L, s).entry[c] = NoValue
    PROVE  LET N == EraseEntry(InsertEntry(L, c, v), c) IN
           N \in Layer /\ View(N, s) = View(L, s) /\ Sound(N, s)
  <1> DEFINE M == InsertEntry(L, c, v)
             N == EraseEntry(M, c)
  <1>0. c \in Key /\ L.entry[c] = NoValue /\ s.entry[c] = NoValue /\ s.storage[c] = NoValue
    BY StateLayersAssumption DEF View, Over, Layer, State, Owned, Sound
  <1>1. /\ M \in Layer
        /\ M.entry = [L.entry EXCEPT ![c] = v]
        /\ M.storage = L.storage
        /\ M.removed = L.removed \ {c}
    BY <1>0 DEF InsertEntry, Layer
  <1>2. /\ N \in Layer
        /\ N.entry = [M.entry EXCEPT ![c] = NoValue]
        /\ N.storage = M.storage
        /\ N.removed = M.removed \cup {c}
    BY <1>0, <1>1 DEF EraseEntry, Layer
  <1>3. N.entry = L.entry /\ N.storage = L.storage /\ N.removed = L.removed \cup {c}
    BY <1>0, <1>1, <1>2 DEF Layer
  <1>4. View(N, s).entry = View(L, s).entry /\ View(N, s).storage = View(L, s).storage
    BY <1>0, <1>2, <1>3 DEF View, Over, Layer, State
  <1>5. View(N, s) = View(L, s)
    <2>1. View(N, s) \in State /\ View(L, s) \in State
      BY <1>2, ViewType
    <2> QED BY <1>4, <2>1 DEF State
  <1>6. Sound(N, s)
    BY <1>0, <1>2, <1>3, <1>5 DEF Sound, Layer
  <1> QED BY <1>2, <1>5, <1>6

\* contractstorage_insert_into_id_map changes the storage of one contract.
LEMMA InsertStorageView ==
    ASSUME NEW L \in Layer, NEW s \in State, Sound(L, s),
           NEW c \in Contract, NEW v \in Value, View(L, s).entry[c] # NoValue
    PROVE  /\ InsertStorage(L, c, v) \in Layer
           /\ View(InsertStorage(L, c, v), s) = [View(L, s) EXCEPT !.storage[c] = v]
           /\ Sound(InsertStorage(L, c, v), s)
  <1> DEFINE N == InsertStorage(L, c, v)
  <1>1. /\ N \in Layer
        /\ N.entry = L.entry
        /\ N.storage = [L.storage EXCEPT ![c] = v]
        /\ N.removed = L.removed
    BY DEF InsertStorage, Layer
  <1>2. View(N, s).entry = View(L, s).entry
    BY <1>1 DEF View, Over, Layer, State
  <1>3. View(N, s).storage = [View(L, s).storage EXCEPT ![c] = v]
    <2> SUFFICES ASSUME NEW j \in Contract
                 PROVE  View(N, s).storage[j] = [View(L, s).storage EXCEPT ![c] = v][j]
      BY <1>1 DEF View, Over, Layer, State
    <2> QED BY <1>1, StateLayersAssumption DEF View, Over, Layer, State
  <1>4. View(N, s) = [View(L, s) EXCEPT !.storage[c] = v]
    <2>1. View(N, s) \in State /\ View(L, s) \in State
      BY <1>1, ViewType
    <2> QED BY <1>2, <1>3, <2>1 DEF State
  <1>5. Owned(View(N, s))
    BY <1>2, <1>3, ViewType DEF Owned, State, Sound
  <1>6. Sound(N, s)
    BY <1>1, <1>5 DEF Sound, Layer
  <1> QED BY <1>1, <1>4, <1>6

\* apply_changes to the layer below: it then shows what the upper layer showed.
LEMMA ApplyToLayerView ==
    ASSUME NEW L \in Layer, NEW P \in Layer, NEW s \in State,
           Owned(s), Sound(P, s), Sound(L, View(P, s))
    PROVE  /\ ApplyToLayer(L, P, s) \in Layer
           /\ View(ApplyToLayer(L, P, s), s) = View(L, View(P, s))
           /\ Sound(ApplyToLayer(L, P, s), s)
  <1> DEFINE N == ApplyToLayer(L, P, s)
             V == View(P, s)
  <1>0. V \in State /\ View(L, V) \in State
    BY ViewType
  <1>1. /\ N \in Layer
        /\ N.entry = Over(L.entry, P.entry, L.removed)
        /\ N.storage = Over(L.storage, P.storage, L.removed)
        /\ N.removed = (P.removed \cup {k \in L.removed : V.entry[k] # NoValue})
                          \ {k \in Key : L.entry[k] # NoValue}
    BY DEF ApplyToLayer, Layer, Over
  <1>2. View(N, s).entry = View(L, V).entry
    BY <1>1 DEF View, Over, Layer, State
  <1>3. View(N, s).storage = View(L, V).storage
    <2> SUFFICES ASSUME NEW c \in Contract
                 PROVE  View(N, s).storage[c] = View(L, V).storage[c]
      BY <1>1 DEF View, Over, Layer, State
    <2>1. c \in Key
      BY StateLayersAssumption
    <2>2. CASE c \in L.removed
      <3>1. L.entry[c] = NoValue /\ V.entry[c] = NoValue /\ V.storage[c] = NoValue
        BY <2>2, <1>0 DEF Sound, Owned
      <3> QED BY <1>1, <2>1, <2>2, <3>1 DEF View, Over, Layer, State
    <2>3. CASE c \notin L.removed
      <3>1. c \in P.removed => s.storage[c] = NoValue
        BY DEF Sound, Owned
      <3> QED BY <1>1, <2>1, <2>3, <3>1 DEF View, Over, Layer, State
    <2> QED BY <2>2, <2>3
  <1>4. View(N, s) = View(L, V)
    <2>1. View(N, s) \in State
      BY <1>1, ViewType
    <2> QED BY <1>0, <1>2, <1>3, <2>1 DEF State
  <1>5. \A k \in N.removed : N.entry[k] = NoValue
    BY <1>1 DEF Over, Layer, State, Sound, View
  <1>6. \A c \in N.removed \cap Contract : s.entry[c] = NoValue
    BY <1>1 DEF Sound
  <1>7. Sound(N, s)
    BY <1>4, <1>5, <1>6 DEF Sound
  <1> QED BY <1>1, <1>4, <1>7

\* apply_changes to the database: it then holds what the layer showed, and a
\* second apply_changes would change nothing ("TODO: Verify idempotency").
LEMMA ApplyToDbView ==
    ASSUME NEW L \in Layer, NEW d \in State
    PROVE  /\ ApplyToDb(L, d) = View(L, d)
           /\ ApplyToDb(L, ApplyToDb(L, d)) = ApplyToDb(L, d)
  <1>1. ApplyToDb(L, d) = View(L, d)
    BY DEF ApplyToDb, View
  <1>2. ApplyToDb(L, View(L, d)) = View(L, View(L, d))
    BY DEF ApplyToDb, View
  <1>3. /\ View(L, View(L, d)).entry = View(L, d).entry
        /\ View(L, View(L, d)).storage = View(L, d).storage
    BY DEF View, Over, Layer, State
  <1>4. View(L, d) \in State /\ View(L, View(L, d)) \in State
    BY ViewType
  <1> QED BY <1>1, <1>2, <1>3, <1>4 DEF State

-----------------------------------------------------------------------------
(* The inductive invariant.                                                *)

\* The initial states satisfy it.
LEMMA LayersInit == Init => LayersInv
  <1> SUFFICES ASSUME Init PROVE LayersInv
    OBVIOUS
  <1>1. db \in State /\ Owned(db)
    BY DEF Init, Owned
  <1>2. EmptyLayer \in Layer /\ Sound(EmptyLayer, db)
    BY <1>1, ViewEmpty, EmptySound
  <1>3. Below(base) = db
    BY DEF Init, Below
  <1> QED BY <1>1, <1>2, <1>3 DEF Init, LayersInv, TypeOK

\* The state below the running evaluation is a state, and its storage is owned.
LEMMA BelowOwned ==
    ASSUME LayersInv, NEW b
    PROVE  Below(b) \in State /\ Owned(Below(b))
  <1>1. db \in State /\ pend \in Layer /\ gen \in Layer
        /\ Owned(db) /\ Owned(View(pend, db)) /\ Owned(View(gen, db))
    BY DEF LayersInv, TypeOK, Sound
  <1>2. View(pend, db) \in State /\ View(gen, db) \in State
    BY <1>1, ViewType
  <1> QED BY <1>1, <1>2 DEF Below

\* An edit of the running evaluation preserves the invariant.
LEMMA ContinueInv ==
    ASSUME LayersInv, base # "none",
           NEW L \in Layer, Sound(L, Below(base)), Continue(L)
    PROVE  LayersInv'
  <1>1. UNCHANGED <<db, pend, gen, generating, base>> /\ top' = L
    BY DEF Continue
  <1>2. Below(base)' = Below(base)
    BY <1>1 DEF Below
  <1> QED BY <1>1, <1>2 DEF LayersInv, TypeOK

\* Every edit is of this kind, and is exact.
LEMMA EditStep ==
    ASSUME LayersInv
    PROVE  /\ \A k \in Key \ Contract : \A v \in Value :
                 StoreEntry(k, v) =>
                    LayersInv' /\ Current' = [Current EXCEPT !.entry[k] = v]
           /\ \A k \in Key \ Contract :
                 RemoveEntry(k) =>
                    LayersInv' /\ Current' = [Current EXCEPT !.entry[k] = NoValue]
           /\ \A c \in Contract : \A v \in Info :
                 /\ RegisterContract(c, v) => LayersInv' /\ Current' = Current
                 /\ ContractInfo(c, v) \/ UpdateContract(c, v) =>
                       LayersInv' /\ Current' = [Current EXCEPT !.entry[c] = v]
                 /\ StoreStorage(c, v) =>
                       LayersInv' /\ Current' = [Current EXCEPT !.storage[c] = v]
  <1> DEFINE B == Below(base)
  <1>0. /\ top \in Layer /\ Sound(top, B)
        /\ B \in State /\ Owned(B)
    BY BelowOwned DEF LayersInv, TypeOK
  <1>1. ASSUME NEW L, Continue(L)
        PROVE  Current' = View(L, B)
    <2>1. UNCHANGED <<db, pend, gen, generating, base>> /\ top' = L
      BY <1>1 DEF Continue
    <2>2. B' = B
      BY <2>1 DEF Below
    <2> QED BY <2>1, <2>2 DEF Current
  <1>2. ASSUME NEW k \in Key \ Contract, NEW v \in Value, StoreEntry(k, v)
        PROVE  LayersInv' /\ Current' = [Current EXCEPT !.entry[k] = v]
    <2> DEFINE N == InsertEntry(top, k, v)
    <2>1. base # "none" /\ Continue(N)
      BY <1>2 DEF StoreEntry
    <2>2. N \in Layer /\ View(N, B) = [View(top, B) EXCEPT !.entry[k] = v] /\ Sound(N, B)
      BY <1>0, InsertEntryView
    <2>3. LayersInv'
      BY <2>1, <2>2, ContinueInv
    <2> QED BY <1>1, <2>1, <2>2, <2>3 DEF Current
  <1>3. ASSUME NEW k \in Key \ Contract, RemoveEntry(k)
        PROVE  LayersInv' /\ Current' = [Current EXCEPT !.entry[k] = NoValue]
    <2> DEFINE N == EraseEntry(top, k)
    <2>1. base # "none" /\ Continue(N)
      BY <1>3 DEF RemoveEntry
    <2>2. N \in Layer /\ View(N, B) = [View(top, B) EXCEPT !.entry[k] = NoValue] /\ Sound(N, B)
      BY <1>0, EraseEntryView
    <2>3. LayersInv'
      BY <2>1, <2>2, ContinueInv
    <2> QED BY <1>1, <2>1, <2>2, <2>3 DEF Current
  <1>4. ASSUME NEW c \in Contract, NEW v \in Info, RegisterContract(c, v)
        PROVE  LayersInv' /\ Current' = Current
    <2> DEFINE N == EraseEntry(InsertEntry(top, c, v), c)
    <2>1. base # "none" /\ View(top, B).entry[c] = NoValue /\ Continue(N)
      BY <1>4 DEF RegisterContract, Current
    <2>2. v \in Value
      BY StateLayersAssumption
    <2>3. N \in Layer /\ View(N, B) = View(top, B) /\ Sound(N, B)
      BY <1>0, <2>1, <2>2, TemporaryEntryView
    <2>4. LayersInv'
      BY <2>1, <2>3, ContinueInv
    <2> QED BY <1>1, <2>1, <2>3, <2>4 DEF Current
  <1>5. ASSUME NEW c \in Contract, NEW v \in Info, ContractInfo(c, v) \/ UpdateContract(c, v)
        PROVE  LayersInv' /\ Current' = [Current EXCEPT !.entry[c] = v]
    <2> DEFINE N == InsertEntry(top, c, v)
    <2>1. base # "none" /\ Continue(N)
      BY <1>5 DEF ContractInfo, UpdateContract
    <2>2. v \in Value /\ c \in Key
      BY StateLayersAssumption
    <2>3. N \in Layer /\ View(N, B) = [View(top, B) EXCEPT !.entry[c] = v] /\ Sound(N, B)
      BY <1>0, <2>2, InsertEntryView
    <2>4. LayersInv'
      BY <2>1, <2>3, ContinueInv
    <2> QED BY <1>1, <2>1, <2>3, <2>4 DEF Current
  <1>6. ASSUME NEW c \in Contract, NEW v \in Info, StoreStorage(c, v)
        PROVE  LayersInv' /\ Current' = [Current EXCEPT !.storage[c] = v]
    <2> DEFINE N == InsertStorage(top, c, v)
    <2>1. base # "none" /\ View(top, B).entry[c] # NoValue /\ Continue(N)
      BY <1>6 DEF StoreStorage, Current
    <2>2. v \in Value
      BY StateLayersAssumption
    <2>3. N \in Layer /\ View(N, B) = [View(top, B) EXCEPT !.storage[c] = v] /\ Sound(N, B)
      BY <1>0, <2>1, <2>2, InsertStorageView
    <2>4. LayersInv'
      BY <2>1, <2>3, ContinueInv
    <2> QED BY <1>1, <2>1, <2>3, <2>4 DEF Current
  <1> QED BY <1>2, <1>3, <1>4, <1>5, <1>6

\* apply_changes of the running evaluation.
LEMMA ApplyStep ==
    ASSUME LayersInv
    PROVE  /\ ApplyToPool  => LayersInv' /\ View(pend, db)' = Current
           /\ ApplyToBuild => LayersInv' /\ View(gen, db)' = Current
           /\ ApplyBlock   => LayersInv' /\ db' = Current
  <1>0. /\ db \in State /\ pend \in Layer /\ gen \in Layer /\ top \in Layer
        /\ Owned(db) /\ Sound(pend, db) /\ Sound(gen, db) /\ Sound(top, Below(base))
        /\ EmptyLayer \in Layer
    BY ViewEmpty DEF LayersInv, TypeOK
  <1>1. ASSUME ApplyToPool
        PROVE  LayersInv' /\ View(pend, db)' = Current
    <2> DEFINE N == ApplyToLayer(top, pend, db)
    <2>1. /\ Below(base) = View(pend, db)
          /\ pend' = N /\ base' = "none" /\ top' = EmptyLayer
          /\ UNCHANGED <<db, gen, generating>>
      BY <1>1 DEF ApplyToPool, Below
    <2>2. N \in Layer /\ View(N, db) = View(top, View(pend, db)) /\ Sound(N, db)
      BY <1>0, <2>1, ApplyToLayerView
    <2>3. Below(base)' = db /\ Sound(EmptyLayer, db)
      BY <1>0, <2>1, EmptySound DEF Below
    <2>4. LayersInv'
      BY <1>0, <2>1, <2>2, <2>3 DEF LayersInv, TypeOK
    <2> QED BY <2>1, <2>2, <2>4 DEF Current
  <1>2. ASSUME ApplyToBuild
        PROVE  LayersInv' /\ View(gen, db)' = Current
    <2> DEFINE N == ApplyToLayer(top, gen, db)
    <2>1. /\ Below(base) = View(gen, db)
          /\ gen' = N /\ base' = "none" /\ top' = EmptyLayer
          /\ UNCHANGED <<db, pend, generating>>
          /\ generating
      BY <1>2 DEF ApplyToBuild, Below, LayersInv, TypeOK
    <2>2. N \in Layer /\ View(N, db) = View(top, View(gen, db)) /\ Sound(N, db)
      BY <1>0, <2>1, ApplyToLayerView
    <2>3. Below(base)' = db /\ Sound(EmptyLayer, db)
      BY <1>0, <2>1, EmptySound DEF Below
    <2>4. LayersInv'
      BY <1>0, <2>1, <2>2, <2>3 DEF LayersInv, TypeOK
    <2> QED BY <2>1, <2>2, <2>4 DEF Current
  <1>3. ASSUME ApplyBlock
        PROVE  LayersInv' /\ db' = Current
    <2>1. /\ Below(base) = db /\ db' = View(top, db)
          /\ pend' = EmptyLayer /\ base' = "none" /\ top' = EmptyLayer
          /\ gen' = gen /\ generating' = generating
      BY <1>0, <1>3, ApplyToDbView DEF ApplyBlock, Below
    <2>2. gen = EmptyLayer
      BY <1>3 DEF ApplyBlock, LayersInv, TypeOK
    <2>3. db' \in State /\ Owned(db')
      BY <1>0, <2>1, ViewType DEF Sound
    <2>4. Below(base)' = db' /\ Sound(EmptyLayer, db')
      BY <2>1, <2>3, EmptySound DEF Below
    <2>5. LayersInv'
      BY <1>0, <2>1, <2>2, <2>3, <2>4 DEF LayersInv, TypeOK
    <2> QED BY <2>1, <2>5 DEF Current
  <1> QED BY <1>1, <1>2, <1>3

\* Steps that only drop layers, or start an empty one.
LEMMA DropStep ==
    ASSUME LayersInv,
           db' = db,
           pend' \in {pend, EmptyLayer}, gen' \in {gen, EmptyLayer}, top' = EmptyLayer,
           base' \in {"none", "pool", "build", "block"}, generating' \in BOOLEAN,
           base' # "none" => (base' = "build") = generating',
           ~generating' => gen' = EmptyLayer
    PROVE  LayersInv' /\ Current' = Below(base)'
  <1>1. /\ db \in State /\ Owned(db)
        /\ EmptyLayer \in Layer /\ Sound(EmptyLayer, db)
        /\ pend \in Layer /\ gen \in Layer /\ Sound(pend, db) /\ Sound(gen, db)
    BY ViewEmpty, EmptySound DEF LayersInv, TypeOK
  <1>2. pend' \in Layer /\ gen' \in Layer /\ Sound(pend', db) /\ Sound(gen', db)
    BY <1>1
  <1>3. View(pend', db) \in State /\ View(gen', db) \in State
        /\ Owned(View(pend', db)) /\ Owned(View(gen', db))
    BY <1>1, <1>2, ViewType DEF Sound
  <1>4. Below(base)' \in {db, View(pend', db), View(gen', db)}
    BY DEF Below
  <1>5. Below(base)' \in State /\ Owned(Below(base)')
    BY <1>1, <1>3, <1>4
  <1>6. Sound(top', Below(base)') /\ View(top', Below(base)') = Below(base)'
    BY <1>5, EmptySound, ViewEmpty
  <1>7. LayersInv'
    BY <1>1, <1>2, <1>6 DEF LayersInv, TypeOK
  <1> QED BY <1>6, <1>7 DEF Current

\* Every step preserves the invariant.
LEMMA LayersNext == LayersInv /\ [Next]_vars => LayersInv'
  <1> SUFFICES ASSUME LayersInv, [Next]_vars PROVE LayersInv'
    OBVIOUS
  <1> USE DEF LayersInv, TypeOK
  <1>1. ASSUME NEW b \in {"pool", "build", "block"}, Begin(b) PROVE LayersInv'
    <2>1. ~generating' => gen' = EmptyLayer
      BY <1>1 DEF Begin
    <2> QED BY <1>1, <2>1, DropStep DEF Begin
  <1>2. CASE EvaluateResult
    BY <1>2, DropStep DEF EvaluateResult, Continue
  <1>3. CASE Throw
    BY <1>3, DropStep DEF Throw
  <1>4. CASE StartGenerate
    BY <1>4, DropStep DEF StartGenerate
  <1>5. CASE EndGenerate
    BY <1>5, DropStep DEF EndGenerate
  <1>6. CASE RevalidatePending
    BY <1>6, DropStep DEF RevalidatePending
  <1>7. CASE Restart
    BY <1>7, DropStep DEF Restart
  <1>8. CASE UNCHANGED vars
    <2>1. Below(base)' = Below(base)
      BY <1>8 DEF vars, Below
    <2> QED BY <1>8, <2>1 DEF vars
  <1> HIDE DEF LayersInv, TypeOK
  <1>9. CASE ApplyToPool \/ ApplyToBuild \/ ApplyBlock
    BY <1>9, ApplyStep
  <1>10. ASSUME NEW k \in Key \ Contract, RemoveEntry(k) \/ \E v \in Value : StoreEntry(k, v)
         PROVE  LayersInv'
    BY <1>10, EditStep
  <1>11. ASSUME NEW c \in Contract, NEW v \in Info,
                RegisterContract(c, v) \/ ContractInfo(c, v) \/ UpdateContract(c, v)
                   \/ StoreStorage(c, v)
         PROVE  LayersInv'
    BY <1>11, EditStep
  <1> QED BY <1>1, <1>2, <1>3, <1>4, <1>5, <1>6, <1>7, <1>8, <1>9, <1>10, <1>11 DEF Next

\* LayersInv holds in every reachable state, for all ids and values.
THEOREM LayersInvariant == Spec => []LayersInv
  <1> QED BY LayersInit, LayersNext, PTL DEF Spec

\* Storage is found only for contracts that are found, in every layer.
THEOREM StorageIsOwned == Spec => []StorageOwned
  <1>1. LayersInv => StorageOwned
    BY DEF LayersInv, StorageOwned, Sound, Current
  <1> QED BY <1>1, LayersInvariant, PTL

\* Every store and remove changes what lookups find for its own id only.
THEOREM EditsAreExact == Spec => EditsExact
  <1> DEFINE Exact ==
        /\ \A k \in Key \ Contract : \A v \in Value :
             /\ StoreEntry(k, v) => Current' = [Current EXCEPT !.entry[k] = v]
             /\ RemoveEntry(k) => Current' = [Current EXCEPT !.entry[k] = NoValue]
        /\ \A c \in Contract : \A v \in Info :
             /\ RegisterContract(c, v) => Current' = Current
             /\ ContractInfo(c, v) \/ UpdateContract(c, v)
                   => Current' = [Current EXCEPT !.entry[c] = v]
             /\ StoreStorage(c, v) => Current' = [Current EXCEPT !.storage[c] = v]
  <1>1. LayersInv => Exact
    BY EditStep
  <1>2. LayersInv /\ [Next]_vars => [Exact]_vars
    BY <1>1
  <1> QED BY <1>2, LayersInvariant, PTL DEF Spec, EditsExact

-----------------------------------------------------------------------------
(* The layers implement private copies.                                    *)

\* The states that the copies map to.
FlatFacts ==
    /\ db \in State /\ View(pend, db) \in State /\ View(gen, db) \in State
    /\ Current \in State
    /\ ~generating => View(gen, db) = db
    /\ base = "none" => Current = db

LEMMA FlatTypes == LayersInv => FlatFacts
  <1> SUFFICES ASSUME LayersInv PROVE FlatFacts
    OBVIOUS
  <1>1. /\ db \in State /\ pend \in Layer /\ gen \in Layer /\ top \in Layer
        /\ base = "none" => top = EmptyLayer
        /\ ~generating => gen = EmptyLayer
    BY DEF LayersInv, TypeOK
  <1>2. Below(base) \in State
    BY BelowOwned
  <1>3. base = "none" => Below(base) = db
    BY DEF Below
  <1> QED BY <1>1, <1>2, <1>3, ViewType, ViewEmpty DEF Current, FlatFacts

\* Initial states map to initial states.
LEMMA FlatInitial == Init => Flat!FlatInit
  <1> SUFFICES ASSUME Init PROVE Flat!FlatInit
    OBVIOUS
  <1>1. LayersInv
    BY LayersInit
  <1>2. db \in State /\ View(gen, db) = db /\ Current = db
    BY <1>1, FlatTypes DEF Init, FlatFacts
  <1>3. View(pend, db) = db
    BY <1>2, ViewEmpty DEF Init
  <1>4. Flat!State = State
    BY DEF Flat!State, State, Flat!Optional
  <1> QED BY <1>2, <1>3, <1>4 DEF Flat!FlatInit, Init

\* A step of the layers is a step of the copies, or changes no copy.
LEMMA FlatStep ==
    ASSUME LayersInv, LayersInv', [Next]_vars
    PROVE  [Flat!FlatNext]_(Flat!flatVars)
  <1> DEFINE P == View(pend, db)
             G == View(gen, db)
             C == Current
  <1>0. /\ db \in State /\ P \in State /\ G \in State /\ C \in State
        /\ ~generating => G = db
        /\ base = "none" => C = db
    BY FlatTypes DEF FlatFacts
  <1>1. FlatFacts'
    BY FlatTypes, PTL
  <1>2. /\ db' \in State /\ P' \in State /\ G' \in State /\ C' \in State
        /\ ~generating' => G' = db'
        /\ base' = "none" => C' = db'
    BY <1>1 DEF FlatFacts
  <1>3. ASSUME NEW b \in {"pool", "build", "block"}, Begin(b)
        PROVE  Flat!Copy(b)
    <2>1. /\ base = "none" /\ (b = "build") = generating /\ base' = b
          /\ top' = EmptyLayer /\ UNCHANGED <<db, pend, gen, generating>>
      BY <1>3 DEF Begin
    <2>2. Below(base)' \in State /\ Below(base)' = Below(b)
      BY <1>0, <2>1 DEF Below
    <2>3. C' = Below(b)
      BY <2>1, <2>2, ViewEmpty DEF Current
    <2>4. Below(b) = Flat!Source(b)
      BY DEF Below, Flat!Source
    <2>5. P' = P /\ G' = G
      BY <2>1
    <2> QED BY <2>1, <2>3, <2>4, <2>5 DEF Flat!Copy
  <1>4. ASSUME NEW k \in Key \ Contract, NEW v \in Value, StoreEntry(k, v)
        PROVE  Flat!WriteEntry(k, v)
    <2>1. base # "none" /\ UNCHANGED <<db, pend, gen, generating, base>>
      BY <1>4 DEF StoreEntry, Continue
    <2>2. C' = [C EXCEPT !.entry[k] = v]
      BY <1>4, EditStep
    <2> QED BY <2>1, <2>2 DEF Flat!WriteEntry
  <1>5. ASSUME NEW k \in Key \ Contract, RemoveEntry(k)
        PROVE  Flat!WriteEntry(k, NoValue)
    <2>1. base # "none" /\ UNCHANGED <<db, pend, gen, generating, base>>
      BY <1>5 DEF RemoveEntry, Continue
    <2>2. C' = [C EXCEPT !.entry[k] = NoValue]
      BY <1>5, EditStep
    <2> QED BY <2>1, <2>2 DEF Flat!WriteEntry
  <1>6. ASSUME NEW c \in Contract, NEW v \in Info, RegisterContract(c, v)
        PROVE  UNCHANGED Flat!flatVars
    <2>1. UNCHANGED <<db, pend, gen, generating, base>>
      BY <1>6 DEF RegisterContract, Continue
    <2>2. C' = C
      BY <1>6, EditStep
    <2> QED BY <2>1, <2>2 DEF Flat!flatVars
  <1>7. ASSUME NEW c \in Contract, NEW v \in Info, ContractInfo(c, v) \/ UpdateContract(c, v)
        PROVE  Flat!WriteEntry(c, v)
    <2>1. base # "none" /\ UNCHANGED <<db, pend, gen, generating, base>>
      BY <1>7 DEF ContractInfo, UpdateContract, Continue
    <2>2. C' = [C EXCEPT !.entry[c] = v]
      BY <1>7, EditStep
    <2> QED BY <2>1, <2>2 DEF Flat!WriteEntry
  <1>8. ASSUME NEW c \in Contract, NEW v \in Info, StoreStorage(c, v)
        PROVE  Flat!WriteStorage(c, v)
    <2>1. base # "none" /\ UNCHANGED <<db, pend, gen, generating, base>>
      BY <1>8 DEF StoreStorage, Continue
    <2>2. C' = [C EXCEPT !.storage[c] = v]
      BY <1>8, EditStep
    <2> QED BY <2>1, <2>2 DEF Flat!WriteStorage
  <1>9. CASE EvaluateResult
    <2>1. /\ base # "none" /\ top' = EmptyLayer
          /\ UNCHANGED <<db, pend, gen, generating, base>>
      BY <1>9 DEF EvaluateResult, Continue
    <2>2. Below(base)' \in State /\ Below(base)' = Below(base)
      BY <1>0, <2>1 DEF Below
    <2>3. C' = Below(base)
      BY <2>1, <2>2, ViewEmpty DEF Current
    <2>4. Below(base) = Flat!Source(base)
      BY DEF Below, Flat!Source
    <2> QED BY <2>1, <2>3, <2>4 DEF Flat!Recopy, Flat!FlatNext
  <1>10. CASE Throw
    <2>1. base # "none" /\ base' = "none" /\ UNCHANGED <<db, pend, gen, generating>>
      BY <1>10 DEF Throw
    <2> QED BY <1>2, <2>1 DEF Flat!Discard, Flat!FlatNext
  <1>11. CASE ApplyToPool
    <2>1. base = "pool" /\ base' = "none" /\ UNCHANGED <<db, gen, generating>>
      BY <1>11 DEF ApplyToPool
    <2>2. P' = C
      BY <1>11, ApplyStep
    <2> QED BY <1>2, <2>1, <2>2 DEF Flat!KeepInPool, Flat!FlatNext
  <1>12. CASE ApplyToBuild
    <2>1. base = "build" /\ base' = "none" /\ UNCHANGED <<db, pend, generating>>
      BY <1>12 DEF ApplyToBuild
    <2>2. G' = C
      BY <1>12, ApplyStep
    <2> QED BY <1>2, <2>1, <2>2 DEF Flat!KeepInBuild, Flat!FlatNext
  <1>13. CASE ApplyBlock
    <2>1. /\ base = "block" /\ base' = "none" /\ pend' = EmptyLayer
          /\ UNCHANGED <<gen, generating>>
      BY <1>13 DEF ApplyBlock
    <2>2. db' = C
      BY <1>13, ApplyStep
    <2>3. ~generating'
      BY <2>1 DEF LayersInv, TypeOK
    <2>4. P' = db'
      BY <1>2, <2>1, ViewEmpty
    <2>5. G' = db' /\ C' = db'
      BY <1>2, <2>1, <2>3
    <2> QED BY <2>1, <2>2, <2>4, <2>5 DEF Flat!KeepInChain, Flat!FlatNext
  <1>14. CASE StartGenerate
    <2>1. /\ base = "none" /\ ~generating /\ generating' /\ gen' = EmptyLayer
          /\ generating' = TRUE
          /\ UNCHANGED <<db, pend, top, base>>
      BY <1>14 DEF StartGenerate
    <2>2. G' = G
      BY <1>0, <2>1, ViewEmpty
    <2>3. C' = C
      BY <1>0, <1>2, <2>1
    <2> QED BY <2>1, <2>2, <2>3 DEF Flat!StartBuild, Flat!FlatNext
  <1>15. CASE EndGenerate
    <2>1. /\ base = "none" /\ generating /\ ~generating' /\ generating' = FALSE
          /\ pend' \in {pend, EmptyLayer}
          /\ UNCHANGED <<db, top, base>>
      BY <1>15 DEF EndGenerate
    <2>2. P' \in {P, db}
      BY <1>0, <2>1, ViewEmpty
    <2>3. G' = db /\ C' = C
      BY <1>0, <1>2, <2>1
    <2> QED BY <2>1, <2>2, <2>3 DEF Flat!EndBuild, Flat!FlatNext
  <1>16. CASE RevalidatePending
    <2>1. /\ base = "none" /\ ~generating /\ pend' = EmptyLayer
          /\ UNCHANGED <<db, gen, generating, top, base>>
      BY <1>16 DEF RevalidatePending
    <2>2. P' = db
      BY <1>0, <2>1, ViewEmpty
    <2>3. G' = G /\ C' = C
      BY <1>0, <1>2, <2>1
    <2> QED BY <2>1, <2>2, <2>3 DEF Flat!ForgetPool, Flat!FlatNext
  <1>17. CASE Restart
    <2>1. /\ pend' = EmptyLayer /\ ~generating' /\ generating' = FALSE /\ base' = "none"
          /\ db' = db
      BY <1>17 DEF Restart
    <2>2. P' = db
      BY <1>0, <2>1, ViewEmpty
    <2>3. G' = db /\ C' = db
      BY <1>2, <2>1
    <2> QED BY <2>1, <2>2, <2>3 DEF Flat!Restart, Flat!FlatNext
  <1>18. CASE UNCHANGED vars
    <2>1. C' = C
      BY <1>18 DEF vars, Current, Below
    <2> QED BY <1>18, <2>1 DEF vars, Flat!flatVars
  <1>19. ASSUME NEW b \in {"pool", "build", "block"}, Begin(b)
         PROVE  Flat!FlatNext
    BY <1>3, <1>19 DEF Flat!FlatNext
  <1>20. ASSUME NEW k \in Key \ Contract, RemoveEntry(k) \/ \E v \in Value : StoreEntry(k, v)
         PROVE  Flat!FlatNext
    BY <1>4, <1>5, <1>20 DEF Flat!FlatNext, Flat!Optional
  <1>21. ASSUME NEW c \in Contract, NEW v \in Info,
                ContractInfo(c, v) \/ UpdateContract(c, v) \/ StoreStorage(c, v)
         PROVE  Flat!FlatNext
    <2>1. c \in Key /\ v \in Flat!Optional
      BY StateLayersAssumption DEF Flat!Optional
    <2> QED BY <1>7, <1>8, <1>21, <2>1 DEF Flat!FlatNext
  <1> QED
    BY <1>6, <1>9, <1>10, <1>11, <1>12, <1>13, <1>14, <1>15, <1>16, <1>17, <1>18,
       <1>19, <1>20, <1>21 DEF Next

\* Every evaluation works as if it had a private copy of the whole state: the
\* layers of PendingChainState implement FlatState.
THEOREM LayersImplementCopies == Spec => ImplementsFlat
  <1>1. LayersInv /\ LayersInv' /\ [Next]_vars => [Flat!FlatNext]_(Flat!flatVars)
    BY FlatStep
  <1> QED
    BY <1>1, FlatInitial, LayersInvariant, PTL DEF Spec, ImplementsFlat, Flat!FlatSpec
=============================================================================
