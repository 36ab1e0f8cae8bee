------------------------ MODULE BlockDagWhole_proofs ------------------------
(***************************************************************************)
(* Proofs about BlockDag when no node crashes: exceptions may end           *)
(* extend_chain anywhere and blocks arrive in broadcasts and sync replies, *)
(* yet every stored block was executed once, is found by its number, and   *)
(* the number means the same block on all nodes.                           *)
(***************************************************************************)
EXTENDS BlockDag_proofs

-----------------------------------------------------------------------------
(* The outcomes of push_block without a crash.                             *)

\* What a successful push_block of b makes of database d.
PushFields(d, e, b, h) ==
    /\ e.blocks = d.blocks \cup {b}
    /\ e.num[h.node][h.produced] = b
    /\ \A m \in Node, k \in Number : m # h.node \/ k # h.produced => e.num[m][k] = d.num[m][k]
    /\ \A m \in Node : d.last[m] <= e.last[m]
    /\ h.produced <= e.last[h.node]
    /\ e.head = IF Replaces(d.head, h) THEN h ELSE d.head
    /\ \A c \in BlockId : e.applied[c] = d.applied[c] + IF c = b THEN 1 ELSE 0

\* What an exception in extend_chain leaves alone.
RefusedFields(d, e) ==
    /\ e.blocks = d.blocks /\ e.num = d.num /\ e.last = d.last
    /\ e.head = d.head /\ e.applied = d.applied

\* push_block does that.
LEMMA PushedFields ==
    ASSUME NEW d \in ChainDatabase, NEW b \in BlockId, NEW h \in Header, NEW kids,
           NEW e, e = Pushed(d, b, h, kids)
    PROVE  PushFields(d, e, b, h)
<1>1. /\ h.node \in Node /\ h.produced \in 1 .. MaxNumber /\ h.produced \in Number
  BY DEF Header, Number
<1>2. e.blocks = d.blocks \cup {b}
  BY DEF Pushed, PushUpTo, StoreHead, StoreBlock
<1>3. /\ e.num[h.node][h.produced] = b
      /\ \A m \in Node, k \in Number : m # h.node \/ k # h.produced => e.num[m][k] = d.num[m][k]
  <2>1. /\ e.num = [d.num EXCEPT ![h.node][h.produced] = b]
        /\ d.num \in [Node -> [Number -> BlockId \cup {NoBlock}]]
    BY DEF Pushed, PushUpTo, StoreHead, StoreNumber, ChainDatabase
  <2> QED BY <1>1, <2>1
<1>4. (\A m \in Node : d.last[m] <= e.last[m]) /\ h.produced <= e.last[h.node]
  <2>1. /\ e.last = [d.last EXCEPT ![h.node] = LastIndex(@, h.produced)]
        /\ d.last \in [Node -> 0 .. MaxNumber]
    BY DEF Pushed, PushUpTo, StoreHead, StoreLast, ChainDatabase
  <2> QED BY <1>1, <2>1, BlockDagAssumption DEF LastIndex
<1>5. e.head = IF Replaces(d.head, h) THEN h ELSE d.head
  BY DEF Pushed, PushUpTo, StoreHead
<1>6. \A c \in BlockId : e.applied[c] = d.applied[c] + IF c = b THEN 1 ELSE 0
  <2>1. e.applied = [d.applied EXCEPT ![b] = @ + 1] /\ d.applied \in [BlockId -> Nat]
    BY DEF Pushed, PushUpTo, StoreHead, ApplyChanges, ChainDatabase
  <2> QED BY <2>1
<1> QED
  BY <1>2, <1>3, <1>4, <1>5, <1>6 DEF PushFields

\* An exception in extend_chain leaves only links and the extend status.
LEMMA RefusedKeeps ==
    ASSUME NEW d \in ChainDatabase, NEW b \in BlockId, NEW h \in Header,
           NEW e, e = Refused(d, b, h)
    PROVE  RefusedFields(d, e)
<1> DEFINE l == PushUpTo(d, b, h, {}, h.parents, LinkParents)
<1>1. l \in ChainDatabase
  BY PushUpToType DEF LinkParents, Header
<1>2. RefusedFields(d, l)
  BY DEF RefusedFields, PushUpTo, LinkParents, StoreBlock, StoreNumber, StoreLast, StoreHead,
         ApplyChanges
<1>3. e = [l EXCEPT !.status = [block |-> b, version |-> 2]]
  BY DEF Refused
<1> HIDE DEF l
<1>4. /\ e.blocks = l.blocks /\ e.num = l.num /\ e.last = l.last
      /\ e.head = l.head /\ e.applied = l.applied
  BY <1>1, <1>3 DEF ChainDatabase
<1> QED
  BY <1>2, <1>4 DEF RefusedFields

-----------------------------------------------------------------------------
(* The steps without a crash.                                              *)

\* At node n block b is pushed to the end, or refused.
PushEnds(n, b) ==
    /\ b \in made' /\ b \in sent' /\ b \notin db[n].blocks
    /\ db' = [db EXCEPT ![n] = db'[n]]
    /\ PushFields(db[n], db'[n], b, hdr'[b])
PushFails(n) ==
    /\ db' = [db EXCEPT ![n] = db'[n]]
    /\ RefusedFields(db[n], db'[n])

\* What any step does to the databases.
WholeStep ==
    /\ Extends
    /\ sent \subseteq sent' /\ served' = {}
    /\ \A n \in Node : mode'[n] # "down"
    /\ \/ db' = db
       \/ \E n \in Node : PushFails(n) \/ \E b \in BlockId : PushEnds(n, b)

\* push_block in the delegate loop.
LEMMA OwnPushWhole ==
    ASSUME "crash" \notin Faults, WholeInv, Extends, NEW n \in Node, NEW b \in made',
           NEW next, b \notin db[n].blocks, OwnPush(n, b, hdr'[b], next), served' = served
    PROVE  WholeStep
<1> DEFINE h == hdr'[b]
<1>1. /\ db \in [Node -> ChainDatabase] /\ db[n] \in ChainDatabase
      /\ b \in BlockId /\ h \in Header /\ served' = {}
      /\ mode \in [Node -> {"down", "idle", "looping"}] /\ \A m \in Node : mode[m] # "down"
  BY DEF WholeInv, DagInv, TypeOK, Extends
<1>2. ~CrashInPush(n, b, h, {})
  BY DEF CrashInPush, Fault
<1>3. CASE /\ db' = [db EXCEPT ![n] = Pushed(db[n], b, h, {})]
           /\ sent' = sent \cup {b} /\ mode' = mode
  <2>1. db'[n] = Pushed(db[n], b, h, {}) /\ db' = [db EXCEPT ![n] = db'[n]]
    BY <1>1, <1>3
  <2>2. PushFields(db[n], db'[n], b, h)
    BY <1>1, <2>1, PushedFields
  <2>3. PushEnds(n, b)
    BY <1>3, <2>1, <2>2 DEF PushEnds
  <2> QED BY <1>1, <1>3, <2>3 DEF WholeStep
<1>4. CASE /\ db' = [db EXCEPT ![n] = Refused(db[n], b, h)]
           /\ sent' = sent /\ mode' = [mode EXCEPT ![n] = "idle"]
  <2>1. db'[n] = Refused(db[n], b, h) /\ db' = [db EXCEPT ![n] = db'[n]]
    BY <1>1, <1>4
  <2>2. PushFails(n)
    BY <1>1, <2>1, RefusedKeeps DEF PushFails
  <2>3. \A m \in Node : mode'[m] # "down"
    BY <1>1, <1>4
  <2> QED BY <1>1, <1>4, <2>2, <2>3 DEF WholeStep
<1> QED
  BY <1>2, <1>3, <1>4 DEF OwnPush

\* push_block of a block that another node sent.
LEMMA ReceivedPushWhole ==
    ASSUME "crash" \notin Faults, WholeInv, NEW n \in Node, NEW b \in BlockId, NEW kids,
           ReceivedPush(n, b, kids)
    PROVE  WholeStep
<1>1. /\ db \in [Node -> ChainDatabase] /\ db[n] \in ChainDatabase
      /\ b \in sent /\ b \in made /\ hdr[b] \in Header /\ b \notin db[n].blocks
      /\ made' = made /\ hdr' = hdr /\ served' = {}
  BY DEF WholeInv, DagInv, TypeOK, ShownStored, MadeBlocks, ReceivedPush, IsNew
<1>2. Extends
  BY <1>1 DEF Extends, WholeInv, DagInv, TypeOK, MadeBlocks
<1>3. ~CrashInPush(n, b, hdr[b], kids)
  BY DEF CrashInPush, Fault
<1>4. sent' = sent /\ mode' = mode /\ \A m \in Node : mode'[m] # "down"
  BY <1>3 DEF ReceivedPush, WholeInv
<1>5. CASE db' = [db EXCEPT ![n] = Pushed(db[n], b, hdr[b], kids)]
  <2>1. db'[n] = Pushed(db[n], b, hdr[b], kids) /\ db' = [db EXCEPT ![n] = db'[n]]
    BY <1>1, <1>5
  <2>2. PushFields(db[n], db'[n], b, hdr[b])
    BY <1>1, <2>1, PushedFields
  <2>3. PushEnds(n, b)
    BY <1>1, <1>4, <2>1, <2>2 DEF PushEnds
  <2> QED BY <1>1, <1>2, <1>4, <2>3 DEF WholeStep
<1>6. CASE db' = [db EXCEPT ![n] = Refused(db[n], b, hdr[b])]
  <2>1. db'[n] = Refused(db[n], b, hdr[b]) /\ db' = [db EXCEPT ![n] = db'[n]]
    BY <1>1, <1>6
  <2>2. PushFails(n)
    BY <1>1, <2>1, RefusedKeeps DEF PushFails
  <2> QED BY <1>1, <1>2, <1>4, <2>2 DEF WholeStep
<1> QED
  BY <1>3, <1>5, <1>6 DEF ReceivedPush

\* Every action is such a step.
LEMMA NextIsWhole ==
    ASSUME "crash" \notin Faults, WholeInv, [Next]_vars
    PROVE  WholeStep
<1>10. DagInv
  BY DEF WholeInv
<1>0. /\ DagInv /\ served = {} /\ \A n \in Node : mode[n] # "down"
      /\ \A n \in Node : \A b \in db[n].blocks : b \in sent /\ b \in made
  BY DEF WholeInv, StoredFound, DagInv, MadeBlocks
<1>1. CASE UNCHANGED vars
  BY <1>0, <1>1 DEF vars, WholeStep, Extends, DagInv, TypeOK, MadeBlocks
<1>2. ASSUME NEW n \in Node, GenerateBlock(n) PROVE WholeStep
  <2> DEFINE b == FreshId(made)
  <2>1. PICK t \in Time, r \in Number :
          LET h == NewHeader(n, db[n].last[n] + 1, r, t, TRUE) IN
          /\ RankAbove(h.parents, r)
          /\ made' = made \cup {b}
          /\ hdr' = [hdr EXCEPT ![b] = h]
          /\ OwnPush(n, b, h, NoBlock)
    BY <1>2 DEF GenerateBlock
  <2> DEFINE h == NewHeader(n, db[n].last[n] + 1, r, t, TRUE)
  <2>2. b \in BlockId /\ b \notin made /\ served' = served
    BY <1>2, FreshIdIsFresh DEF GenerateBlock
  <2> HIDE DEF b
  <2>3. h \in Header
    <3>1. db[n].last[n] + 1 \in Number
      BY <1>2 DEF GenerateBlock
    <3>2. RankAbove(Candidates(db[n]), r)
      BY <2>1 DEF NewHeader
    <3>3. h = NewHeader(n, db[n].last[n] + 1, r, t, TRUE) /\ TRUE \in BOOLEAN
      OBVIOUS
    <3> HIDE DEF h
    <3>4. db[n].last[n] + 1 \in Number /\ r \in Number /\ t \in Time
      BY <3>1
    <3> QED BY <1>10, <3>2, <3>3, <3>4, NewHeaderType, ZenonT(30)
  <2>4. made' = made \cup {b} /\ hdr' = [hdr EXCEPT ![b] = h] /\ OwnPush(n, b, h, NoBlock)
    BY <2>1
  <2> HIDE DEF h
  <2>5. hdr'[b] = h /\ b \in made' /\ b \notin db[n].blocks
    BY <1>0, <2>2, <2>4 DEF DagInv, TypeOK
  <2>6. Extends
    BY <1>0, <2>2, <2>3, <2>4 DEF Extends, DagInv, TypeOK, MadeBlocks
  <2> QED
    BY <2>2, <2>4, <2>5, <2>6, OwnPushWhole
<1>3. ASSUME NEW n \in Node, GenerateEmptyBlocks(n) PROVE WholeStep
  <2> DEFINE b  == FreshId(made)
             b2 == FreshId(made \cup {b})
  <2>1. PICK t \in Time, r \in Number :
          LET k  == db[n].last[n]
              h  == NewHeader(n, k + 1, r, t, FALSE)
              h2 == NewHeader(n, k + 2, r, t, FALSE) IN
          /\ RankAbove(h.parents, r)
          /\ made' = made \cup {b, b2}
          /\ hdr' = [hdr EXCEPT ![b] = h, ![b2] = h2]
          /\ OwnPush(n, b, h, b2)
    BY <1>3 DEF GenerateEmptyBlocks
  <2> DEFINE h  == NewHeader(n, db[n].last[n] + 1, r, t, FALSE)
             h2 == NewHeader(n, db[n].last[n] + 2, r, t, FALSE)
  <2>2. b \in BlockId /\ b \notin made /\ served' = served
    BY <1>3, FreshIdIsFresh DEF GenerateEmptyBlocks
  <2>3. b2 \in BlockId /\ b2 \notin made /\ b2 # b
    BY <1>3, FreshIdIsFresh DEF GenerateEmptyBlocks
  <2> HIDE DEF b, b2
  <2>4. h \in Header /\ h2 \in Header
    <3>1. db[n].last[n] + 1 \in Number /\ db[n].last[n] + 2 \in Number
      BY <1>0, <1>3, BlockDagAssumption
      DEF GenerateEmptyBlocks, DagInv, TypeOK, ChainDatabase, Number
    <3>2. RankAbove(Candidates(db[n]), r)
      BY <2>1 DEF NewHeader
    <3>3. /\ h \in Header /\ h.node = n /\ h.produced = db[n].last[n] + 1
          /\ h.parents \subseteq db[n].blocks
          /\ \A p \in h.parents : p \in made /\ hdr[p].rank < h.rank
      BY <1>10, <3>1, <3>2, NewHeaderType
    <3>4. /\ h2 \in Header /\ h2.node = n /\ h2.produced = db[n].last[n] + 2
          /\ h2.parents \subseteq db[n].blocks
          /\ \A p \in h2.parents : p \in made /\ hdr[p].rank < h2.rank
      BY <1>10, <3>1, <3>2, NewHeaderType
    <3> QED BY <3>3, <3>4
  <2>5. /\ made' = made \cup {b, b2} /\ hdr' = [hdr EXCEPT ![b] = h, ![b2] = h2]
        /\ OwnPush(n, b, h, b2)
    BY <2>1
  <2> HIDE DEF h, h2
  <2>6. hdr'[b] = h /\ b \in made' /\ b \notin db[n].blocks
    BY <1>0, <2>2, <2>3, <2>5 DEF DagInv, TypeOK
  <2>7. Extends
    BY <1>0, <2>2, <2>3, <2>4, <2>5 DEF Extends, DagInv, TypeOK, MadeBlocks
  <2> QED
    BY <2>2, <2>5, <2>6, <2>7, OwnPushWhole
<1>4. ASSUME NEW n \in Node, PushSecondEmpty(n) PROVE WholeStep
  <2> DEFINE b == second[n]
  <2>1. /\ b # NoBlock /\ OwnPush(n, b, hdr[b], NoBlock)
        /\ made' = made /\ hdr' = hdr /\ served' = served
    BY <1>4 DEF PushSecondEmpty
  <2>2. b \in made /\ b \notin db[n].blocks
    BY <1>0, <2>1 DEF DagInv, SecondIsNext
  <2>3. Extends
    BY <1>0, <2>1 DEF Extends, DagInv, TypeOK, MadeBlocks
  <2> HIDE DEF b
  <2> QED
    BY <2>1, <2>2, <2>3, OwnPushWhole
<1>5. ASSUME NEW n \in Node, NEW b \in BlockId, OnNewBlock(n, b) \/ OnSyncBlock(n, b)
      PROVE  WholeStep
  <2>1. PICK kids : ReceivedPush(n, b, kids)
    BY <1>5 DEF OnNewBlock, OnSyncBlock
  <2> QED BY <2>1, ReceivedPushWhole
<1>6. ASSUME NEW n \in Node, NEW b \in BlockId, ServeBlock(n, b) PROVE WholeStep
  BY <1>0, <1>6 DEF ServeBlock
<1>7. ASSUME NEW n \in Node, Restart(n) PROVE WholeStep
  BY <1>0, <1>7 DEF Restart
<1>8. ASSUME NEW n \in Node, RescheduleDelegateLoop(n) PROVE WholeStep
  <2>1. /\ UNCHANGED <<made, hdr, db, sent, served>>
        /\ mode' = [mode EXCEPT ![n] = "looping"]
    BY <1>8 DEF RescheduleDelegateLoop
  <2>2. Extends
    BY <1>0, <2>1 DEF Extends, DagInv, TypeOK, MadeBlocks
  <2>3. \A m \in Node : mode'[m] # "down"
    BY <1>0, <2>1 DEF DagInv, TypeOK
  <2> QED BY <1>0, <2>1, <2>2, <2>3 DEF WholeStep
<1> QED
  BY <1>1, <1>2, <1>3, <1>4, <1>5, <1>6, <1>7, <1>8 DEF Next

-----------------------------------------------------------------------------
(* The invariant.                                                          *)

\* A push that ends keeps everything in step with the stored blocks.
LEMMA PushEndsKeeps ==
    ASSUME WholeInv, DagInv', WholeStep, NEW n \in Node, NEW b \in BlockId, PushEnds(n, b)
    PROVE  NumbersTrue' /\ StoredFound' /\ ExecutedOnce' /\ HeadLatest'
<1> DEFINE h == hdr'[b]
           d == db[n]
           e == db'[n]
<1>1. /\ db \in [Node -> ChainDatabase] /\ d \in ChainDatabase
      /\ db' \in [Node -> ChainDatabase] /\ e \in ChainDatabase
      /\ made \subseteq made' /\ b \in made' /\ b \in sent' /\ sent \subseteq sent'
      /\ h \in Header /\ b \notin d.blocks
      /\ \A c \in made : hdr'[c] = hdr[c] /\ hdr[c] \in Header
      /\ \A m \in Node : db[m].blocks \subseteq made /\ mode[m] # "down"
  BY DEF WholeInv, DagInv, TypeOK, MadeBlocks, WholeStep, Extends, PushEnds
<1>2. \A m \in Node \ {n} : db'[m] = db[m]
  <2>1. db' = [db EXCEPT ![n] = e]
    BY DEF PushEnds
  <2> HIDE DEF e
  <2> QED BY <1>1, <2>1
<1>3. PushFields(d, e, b, h)
  BY DEF PushEnds
<1>4. /\ h.node \in Node /\ h.produced \in Number /\ h.time \in Nat
      /\ \A c \in made : hdr[c].node \in Node /\ hdr[c].produced \in Number /\ hdr[c].time \in Nat
  BY <1>1 DEF Header
<1>5. \A m \in Node : \A c \in db[m].blocks :
        /\ c \in made /\ hdr'[c] = hdr[c] /\ c \in sent
        /\ db[m].num[hdr[c].node][hdr[c].produced] = c
        /\ hdr[c].produced <= db[m].last[hdr[c].node]
  BY <1>1 DEF WholeInv, StoredFound
<1> HIDE DEF d, e, h
<1>6. NumbersTrue'
  <2> SUFFICES ASSUME NEW j \in Node, NEW m \in Node, NEW k \in Number, db'[j].num[m][k] # NoBlock
               PROVE  LET c == db'[j].num[m][k] IN
                      c \in made' /\ hdr'[c].node = m /\ hdr'[c].produced = k
    BY DEF NumbersTrue
  <2>1. CASE j = n /\ m = h.node /\ k = h.produced
    BY <1>1, <1>3, <2>1 DEF PushFields, e, h
  <2>2. CASE db'[j].num[m][k] = db[j].num[m][k]
    <3> DEFINE c == db[j].num[m][k]
    <3>1. c \in made /\ hdr[c].node = m /\ hdr[c].produced = k
      BY <2>2 DEF WholeInv, NumbersTrue
    <3> HIDE DEF c
    <3>2. c \in made' /\ hdr'[c].node = m /\ hdr'[c].produced = k
      BY <1>1, <3>1
    <3> QED BY <2>2, <3>2 DEF c
  <2> QED BY <1>2, <1>3, <2>1, <2>2 DEF PushFields, d, e
<1>7. StoredFound'
  <2> SUFFICES ASSUME NEW m \in Node, NEW c \in db'[m].blocks
               PROVE  /\ c \in sent'
                      /\ db'[m].num[hdr'[c].node][hdr'[c].produced] = c
                      /\ hdr'[c].produced <= db'[m].last[hdr'[c].node]
    BY DEF StoredFound
  <2>1. CASE m = n /\ c = b
    BY <1>1, <1>3, <2>1 DEF PushFields, e, h
  <2>2. CASE m = n /\ c \in d.blocks
    <3>1. /\ c \in made /\ hdr'[c] = hdr[c] /\ c \in sent /\ c # b
          /\ d.num[hdr[c].node][hdr[c].produced] = c
          /\ hdr[c].produced <= d.last[hdr[c].node]
      BY <1>1, <1>5, <2>2 DEF d
    <3>2. hdr[c].node # h.node \/ hdr[c].produced # h.produced
      BY <1>1, <3>1 DEF DagInv, NumbersUnique, h
    <3>3. e.num[hdr[c].node][hdr[c].produced] = c
      BY <1>3, <1>4, <3>1, <3>2 DEF PushFields
    <3>4. hdr[c].produced <= e.last[hdr[c].node]
      <4>1. /\ d.last[hdr[c].node] \in 0 .. MaxNumber /\ e.last[hdr[c].node] \in 0 .. MaxNumber
            /\ hdr[c].produced \in 1 .. MaxNumber /\ MaxNumber \in Nat
        BY <1>1, <1>4, <3>1, BlockDagAssumption DEF ChainDatabase, Number
      <4>2. d.last[hdr[c].node] <= e.last[hdr[c].node]
        BY <1>3, <1>4, <3>1 DEF PushFields
      <4> QED BY <3>1, <4>1, <4>2
    <3> QED BY <1>1, <2>2, <3>1, <3>3, <3>4 DEF e
  <2>3. CASE m # n
    BY <1>1, <1>2, <1>5, <2>3
  <2> QED BY <1>3, <2>1, <2>2, <2>3 DEF PushFields, e
<1>8. ExecutedOnce'
  <2> SUFFICES ASSUME NEW m \in Node, NEW c \in BlockId
               PROVE  db'[m].applied[c] = IF c \in db'[m].blocks THEN 1 ELSE 0
    BY DEF ExecutedOnce
  <2>1. db[m].applied[c] = IF c \in db[m].blocks THEN 1 ELSE 0
    BY <1>1 DEF WholeInv, ExecutedOnce
  <2>2. CASE m = n
    BY <1>1, <1>3, <2>1, <2>2 DEF PushFields, d, e
  <2>3. CASE m # n
    BY <1>2, <2>1, <2>3
  <2> QED BY <2>2, <2>3
<1>9. HeadLatest'
  <2> SUFFICES ASSUME NEW m \in Node
               PROVE  IF db'[m].blocks = {} THEN db'[m].head = NoBlock
                      ELSE /\ \E c \in db'[m].blocks : db'[m].head = hdr'[c]
                           /\ \A c \in db'[m].blocks : hdr'[c].time <= db'[m].head.time
    BY DEF HeadLatest
  <2>0. IF db[m].blocks = {} THEN db[m].head = NoBlock
        ELSE /\ \E c \in db[m].blocks : db[m].head = hdr[c]
             /\ \A c \in db[m].blocks : hdr[c].time <= db[m].head.time
    BY DEF WholeInv, HeadLatest
  <2>1. CASE m # n
    BY <1>2, <1>5, <2>0, <2>1
  <2>2. CASE m = n
    <3>1. e.blocks = d.blocks \cup {b} /\ e.head = IF Replaces(d.head, h) THEN h ELSE d.head
      BY <1>3 DEF PushFields
    <3>2. \A c \in d.blocks : hdr'[c] = hdr[c] /\ hdr[c].time \in Nat
      BY <1>4, <1>5, <2>2 DEF d
    <3>3. CASE d.blocks = {}
      <4>1. e.head = h
        BY <2>0, <2>2, <3>1, <3>3 DEF Replaces, d
      <4>2. h.time <= h.time
        BY <1>4
      <4> QED BY <2>2, <3>1, <3>3, <4>1, <4>2 DEF e, h
    <3>4. CASE d.blocks # {}
      <4>1. PICK c \in d.blocks : d.head = hdr[c]
        BY <2>0, <2>2, <3>4 DEF d
      <4>2. \A x \in d.blocks : hdr[x].time <= d.head.time
        BY <2>0, <2>2, <3>4 DEF d
      <4>3. d.head.time \in Nat /\ d.head # NoBlock
        BY <1>1, <3>2, <4>1, BlockDagAssumption DEF d
      <4>4. CASE Replaces(d.head, h)
        <5>1. d.head.time <= h.time
          BY <1>4, <4>3, <4>4 DEF Replaces
        <5>2. \A x \in d.blocks : hdr'[x].time <= h.time
          BY <1>4, <3>2, <4>2, <4>3, <5>1
        <5>3. h.time <= h.time
          BY <1>4
        <5> QED BY <2>2, <3>1, <4>4, <5>2, <5>3 DEF e, h
      <4>5. CASE ~Replaces(d.head, h)
        <5>1. h.time <= d.head.time
          BY <1>4, <4>3, <4>5 DEF Replaces
        <5> QED BY <2>2, <3>1, <3>2, <4>1, <4>2, <4>5, <5>1 DEF e, h
      <4> QED BY <4>4, <4>5
    <3> QED BY <3>3, <3>4
  <2> QED BY <2>1, <2>2
<1> QED
  BY <1>6, <1>7, <1>8, <1>9

\* A step that stores nothing keeps it too.
LEMMA NothingStoredKeeps ==
    ASSUME WholeInv, DagInv', WholeStep,
           \A n \in Node : RefusedFields(db[n], db'[n])
    PROVE  NumbersTrue' /\ StoredFound' /\ ExecutedOnce' /\ HeadLatest'
<1>1. /\ made \subseteq made' /\ sent \subseteq sent'
      /\ \A c \in made : hdr'[c] = hdr[c]
      /\ \A m \in Node : db[m].blocks \subseteq made /\ mode[m] # "down"
  BY DEF WholeInv, DagInv, MadeBlocks, WholeStep, Extends
<1>2. NumbersTrue'
  BY <1>1 DEF WholeInv, NumbersTrue, RefusedFields
<1>3. StoredFound'
  BY <1>1 DEF WholeInv, StoredFound, RefusedFields
<1>4. ExecutedOnce'
  BY <1>1 DEF WholeInv, ExecutedOnce, RefusedFields
<1>5. HeadLatest'
  <2> SUFFICES ASSUME NEW m \in Node
               PROVE  IF db'[m].blocks = {} THEN db'[m].head = NoBlock
                      ELSE /\ \E c \in db'[m].blocks : db'[m].head = hdr'[c]
                           /\ \A c \in db'[m].blocks : hdr'[c].time <= db'[m].head.time
    BY DEF HeadLatest
  <2>1. IF db[m].blocks = {} THEN db[m].head = NoBlock
        ELSE /\ \E c \in db[m].blocks : db[m].head = hdr[c]
             /\ \A c \in db[m].blocks : hdr[c].time <= db[m].head.time
    BY DEF WholeInv, HeadLatest
  <2>2. \A c \in db[m].blocks : hdr'[c] = hdr[c]
    BY <1>1
  <2> QED BY <2>1, <2>2 DEF RefusedFields
<1> QED
  BY <1>2, <1>3, <1>4, <1>5

\* The invariant is inductive when nothing crashes.
LEMMA WholeInvStep ==
    ASSUME "crash" \notin Faults, WholeInv, [Next]_vars
    PROVE  WholeInv'
<1>1. WholeStep /\ DagInv'
  BY NextIsWhole, DagInvStep DEF WholeInv
<1>2. NumbersTrue' /\ StoredFound' /\ ExecutedOnce' /\ HeadLatest'
  <2>1. CASE db' = db
    BY <1>1, <2>1, NothingStoredKeeps DEF RefusedFields
  <2>2. ASSUME NEW n \in Node, PushFails(n)
        PROVE  NumbersTrue' /\ StoredFound' /\ ExecutedOnce' /\ HeadLatest'
    <3>1. \A m \in Node : RefusedFields(db[m], db'[m])
      <4>1. db' = [db EXCEPT ![n] = db'[n]] /\ db \in [Node -> ChainDatabase]
        BY <2>2 DEF PushFails, WholeInv, DagInv, TypeOK
      <4>2. \A m \in Node \ {n} : db'[m] = db[m]
        BY <4>1
      <4> QED BY <2>2, <4>2 DEF PushFails, RefusedFields
    <3> QED BY <1>1, <3>1, NothingStoredKeeps
  <2>3. ASSUME NEW n \in Node, NEW b \in BlockId, PushEnds(n, b)
        PROVE  NumbersTrue' /\ StoredFound' /\ ExecutedOnce' /\ HeadLatest'
    BY <1>1, <2>3, PushEndsKeeps
  <2> QED BY <1>1, <2>1, <2>2, <2>3 DEF WholeStep
<1> QED
  BY <1>1, <1>2 DEF WholeInv, WholeStep

LEMMA WholeInit == Init => WholeInv
<1> SUFFICES ASSUME Init PROVE WholeInv
  OBVIOUS
<1>1. DagInv
  BY DagInvInit
<1>2. \A n \in Node : mode[n] # "down"
  BY DEF Init
<1>3. \A n \in Node : /\ db[n].blocks = {} /\ db[n].head = NoBlock
                      /\ \A b \in BlockId : db[n].applied[b] = 0
                      /\ \A m \in Node, k \in Number : db[n].num[m][k] = NoBlock
  BY DEF Init, EmptyDatabase
<1>4. NumbersTrue
  BY <1>3 DEF NumbersTrue
<1>5. StoredFound /\ HeadLatest
  BY <1>3 DEF StoredFound, HeadLatest
<1>6. ExecutedOnce
  BY <1>3 DEF ExecutedOnce
<1> QED
  BY <1>1, <1>2, <1>4, <1>5, <1>6 DEF Init, WholeInv

-----------------------------------------------------------------------------
(* Theorems.  Their hypothesis is that no node dies inside push_block;      *)
(* exceptions, sync replies and child lists are not restricted.             *)

\* Without crashes every stored block went through push_block to the end.
THEOREM WholeInvariant ==
    ASSUME "crash" \notin Faults
    PROVE  Spec => []WholeInv
<1>1. WholeInv /\ [Next]_vars => WholeInv'
  BY WholeInvStep
<1> QED
  BY WholeInit, <1>1, PTL DEF Spec

\* Without crashes a node executes each block it stores once, and no other,
\* although exceptions end extend_chain and blocks arrive again and again.
THEOREM EachExecutedOnce ==
    ASSUME "crash" \notin Faults
    PROVE  Spec => []ExecutedOnce
<1>1. WholeInv => ExecutedOnce
  BY DEF WholeInv
<1> QED
  BY <1>1, WholeInvariant, PTL

\* Without crashes update_head_block keeps a stored block with the latest
\* timestamp, in whatever order blocks arrive.
THEOREM HeadIsLatest ==
    ASSUME "crash" \notin Faults
    PROVE  Spec => []HeadLatest
<1>1. WholeInv => HeadLatest
  BY DEF WholeInv
<1> QED
  BY <1>1, WholeInvariant, PTL

\* Without crashes a block number leads to the same block on all nodes: the
\* number of a block that was refused is used again, but nobody has that block.
THEOREM NumbersMeanTheSame ==
    ASSUME "crash" \notin Faults
    PROVE  Spec => []NumbersAgree
<1>1. WholeInv => NumbersAgree
  <2> SUFFICES ASSUME WholeInv, NEW n \in Node, NEW m \in Node, NEW p \in Node, NEW k \in Number,
                      HasBlock(db[n], p, k), HasBlock(db[m], p, k)
               PROVE  db[n].num[p][k] = db[m].num[p][k]
    BY DEF NumbersAgree
  <2> DEFINE b == db[n].num[p][k]
             c == db[m].num[p][k]
  <2>1. /\ b \in db[n].blocks /\ b \in sent /\ c \in db[m].blocks /\ c \in sent
        /\ b \in BlockId /\ c \in BlockId
    BY DEF HasBlock, WholeInv, StoredFound, DagInv, TypeOK
  <2>2. b # NoBlock /\ c # NoBlock
    BY <2>1, BlockDagAssumption
  <2>3. hdr[b].node = p /\ hdr[b].produced = k /\ hdr[c].node = p /\ hdr[c].produced = k
    BY <2>2 DEF WholeInv, NumbersTrue
  <2> HIDE DEF b, c
  <2>4. b = c
    BY <2>1, <2>3 DEF WholeInv, DagInv, NumbersUnique
  <2> QED BY <2>4 DEF b, c
<1> QED
  BY <1>1, WholeInvariant, PTL
=============================================================================
