--------------------------- MODULE DagSync_proofs ---------------------------
(***************************************************************************)
(* Proofs about DagSync: the sync protocol implements BlockDag; and with   *)
(* one producer no node skips a number and sync replies are in order.      *)
(***************************************************************************)
EXTENDS DagSync, BlockDag_proofs, FiniteSetTheorems, SequenceTheorems

-----------------------------------------------------------------------------
(* What a step of BlockDag changes.                                        *)

\* The child lists that a full block b may carry after this step.
TrueKids(b) == SUBSET {c \in made' : b \in hdr'[c].parents}

\* At node n some of the writes of push_block(b) are made.
Writing(n, b, kids) ==
    /\ b \in made' /\ b \notin db[n].blocks
    /\ \E e \in Writes(db[n], b, hdr'[b], kids) : db' = [db EXCEPT ![n] = e]

\* Blocks are never forgotten, and one push at most is made.
DagStep ==
    /\ Extends
    /\ sent \subseteq sent' /\ faults <= faults'
    /\ \/ db' = db
       \/ \E n \in Node, b \in BlockId : \E kids \in TrueKids(b) : Writing(n, b, kids)

\* push_block in the delegate loop.
LEMMA OwnPushWrites ==
    ASSUME DagInv, NEW n \in Node, NEW b \in made', NEW next,
           b \notin db[n].blocks, OwnPush(n, b, hdr'[b], next)
    PROVE  /\ sent \subseteq sent' /\ faults <= faults'
           /\ {} \in TrueKids(b) /\ Writing(n, b, {})
<1> DEFINE h == hdr'[b]
<1>1. Pushed(db[n], b, h, {}) \in Writes(db[n], b, h, {})
  BY DEF Writes, CrashPrefixes, Pushed, MarkExtend, StoreHead
<1>2. Refused(db[n], b, h) \in Writes(db[n], b, h, {})
  BY DEF Writes
<1>3. CrashPrefixes(db[n], b, h, {}) \subseteq Writes(db[n], b, h, {})
  BY DEF Writes
<1>4. faults \in Nat
  BY BlockDagAssumption DEF DagInv, TypeOK
<1>5. {} \in TrueKids(b)
  BY DEF TrueKids
<1> QED
  BY <1>1, <1>2, <1>3, <1>4, <1>5 DEF OwnPush, CrashInPush, Fault, Writing

\* push_block of a block that was received.
LEMMA ReceivedPushWrites ==
    ASSUME DagInv, NEW n \in Node, NEW b \in BlockId,
           NEW kids \in SUBSET {c \in made : b \in hdr[c].parents}, ReceivedPush(n, b, kids)
    PROVE  DagStep
<1>1. hdr' = hdr /\ made' = made /\ sent' = sent /\ b \in made /\ b \notin db[n].blocks
  BY DEF ReceivedPush, CrashInPush, IsNew, DagInv, ShownStored
<1>2. Extends
  BY <1>1 DEF Extends, DagInv, TypeOK, MadeBlocks
<1>3. Pushed(db[n], b, hdr[b], kids) \in Writes(db[n], b, hdr[b], kids)
  BY DEF Writes, CrashPrefixes, Pushed, MarkExtend, StoreHead
<1>4. Refused(db[n], b, hdr[b]) \in Writes(db[n], b, hdr[b], kids)
  BY DEF Writes
<1>5. CrashPrefixes(db[n], b, hdr[b], kids) \subseteq Writes(db[n], b, hdr[b], kids)
  BY DEF Writes
<1>6. faults \in Nat
  BY BlockDagAssumption DEF DagInv, TypeOK
<1>7. faults <= faults' /\ \E e \in Writes(db[n], b, hdr[b], kids) : db' = [db EXCEPT ![n] = e]
  BY <1>3, <1>4, <1>5, <1>6 DEF ReceivedPush, CrashInPush, Fault
<1>8. kids \in TrueKids(b)
  BY <1>1 DEF TrueKids
<1> QED
  BY <1>1, <1>2, <1>7, <1>8 DEF DagStep, Writing

\* Every step of BlockDag is of this kind.
LEMMA NextIsDagStep ==
    ASSUME DagInv, [Next]_vars
    PROVE  DagStep
<1>0. faults \in Nat
  BY BlockDagAssumption DEF DagInv, TypeOK
<1>1. CASE UNCHANGED vars
  BY <1>0, <1>1 DEF vars, DagStep, Extends, DagInv, TypeOK, MadeBlocks
<1>2. ASSUME NEW n \in Node, GenerateBlock(n) PROVE DagStep
  <2> DEFINE b == FreshId(made)
  <2>1. PICK t \in Time, r \in Number :
          LET h == NewHeader(n, db[n].last[n] + 1, r, t, TRUE) IN
          /\ RankAbove(h.parents, r)
          /\ made' = made \cup {b}
          /\ hdr' = [hdr EXCEPT ![b] = h]
          /\ OwnPush(n, b, h, NoBlock)
    BY <1>2 DEF GenerateBlock
  <2> DEFINE h == NewHeader(n, db[n].last[n] + 1, r, t, TRUE)
  <2>2. b \in BlockId /\ b \notin made
    BY <1>2, FreshIdIsFresh DEF GenerateBlock
  <2> HIDE DEF b
  <2>3. /\ h \in Header /\ h.node = n /\ h.produced = db[n].last[n] + 1
        /\ h.parents \subseteq db[n].blocks
        /\ \A p \in h.parents : p \in made /\ hdr[p].rank < h.rank
    <3>1. db[n].last[n] + 1 \in Number
      BY <1>2 DEF GenerateBlock
    <3>2. RankAbove(Candidates(db[n]), r)
      BY <2>1 DEF NewHeader
    <3> QED BY <3>1, <3>2, NewHeaderType
  <2>4. made' = made \cup {b} /\ hdr' = [hdr EXCEPT ![b] = h] /\ OwnPush(n, b, h, NoBlock)
    BY <2>1
  <2> HIDE DEF h
  <2>5. hdr'[b] = h /\ b \in made' /\ b \notin db[n].blocks
    BY <2>2, <2>4 DEF DagInv, TypeOK, MadeBlocks
  <2>6. Extends
    BY <2>2, <2>3, <2>4 DEF Extends, DagInv, TypeOK, MadeBlocks
  <2> QED
    BY <2>2, <2>4, <2>5, <2>6, OwnPushWrites DEF DagStep
<1>3. ASSUME NEW n \in Node, GenerateEmptyBlocks(n) PROVE DagStep
  <2> DEFINE b  == FreshId(made)
             b2 == FreshId(made \cup {b})
  <2>1. PICK t \in Time, r \in Number :
          LET k  == db[n].last[n]
              h  == NewHeader(n, k + 1, r, t, FALSE)
              h2 == NewHeader(n, k + 2, r, t, FALSE) IN
          /\ RankAbove(h.parents, r)
          /\ made' = made \cup {b, b2}
          /\ hdr' = [hdr EXCEPT ![b] = h, ![b2] = h2]
          /\ OwnPush(n, b, h, b2)
    BY <1>3 DEF GenerateEmptyBlocks
  <2> DEFINE h  == NewHeader(n, db[n].last[n] + 1, r, t, FALSE)
             h2 == NewHeader(n, db[n].last[n] + 2, r, t, FALSE)
  <2>2. b \in BlockId /\ b \notin made
    BY <1>3, FreshIdIsFresh DEF GenerateEmptyBlocks
  <2>3. b2 \in BlockId /\ b2 \notin made /\ b2 # b
    BY <1>3, FreshIdIsFresh DEF GenerateEmptyBlocks
  <2> HIDE DEF b, b2
  <2>4. h \in Header /\ h2 \in Header
    <3>1. db[n].last[n] + 1 \in Number /\ db[n].last[n] + 2 \in Number
      BY <1>3, BlockDagAssumption DEF GenerateEmptyBlocks, DagInv, TypeOK, ChainDatabase, Number
    <3>2. RankAbove(Candidates(db[n]), r)
      BY <2>1 DEF NewHeader
    <3>3. /\ h \in Header /\ h.node = n /\ h.produced = db[n].last[n] + 1
          /\ h.parents \subseteq db[n].blocks
          /\ \A p \in h.parents : p \in made /\ hdr[p].rank < h.rank
      BY <3>1, <3>2, NewHeaderType
    <3>4. /\ h2 \in Header /\ h2.node = n /\ h2.produced = db[n].last[n] + 2
          /\ h2.parents \subseteq db[n].blocks
          /\ \A p \in h2.parents : p \in made /\ hdr[p].rank < h2.rank
      BY <3>1, <3>2, NewHeaderType
    <3> QED BY <3>3, <3>4
  <2>5. /\ made' = made \cup {b, b2} /\ hdr' = [hdr EXCEPT ![b] = h, ![b2] = h2]
        /\ OwnPush(n, b, h, b2)
    BY <2>1
  <2> HIDE DEF h, h2
  <2>6. hdr'[b] = h /\ b \in made' /\ b \notin db[n].blocks
    BY <2>2, <2>3, <2>5 DEF DagInv, TypeOK, MadeBlocks
  <2>7. Extends
    BY <2>2, <2>3, <2>4, <2>5 DEF Extends, DagInv, TypeOK, MadeBlocks
  <2> QED
    BY <2>2, <2>5, <2>6, <2>7, OwnPushWrites DEF DagStep
<1>4. ASSUME NEW n \in Node, PushSecondEmpty(n) PROVE DagStep
  <2> DEFINE b == second[n]
  <2>1. b # NoBlock /\ OwnPush(n, b, hdr[b], NoBlock) /\ made' = made /\ hdr' = hdr
    BY <1>4 DEF PushSecondEmpty
  <2>2. b \in made /\ b \in BlockId /\ b \notin db[n].blocks
    BY <2>1 DEF DagInv, TypeOK, SecondIsNext
  <2>3. Extends
    BY <2>1 DEF Extends, DagInv, TypeOK, MadeBlocks
  <2> HIDE DEF b
  <2> QED
    BY <2>1, <2>2, <2>3, OwnPushWrites DEF DagStep
<1>5. ASSUME NEW n \in Node, NEW b \in BlockId, OnNewBlock(n, b) \/ OnSyncBlock(n, b)
      PROVE  DagStep
  <2>1. PICK kids \in SUBSET {c \in made : b \in hdr[c].parents} : ReceivedPush(n, b, kids)
    BY <1>5 DEF OnNewBlock, OnSyncBlock
  <2> QED
    BY <2>1, ReceivedPushWrites
<1>6. ASSUME NEW n \in Node, NEW b \in BlockId, ServeBlock(n, b) PROVE DagStep
  <2>1. db' = db /\ UNCHANGED <<made, hdr, sent, faults>>
    BY <1>6 DEF ServeBlock
  <2> QED
    BY <1>0, <2>1 DEF DagStep, Extends, DagInv, TypeOK, MadeBlocks
<1>7. ASSUME NEW n \in Node, Restart(n) \/ RescheduleDelegateLoop(n) PROVE DagStep
  <2>1. db' = db /\ UNCHANGED <<made, hdr, sent, faults>>
    BY <1>7 DEF Restart, RescheduleDelegateLoop, Repaired, RepairBlock, DagInv, TypeOK
  <2> QED
    BY <1>0, <2>1 DEF DagStep, Extends, DagInv, TypeOK, MadeBlocks
<1> QED
  BY <1>1, <1>2, <1>3, <1>4, <1>5, <1>6, <1>7 DEF Next

-----------------------------------------------------------------------------
(* Number indexes and child lists.                                         *)

\* Writes add b to the index, to the lists of its parents, and its own list.
Adds(d, e, b, h, kids) ==
    /\ \A m \in Node, k \in Number :
          \/ e.num[m][k] = d.num[m][k]
          \/ e.num[m][k] = b /\ m = h.node /\ k = h.produced
    /\ \A p \in BlockId : \A c \in e.childs[p] :
          c \in d.childs[p] \/ (c = b /\ p \in h.parents) \/ (c \in kids /\ p = b)
    /\ \A m \in Node : d.last[m] <= e.last[m]

LEMMA PushUpToAdds ==
    ASSUME NEW d \in ChainDatabase, NEW b \in BlockId, NEW h \in Header,
           NEW kids \in SUBSET BlockId, NEW L \in SUBSET h.parents, NEW s \in 1 .. 8
    PROVE  Adds(d, PushUpTo(d, b, h, kids, L, s), b, h, kids)
<1> DEFINE e == PushUpTo(d, b, h, kids, L, s)
<1>1. h.node \in Node /\ h.produced \in 1 .. MaxNumber /\ MaxNumber \in Nat
  BY BlockDagAssumption DEF Header, Number
<1>2. d.last \in [Node -> 0 .. MaxNumber] /\ d.num \in [Node -> [Number -> BlockId \cup {NoBlock}]]
  BY DEF ChainDatabase
<1>3. \A m \in Node, k \in Number :
        \/ e.num[m][k] = d.num[m][k]
        \/ e.num[m][k] = b /\ m = h.node /\ k = h.produced
  BY <1>1, <1>2 DEF PushUpTo, Number
<1>4. \A p \in BlockId : \A c \in e.childs[p] :
        c \in d.childs[p] \/ (c = b /\ p \in h.parents) \/ (c \in kids /\ p = b)
  BY DEF PushUpTo, ChainDatabase
<1>5. \A m \in Node : d.last[m] <= e.last[m]
  <2>1. e.last = d.last \/ e.last = [d.last EXCEPT ![h.node] = LastIndex(@, h.produced)]
    BY DEF PushUpTo
  <2>2. \A m \in Node : d.last[m] \in Nat
    BY <1>1, <1>2
  <2> HIDE DEF e
  <2> QED
    BY <1>1, <1>2, <2>1, <2>2 DEF LastIndex
<1> HIDE DEF e
<1>6. Adds(d, e, b, h, kids)
  BY <1>3, <1>4, <1>5 DEF Adds
<1> QED
  BY <1>6 DEF e

\* The same of every outcome of push_block.
LEMMA WritesAdd ==
    ASSUME NEW d \in ChainDatabase, NEW b \in BlockId, NEW h \in Header,
           NEW kids \in SUBSET BlockId, NEW e \in Writes(d, b, h, kids)
    PROVE  Adds(d, e, b, h, kids)
<1>0. h.parents \in SUBSET BlockId
  BY DEF Header
<1>1. CASE \E L \in SUBSET h.parents : e = PushUpTo(d, b, h, kids, L, LinkParents)
  BY <1>1, PushUpToAdds DEF LinkParents
<1>2. CASE \E s \in 2 .. 8 : e = PushUpTo(d, b, h, kids, h.parents, s)
  BY <1>2, PushUpToAdds
<1>3. CASE e = Refused(d, b, h)
  <2> DEFINE l == PushUpTo(d, b, h, {}, h.parents, LinkParents)
  <2>1. e = [l EXCEPT !.status = [block |-> b, version |-> 2]]
    BY <1>3 DEF Refused
  <2>2. l \in ChainDatabase
    BY <1>0, PushUpToType DEF LinkParents
  <2>3. Adds(d, l, b, h, {})
    BY PushUpToAdds DEF LinkParents
  <2> HIDE DEF l
  <2>4. e.num = l.num /\ e.childs = l.childs /\ e.last = l.last
    BY <2>1, <2>2 DEF ChainDatabase
  <2> QED
    BY <2>3, <2>4 DEF Adds
<1> QED
  BY <1>1, <1>2, <1>3 DEF Writes, CrashPrefixes, MarkExtend, StoreHead

\* Lists and indexes stay true, and the last numbers do not go back.
LEMMA DagStepTrue ==
    ASSUME DagInv, NumbersTrue, ChildsTrue, DagStep
    PROVE  /\ NumbersTrue' /\ ChildsTrue'
           /\ \A n, m \in Node : db[n].last[m] <= db'[n].last[m]
<1>1. /\ db \in [Node -> ChainDatabase] /\ made \subseteq BlockId
      /\ made \subseteq made' /\ \A c \in made : hdr'[c] = hdr[c]
      /\ \A c \in made' : hdr'[c] \in Header
  BY DEF DagInv, TypeOK, DagStep, Extends
<1>2. \A n, m \in Node : db[n].last[m] \in Nat
  BY <1>1, BlockDagAssumption DEF ChainDatabase
<1>3. CASE db' = db
  <2>1. NumbersTrue'
    BY <1>1, <1>3 DEF NumbersTrue
  <2>2. ChildsTrue'
    BY <1>1, <1>3 DEF ChildsTrue
  <2> QED
    BY <1>2, <1>3, <2>1, <2>2
<1>4. ASSUME NEW n \in Node, NEW b \in BlockId, NEW kids \in TrueKids(b), Writing(n, b, kids)
      PROVE  /\ NumbersTrue' /\ ChildsTrue'
             /\ \A k, m \in Node : db[k].last[m] <= db'[k].last[m]
  <2> DEFINE h == hdr'[b]
  <2>1. b \in made' /\ h \in Header /\ db[n] \in ChainDatabase
    BY <1>1, <1>4 DEF Writing
  <2>2. kids \in SUBSET BlockId /\ \A c \in kids : c \in made' /\ b \in hdr'[c].parents
    BY DEF TrueKids, DagStep, Extends
  <2>3. PICK e \in Writes(db[n], b, h, kids) : db' = [db EXCEPT ![n] = e]
    BY <1>4 DEF Writing
  <2>4. Adds(db[n], e, b, h, kids)
    BY <2>1, <2>2, WritesAdd
  <2>5. db'[n] = e /\ \A m \in Node \ {n} : db'[m] = db[m]
    BY <1>1, <2>3
  <2>6. NumbersTrue'
    BY <1>1, <2>1, <2>4, <2>5 DEF NumbersTrue, Adds
  <2>7. ChildsTrue'
    BY <1>1, <2>1, <2>2, <2>4, <2>5 DEF ChildsTrue, Adds
  <2>8. \A k, m \in Node : db[k].last[m] <= db'[k].last[m]
    BY <1>2, <2>4, <2>5 DEF Adds
  <2> QED
    BY <2>6, <2>7, <2>8
<1> QED
  BY <1>3, <1>4 DEF DagStep

-----------------------------------------------------------------------------
(* What sync replies contain.                                              *)

\* A set of numbers has a smallest one.
LEMMA SmallestNumber ==
    ASSUME NEW S \in SUBSET Nat, S # {}
    PROVE  \E k \in S : \A j \in S : k <= j
<1>1. PICK k \in S : \A j \in S : ~(<<j, k>> \in OpToRel(<, Nat))
  BY NatLessThanWellFounded, WFMin
<1>2. \A j \in S : ~(j < k)
  BY <1>1 DEF OpToRel
<1> QED
  BY <1>2

\* The first k items are gone through.
Selected(d, list, g, i) ==
    IF i = 0 THEN <<>>
    ELSE IF IsNew(d, list[i].block) THEN Append(g[i - 1], list[i])
    ELSE g[i - 1]

Selects(T, d, list, k) ==
    \E g \in [0 .. k -> Seq(T)] : \A i \in 0 .. k : g[i] = Selected(d, list, g, i)

LEMMA SelectsNext ==
    ASSUME NEW T, NEW list \in Seq(T), NEW d, NEW k \in 1 .. Len(list), Selects(T, d, list, k - 1)
    PROVE  Selects(T, d, list, k)
<1>1. PICK g \in [0 .. k - 1 -> Seq(T)] : \A i \in 0 .. k - 1 : g[i] = Selected(d, list, g, i)
  BY DEF Selects
<1>2. list[k] \in T /\ g[k - 1] \in Seq(T) /\ k \in Nat \ {0}
  OBVIOUS
<1> DEFINE x == Selected(d, list, g, k)
           f == [i \in 0 .. k |-> IF i = k THEN x ELSE g[i]]
<1>3. x \in Seq(T)
  BY <1>2 DEF Selected
<1> HIDE DEF x
<1>4. f \in [0 .. k -> Seq(T)]
  BY <1>2, <1>3
<1>5. \A i \in 0 .. k - 1 : f[i] = g[i]
  BY <1>2
<1>6. f[k] = x
  BY <1>2
<1> HIDE DEF f
<1>7. ASSUME NEW i \in 0 .. k PROVE f[i] = Selected(d, list, f, i)
  <2>1. i # 0 => f[i - 1] = g[i - 1]
    BY <1>2, <1>5
  <2>2. Selected(d, list, f, i) = Selected(d, list, g, i)
    BY <2>1 DEF Selected
  <2>3. CASE i = k
    BY <1>6, <2>2, <2>3 DEF x
  <2>4. CASE i # k
    BY <1>1, <1>2, <1>5, <2>2, <2>4
  <2> QED
    BY <2>3, <2>4
<1> QED
  BY <1>4, <1>7 DEF Selects

\* get_new_block_list keeps some of the items of a list.
LEMMA NewBlocksType ==
    ASSUME NEW T, NEW list \in Seq(T), NEW d
    PROVE  NewBlocks(d, list) \in Seq(T)
<1> DEFINE N == Len(list)
           Step(g) == [i \in 0 .. N |->
                         IF i = 0 THEN <<>>
                         ELSE IF IsNew(d, list[i].block) THEN Append(g[i - 1], list[i])
                         ELSE g[i - 1]]
           new == CHOOSE g : g = Step(g)
<1>1. N \in Nat /\ \A i \in 1 .. N : list[i] \in T
  OBVIOUS
<1>2. NewBlocks(d, list) = new[N]
  BY DEF NewBlocks
<1>3. Selects(T, d, list, N)
  <2> DEFINE Bad == {k \in 0 .. N : ~Selects(T, d, list, k)}
  <2>1. Selects(T, d, list, 0)
    <3> DEFINE g == [i \in 0 .. 0 |-> <<>>]
    <3>1. g \in [0 .. 0 -> Seq(T)] /\ g[0] = <<>>
      OBVIOUS
    <3> HIDE DEF g
    <3> QED
      BY <3>1 DEF Selects, Selected
  <2>2. CASE Bad = {}
    BY <1>1, <2>2
  <2>3. CASE Bad # {}
    <3>1. Bad \in SUBSET Nat
      BY <1>1
    <3>2. PICK k \in Bad : \A j \in Bad : k <= j
      <4> HIDE DEF Bad
      <4> QED
        BY <2>3, <3>1, SmallestNumber
    <3>3. k \in 1 .. N /\ ~Selects(T, d, list, k)
      BY <1>1, <2>1, <3>2
    <3>4. k - 1 \in 0 .. N /\ k - 1 < k
      BY <1>1, <3>3
    <3>5. Selects(T, d, list, k - 1)
      BY <3>2, <3>4, <3>1
    <3> QED
      BY <3>3, <3>5, SelectsNext
  <2> QED
    BY <2>2, <2>3
<1>4. PICK g \in [0 .. N -> Seq(T)] : \A i \in 0 .. N : g[i] = Selected(d, list, g, i)
  BY <1>3 DEF Selects
<1>5. g = Step(g)
  BY <1>4 DEF Selected
<1>6. new = Step(new)
  BY <1>5
<1> HIDE DEF new
<1>7. \A i \in 0 .. N : new[i] = Selected(d, list, new, i)
  BY <1>6 DEF Selected
<1> DEFINE Bad == {i \in 0 .. N : new[i] # g[i]}
<1>8. CASE Bad = {}
  BY <1>1, <1>2, <1>4, <1>8
<1>9. CASE Bad # {}
  <2>1. Bad \in SUBSET Nat
    BY <1>1
  <2>2. PICK k \in Bad : \A j \in Bad : k <= j
    <3> HIDE DEF Bad
    <3> QED
      BY <1>9, <2>1, SmallestNumber
  <2>3. k \in 0 .. N /\ new[k] # g[k]
    BY <2>2
  <2>4. k # 0 => new[k - 1] = g[k - 1]
    <3> SUFFICES ASSUME k # 0 PROVE new[k - 1] = g[k - 1]
      OBVIOUS
    <3>1. k - 1 \in 0 .. N /\ ~(k <= k - 1)
      BY <1>1, <2>3
    <3> QED
      BY <2>2, <3>1
  <2>5. Selected(d, list, new, k) = Selected(d, list, g, k)
    BY <2>4 DEF Selected
  <2> QED
    BY <1>4, <1>7, <2>3, <2>5
<1> QED
  BY <1>8, <1>9

\* Bounded numbers have a largest one.
LEMMA LargestNumber ==
    ASSUME NEW n \in Nat, NEW S \in SUBSET (0 .. n), S # {}
    PROVE  \E k \in S : \A j \in S : j <= k
<1> DEFINE T == {i \in 0 .. n : n - i \in S}
<1>1. T \in SUBSET Nat
  OBVIOUS
<1>2. \A s \in S : n - s \in T
  OBVIOUS
<1>3. T # {}
  BY <1>2
<1>4. PICK i \in T : \A j \in T : i <= j
  <2> HIDE DEF T
  <2> QED
    BY <1>1, <1>3, SmallestNumber
<1>5. n - i \in S /\ i \in 0 .. n
  BY <1>4
<1>6. \A j \in S : i <= n - j
  BY <1>2, <1>4
<1> QED
  BY <1>5, <1>6

\* below[b] is the set of elements before b.
Ordered(S, below) ==
    /\ IsFiniteSet(S)
    /\ below \in [S -> SUBSET S]
    /\ \A b \in S : b \notin below[b]
    /\ \A b, c \in S : b # c => b \in below[c] \/ c \in below[b]
    /\ \A b, c \in S : c \in below[b] => below[c] \subseteq below[b]

\* The elements of an ordered set can be counted off.
LEMMA Enumerated ==
    ASSUME NEW S, NEW below, Ordered(S, below)
    PROVE  /\ \A i \in 1 .. Cardinality(S) : \E b \in S : Cardinality(below[b]) = i - 1
           /\ \A b, c \in S : Cardinality(below[b]) = Cardinality(below[c]) => b = c
<1>1. Cardinality(S) \in Nat
  BY FS_CardinalityType DEF Ordered
<1>2. \A b \in S : /\ IsFiniteSet(below[b]) /\ Cardinality(below[b]) \in Nat
                   /\ Cardinality(below[b]) < Cardinality(S)
  <2> SUFFICES ASSUME NEW b \in S
               PROVE  /\ IsFiniteSet(below[b]) /\ Cardinality(below[b]) \in Nat
                      /\ Cardinality(below[b]) < Cardinality(S)
    OBVIOUS
  <2>1. below[b] \in SUBSET S /\ below[b] # S
    BY DEF Ordered
  <2>2. IsFiniteSet(below[b]) /\ Cardinality(below[b]) <= Cardinality(S)
        /\ Cardinality(below[b]) # Cardinality(S)
    BY <2>1, FS_Subset DEF Ordered
  <2>3. Cardinality(below[b]) \in Nat
    BY <2>2, FS_CardinalityType
  <2> QED
    BY <1>1, <2>2, <2>3
<1>3. ASSUME NEW b \in S, NEW c \in S, c \in below[b]
      PROVE  Cardinality(below[b]) # Cardinality(below[c])
  <2>1. below[c] \in SUBSET below[b] /\ below[c] # below[b]
    BY <1>3 DEF Ordered
  <2> QED
    BY <1>2, <2>1, FS_Subset
<1>4. \A b, c \in S : Cardinality(below[b]) = Cardinality(below[c]) => b = c
  BY <1>3 DEF Ordered
<1> DEFINE f == [b \in S |-> Cardinality(below[b]) + 1]
           n == Cardinality(S)
<1>5. f \in [S -> 1 .. n]
  BY <1>1, <1>2
<1>6. \A b, c \in S : f[b] = f[c] => b = c
  BY <1>2, <1>4
<1> HIDE DEF f
<1>7. f \in Injection(S, 1 .. n)
  BY <1>5, <1>6 DEF Injection, IsInjective
<1>8. IsFiniteSet(1 .. n) /\ Cardinality(1 .. n) = n
  BY <1>1, FS_Interval
<1>9. f \in Surjection(S, 1 .. n)
  BY <1>7, <1>8, FS_Injection
<1>10. \A i \in 1 .. n : \E b \in S : f[b] = i
  BY <1>9 DEF Surjection
<1>11. \A i \in 1 .. n : \E b \in S : Cardinality(below[b]) = i - 1
  BY <1>1, <1>2, <1>10 DEF f
<1> QED
  BY <1>4, <1>11

\* Blocks with different numbers.
Distinct(S) ==
    /\ IsFiniteSet(S)
    /\ \A b \in S : hdr[b] \in Header
    /\ \A b, c \in S : hdr[b].node = hdr[c].node /\ hdr[b].produced = hdr[c].produced => b = c

\* The rank that a block waits for in the merge.
LEMMA MergeRankType ==
    ASSUME NEW S, \A b \in S : hdr[b] \in Header, NEW b \in S
    PROVE  /\ MergeRank(S, b) \in WaitsFor(S, b) /\ MergeRank(S, b) \in Nat
           /\ \A q \in WaitsFor(S, b) : q <= MergeRank(S, b)
<1>1. MaxNumber \in Nat /\ \A c \in S : hdr[c].rank \in 0 .. MaxNumber /\ hdr[c].produced \in Nat
  BY BlockDagAssumption DEF Header, Number
<1>2. WaitsFor(S, b) \in SUBSET (0 .. MaxNumber)
  BY <1>1 DEF WaitsFor
<1>3. WaitsFor(S, b) # {}
  <2>1. hdr[b].rank \in WaitsFor(S, b)
    BY <1>1 DEF WaitsFor
  <2> QED
    BY <2>1
<1>4. \E r \in WaitsFor(S, b) : \A q \in WaitsFor(S, b) : q <= r
  BY <1>1, <1>2, <1>3, LargestNumber
<1>5. /\ MergeRank(S, b) \in WaitsFor(S, b)
      /\ \A q \in WaitsFor(S, b) : q <= MergeRank(S, b)
  BY <1>4 DEF MergeRank
<1> QED
  BY <1>1, <1>2, <1>5

\* The merge enumerates its blocks.
LEMMA MergedEnumerates ==
    ASSUME NEW S, Distinct(S)
    PROVE  /\ Cardinality(S) \in Nat /\ Merged(S) \in Seq(S) /\ Len(Merged(S)) = Cardinality(S)
           /\ \A i \in 1 .. Cardinality(S) :
                 /\ Merged(S)[i] \in S
                 /\ Cardinality({c \in S : Before(S, c, Merged(S)[i])}) = i - 1
<1> DEFINE below == [b \in S |-> {c \in S : Before(S, c, b)}]
<1>1. \A b \in S : /\ hdr[b].node \in Nat /\ hdr[b].produced \in Nat
                   /\ MergeRank(S, b) \in Nat
  BY MergeRankType, BlockDagAssumption, DagSyncAssumption DEF Distinct, Header, Number
<1>2. Ordered(S, below)
  <2>1. IsFiniteSet(S) /\ below \in [S -> SUBSET S]
    BY DEF Distinct
  <2>2. \A b \in S : b \notin below[b]
    BY <1>1 DEF Before
  <2>3. \A b, c \in S : b # c => b \in below[c] \/ c \in below[b]
    BY <1>1 DEF Before, Distinct
  <2>4. ASSUME NEW b \in S, NEW c \in S, c \in below[b] PROVE below[c] \subseteq below[b]
    <3> SUFFICES ASSUME NEW a \in S, Before(S, a, c) PROVE Before(S, a, b)
      OBVIOUS
    <3>1. Before(S, c, b)
      BY <2>4
    <3> QED
      BY <1>1, <3>1 DEF Before
  <2> HIDE DEF below
  <2> QED
    BY <2>1, <2>2, <2>3, <2>4 DEF Ordered
<1>3. Cardinality(S) \in Nat
  BY FS_CardinalityType DEF Distinct
<1>4. \A i \in 1 .. Cardinality(S) : \E b \in S : Cardinality(below[b]) = i - 1
  <2> HIDE DEF below
  <2> QED
    BY <1>2, Enumerated
<1>5. \A i \in 1 .. Cardinality(S) :
        \E b \in S : Cardinality({c \in S : Before(S, c, b)}) = i - 1
  BY <1>4
<1>6. \A i \in 1 .. Cardinality(S) :
        /\ Merged(S)[i] \in S
        /\ Cardinality({c \in S : Before(S, c, Merged(S)[i])}) = i - 1
  BY <1>5 DEF Merged
<1>7. Merged(S) \in [1 .. Cardinality(S) -> S]
  BY <1>6 DEF Merged
<1>8. Merged(S) \in Seq(S) /\ Len(Merged(S)) = Cardinality(S)
  BY <1>3, <1>7
<1> QED
  BY <1>3, <1>6, <1>8

\* What get_sync_reply_blocks_v2 walks over has different numbers.
LEMMA ServedDistinct ==
    ASSUME DagInv, NumbersTrue, NEW n \in Node, NEW numbers
    PROVE  Distinct(Served(db[n], numbers)) /\ Served(db[n], numbers) \subseteq BlockId
<1> DEFINE S == Served(db[n], numbers)
<1>1. /\ db[n].blocks \subseteq made /\ made \subseteq BlockId
      /\ \A b \in made : hdr[b] \in Header
  BY DEF DagInv, TypeOK, MadeBlocks
<1>2. S \subseteq db[n].blocks
  BY DEF Served
<1>3. \A b \in S : \E m \in Node, k \in Number : b = db[n].num[m][k]
  BY DEF Served
<1>4. \A b \in S : b # NoBlock
  BY <1>1, <1>2, BlockDagAssumption
<1>5. \A b \in S : db[n].num[hdr[b].node][hdr[b].produced] = b
  BY <1>3, <1>4 DEF NumbersTrue
<1>6. IsFiniteSet(S)
  BY <1>1, <1>2, DagSyncAssumption, FS_Subset
<1> HIDE DEF S
<1>7. Distinct(S)
  BY <1>1, <1>2, <1>5, <1>6 DEF Distinct
<1> QED
  BY <1>1, <1>2, <1>7 DEF S

\* A reply says of its blocks what is so.
LEMMA RepliesType ==
    ASSUME DagInv, NumbersTrue, ChildsTrue, NEW n \in Node, NEW numbers,
           NEW list \in Replies(db[n], numbers)
    PROVE  list \in Seq(Item)
<1> DEFINE S == Served(db[n], numbers)
           s == Merged(S)
<1>1. Distinct(S) /\ S \subseteq BlockId
  BY ServedDistinct
<1>2. PICK k \in 0 .. Len(s) :
        list = [i \in 1 .. k |-> [block |-> s[i], childs |-> db[n].childs[s[i]]]]
  BY DEF Replies
<1> HIDE DEF S
<1>3. s \in Seq(S)
  BY <1>1, MergedEnumerates
<1> HIDE DEF s
<1>4. \A i \in 1 .. k : s[i] \in BlockId
  BY <1>1, <1>3
<1>5. \A b \in BlockId : [block |-> b, childs |-> db[n].childs[b]] \in Item
  BY DEF Item, ChildsTrue, DagInv, TypeOK
<1>6. k \in Nat /\ list \in [1 .. k -> Item]
  BY <1>2, <1>3, <1>4, <1>5
<1> QED
  BY <1>6

-----------------------------------------------------------------------------
(* The sync protocol implements BlockDag.                                  *)

\* The head of a push task's list.
LEMMA NextItem ==
    ASSUME NetTypeOK, NEW n \in Node, Starts(n, "push")
    PROVE  /\ jobs[n] \in Seq(Job) /\ jobs[n] # <<>> /\ Head(jobs[n]) = jobs[n][1]
           /\ Head(jobs[n]) \in [kind : {"push"}, peer : Node, list : Seq(Item)]
           /\ Head(jobs[n]).list # <<>> => Head(Head(jobs[n]).list) \in Item
<1>1. jobs[n] \in Seq(Job) /\ jobs[n] # <<>>
  BY DEF NetTypeOK, Starts
<1>2. Head(jobs[n]) \in Job /\ Head(jobs[n]) = jobs[n][1]
  BY <1>1
<1>3. Head(jobs[n]) \in [kind : {"push"}, peer : Node, list : Seq(Item)]
  BY <1>2 DEF Starts, Job
<1>4. Head(jobs[n]).list \in Seq(Item)
  BY <1>3
<1> QED
  BY <1>1, <1>2, <1>3, <1>4

\* Whatever the client and the network do, the databases take steps of BlockDag.
LEMMA SyncNextIsNext ==
    ASSUME SyncInv, [SyncNext]_syncVars
    PROVE  [Next]_vars
<1>1. CASE UNCHANGED syncVars
  BY <1>1 DEF syncVars
<1>2. ASSUME NEW n \in Node, DelegateLoop(n) PROVE [Next]_vars
  BY <1>2 DEF DelegateLoop, Next
<1>3. ASSUME NEW n \in Node, Reschedule(n) PROVE [Next]_vars
  BY <1>3 DEF Reschedule, Next
<1>4. ASSUME NEW n \in Node, AdvertiseLoop(n) \/ SyncLoop(n) \/ ServeTask(n) \/ PushTaskDone(n)
      PROVE  [Next]_vars
  BY <1>4 DEF AdvertiseLoop, SyncLoop, ServeTask, PushTaskDone
<1>5. ASSUME NEW n \in Node, PushTask(n) PROVE [Next]_vars
  <2> DEFINE e == Head(Head(jobs[n]).list)
  <2>1. Starts(n, "push") /\ Head(jobs[n]).list # <<>>
    BY <1>5 DEF PushTask
  <2>2. e \in Item
    BY <2>1, NextItem DEF SyncInv
  <2>3. ReceivedPush(n, e.block, e.childs) \/ UNCHANGED vars
    BY <1>5 DEF PushTask
  <2> HIDE DEF e
  <2>4. e.block \in BlockId /\ e.childs \in SUBSET {c \in made : e.block \in hdr[c].parents}
    BY <2>2 DEF Item
  <2>5. ReceivedPush(n, e.block, e.childs) => OnSyncBlock(n, e.block)
    BY <2>4 DEF OnSyncBlock
  <2> QED
    BY <2>3, <2>4, <2>5 DEF Next
<1>6. ASSUME NEW n \in Node, NEW m \in Node, AcceptBlock(n, m) PROVE [Next]_vars
  <2> DEFINE b == Head(link[m][n]).block
  <2>1. OnNewBlock(n, b) \/ UNCHANGED vars
    BY <1>6 DEF AcceptBlock
  <2>2. OnNewBlock(n, b) => b \in BlockId
    BY DEF OnNewBlock, ReceivedPush, SyncInv, DagInv, TypeOK
  <2> HIDE DEF b
  <2> QED
    BY <2>1, <2>2 DEF Next
<1>7. ASSUME NEW n \in Node, NEW m \in Node,
             \/ DropMessage(n, m) \/ AskSender(n, m) \/ RequestSent(n, m) \/ OnSyncRequest(n, m)
             \/ OnSyncReply(n, m) \/ Disconnect(n, m) \/ Connect(n, m)
      PROVE  [Next]_vars
  BY <1>7 DEF DropMessage, AskSender, RequestSent, OnSyncRequest, OnSyncReply, Disconnect, Connect
<1> QED
  BY <1>1, <1>2, <1>3, <1>4, <1>5, <1>6, <1>7 DEF SyncNext, Task, HandleMessage

\* Without crashes every block that is served was broadcast before.
LEMMA ServedUnchanged ==
    ASSUME [SyncNext]_syncVars
    PROVE  served' = served
<1>1. \A n \in Node : DelegateLoop(n) => served' = served
  BY DEF DelegateLoop, GenerateBlock, GenerateEmptyBlocks, PushSecondEmpty
<1>2. \A n \in Node : Reschedule(n) => served' = served
  BY DEF Reschedule, RescheduleDelegateLoop
<1>3. \A n \in Node : AdvertiseLoop(n) \/ SyncLoop(n) \/ ServeTask(n) \/ PushTaskDone(n)
                         => served' = served
  BY DEF AdvertiseLoop, SyncLoop, ServeTask, PushTaskDone, vars
<1>4. \A n \in Node : PushTask(n) => served' = served
  BY DEF PushTask, ReceivedPush, vars
<1>5. \A n, m \in Node : AcceptBlock(n, m) => served' = served
  BY DEF AcceptBlock, OnNewBlock, ReceivedPush, vars
<1>6. \A n, m \in Node :
         \/ DropMessage(n, m) \/ AskSender(n, m) \/ RequestSent(n, m) \/ OnSyncRequest(n, m)
         \/ OnSyncReply(n, m) \/ Disconnect(n, m) \/ Connect(n, m)
         => served' = served
  BY DEF DropMessage, AskSender, RequestSent, OnSyncRequest, OnSyncReply, Disconnect, Connect, vars
<1>7. CASE UNCHANGED syncVars
  BY <1>7 DEF syncVars, vars
<1> QED
  BY <1>1, <1>2, <1>3, <1>4, <1>5, <1>6, <1>7 DEF SyncNext, Task, HandleMessage

\* What was true of blocks stays true: messages and tasks keep their types.
LEMMA SetsGrow ==
    ASSUME Extends
    PROVE  Item \subseteq Item' /\ Post' = Post /\ Message \subseteq Message' /\ Job \subseteq Job'
<1>1. Item \subseteq Item'
  BY DEF Item, Extends
<1>2. Seq(Item) \subseteq Seq(Item')
  BY <1>1, SeqMonotonic
<1>3. Post' = Post
  BY DEF Post, Numbers
<1>4. Message \subseteq Message'
  BY <1>2, <1>3 DEF Message
<1>5. Job \subseteq Job'
  BY <1>2 DEF Job, Numbers
<1> QED
  BY <1>1, <1>3, <1>4, <1>5

\* The sequences of the network and the client, with elements of M and J.
Carries(M, J, l, j) ==
    /\ l \in [Node -> [Node -> Seq(M)]]
    /\ j \in [Node -> Seq(J)]

LEMMA CarriesOn ==
    ASSUME NetTypeOK, Extends
    PROVE  Carries(Message', Job', link, jobs) /\ out \in [Node -> Seq(Post')]
<1>1. \A s \in Seq(Message) : s \in Seq(Message')
  BY SetsGrow, SeqMonotonic
<1>2. \A s \in Seq(Job) : s \in Seq(Job')
  BY SetsGrow, SeqMonotonic
<1>3. Post' = Post
  BY SetsGrow
<1>4. link \in [Node -> [Node -> Seq(Message')]]
  BY <1>1 DEF NetTypeOK
<1>5. jobs \in [Node -> Seq(Job')]
  BY <1>2 DEF NetTypeOK
<1>6. out \in [Node -> Seq(Post')]
  BY <1>3 DEF NetTypeOK
<1> QED
  BY <1>4, <1>5, <1>6 DEF Carries

\* Sending and consuming messages.
LEMMA SendToType ==
    ASSUME NEW M, NEW l \in [Node -> [Node -> Seq(M)]], NEW n \in Node, NEW m \in Node, NEW msg \in M
    PROVE  SendTo(l, n, m, msg) \in [Node -> [Node -> Seq(M)]]
<1>1. Append(l[n][m], msg) \in Seq(M)
  OBVIOUS
<1> QED
  BY <1>1 DEF SendTo

LEMMA ConsumedType ==
    ASSUME NEW M, link \in [Node -> [Node -> Seq(M)]], NEW n \in Node, NEW m \in Node,
           link[m][n] # <<>>
    PROVE  Consumed(n, m) \in [Node -> [Node -> Seq(M)]] /\ Head(link[m][n]) \in M
<1>1. Tail(link[m][n]) \in Seq(M) /\ Head(link[m][n]) \in M
  OBVIOUS
<1> QED
  BY <1>1 DEF Consumed

LEMMA RequestType ==
    ASSUME DagInv, NEW n \in Node
    PROVE  RequestMsg(db[n]) \in Post /\ RequestMsg(db[n]) \in Message
  BY DEF DagInv, TypeOK, ChainDatabase, RequestMsg, Post, Message, Numbers

\* Every step of the network and of the clients keeps the types.
LEMMA NetStep ==
    ASSUME SyncInv, SyncNext, Extends, DagInv', sent \subseteq sent'
    PROVE  NetTypeOK'
<1> DEFINE M == Message'
           J == Job'
           P == Post'
<1>1. /\ link \in [Node -> [Node -> Seq(M)]] /\ jobs \in [Node -> Seq(J)]
      /\ out \in [Node -> Seq(P)]
  BY CarriesOn DEF Carries, SyncInv
<1>2. P = Post /\ Message \subseteq M /\ P \subseteq M /\ Job \subseteq J /\ Item \subseteq Item'
  BY SetsGrow DEF Message
<1>3. \A n \in Node : RequestMsg(db[n]) \in P /\ RequestMsg(db[n]) \in M
  BY <1>2, RequestType DEF SyncInv
<1>4. /\ up \subseteq Peers /\ breaks \in Nat
      /\ syncing \in [Node -> BOOLEAN] /\ inReply \in [Node -> BOOLEAN]
      /\ waiting \in [Node -> SUBSET Node] /\ running \in [Node -> BOOLEAN]
  BY DEF SyncInv, NetTypeOK
<1>5. ASSUME /\ link' \in [Node -> [Node -> Seq(M)]] /\ jobs' \in [Node -> Seq(J)]
             /\ out' \in [Node -> Seq(P)]
             /\ up' \subseteq Peers /\ breaks' \in Nat
             /\ syncing' \in [Node -> BOOLEAN] /\ inReply' \in [Node -> BOOLEAN]
             /\ waiting' \in [Node -> SUBSET Node] /\ running' \in [Node -> BOOLEAN]
      PROVE  NetTypeOK'
  BY <1>5 DEF NetTypeOK
<1>6. ASSUME NEW n \in Node, NEW m \in Node, link[m][n] # <<>>
      PROVE  /\ Consumed(n, m) \in [Node -> [Node -> Seq(M)]]
             /\ Head(link[m][n]) \in Message
  <2>1. link \in [Node -> [Node -> Seq(Message)]]
    BY DEF SyncInv, NetTypeOK
  <2>2. Head(link[m][n]) \in Message
    BY <1>6, <2>1
  <2> HIDE DEF M
  <2> QED
    BY <1>1, <1>6, <2>2, ConsumedType
<1>7. ASSUME NEW n \in Node, jobs[n] # <<>>
      PROVE  /\ [jobs EXCEPT ![n] = Tail(@)] \in [Node -> Seq(J)]
             /\ Head(jobs[n]) \in Job /\ Head(jobs[n]).peer \in Node
  <2>1. jobs[n] \in Seq(Job) /\ jobs[n] \in Seq(J)
    BY <1>1 DEF SyncInv, NetTypeOK
  <2>2. Tail(jobs[n]) \in Seq(J) /\ Head(jobs[n]) \in Job
    BY <1>7, <2>1
  <2>3. \A j \in Job : j.peer \in Node
    BY DEF Job
  <2> HIDE DEF J
  <2> QED
    BY <1>1, <2>2, <2>3
<1> HIDE DEF M, J, P
<1>8. ASSUME NEW n \in Node, AdvertiseLoop(n) PROVE NetTypeOK'
  <2>1. out[n] \in Seq(M)
    BY <1>1, <1>2, SeqMonotonic
  <2>2. \A m \in Node : link[n][m] \o out[n] \in Seq(M) /\ link[n][m] \in Seq(M)
    BY <1>1, <2>1
  <2>3. link' \in [Node -> [Node -> Seq(M)]]
    BY <1>1, <1>8, <2>2 DEF AdvertiseLoop
  <2>4. out' \in [Node -> Seq(P)]
    BY <1>1, <1>8 DEF AdvertiseLoop
  <2> QED
    BY <1>1, <1>4, <1>5, <1>8, <2>3, <2>4 DEF AdvertiseLoop, client
<1>9. ASSUME NEW n \in Node, DelegateLoop(n) PROVE NetTypeOK'
  <2>1. Broadcast(n) /\ UNCHANGED client
    BY <1>9 DEF DelegateLoop
  <2>2. ASSUME sent' # sent PROVE BlockMsg(CHOOSE b \in sent' : b \notin sent) \in P
    <3>1. (CHOOSE b \in sent' : b \notin sent) \in BlockId
      BY <2>2 DEF DagInv, TypeOK
    <3> QED
      BY <1>2, <3>1 DEF BlockMsg, Post
  <2>3. out' \in [Node -> Seq(P)]
    BY <1>1, <2>1, <2>2 DEF Broadcast
  <2> QED
    BY <1>1, <1>4, <1>5, <2>1, <2>3 DEF Broadcast, client
<1>10. ASSUME NEW n \in Node, Reschedule(n) PROVE NetTypeOK'
  BY <1>1, <1>4, <1>5, <1>10 DEF Reschedule, net, client
<1>11. ASSUME NEW n \in Node, SyncLoop(n) PROVE NetTypeOK'
  <2>1. out' \in [Node -> Seq(P)]
    BY <1>1, <1>3, <1>11 DEF SyncLoop
  <2>2. syncing' \in [Node -> BOOLEAN] /\ inReply' \in [Node -> BOOLEAN]
    BY <1>4, <1>11 DEF SyncLoop
  <2> QED
    BY <1>1, <1>4, <1>5, <1>11, <2>1, <2>2 DEF SyncLoop
<1>12. ASSUME NEW n \in Node, ServeTask(n) PROVE NetTypeOK'
  <2>1. jobs[n] # <<>>
    BY <1>12 DEF ServeTask, Starts
  <2>2. PICK list \in Replies(db[n], Head(jobs[n]).numbers) :
          link' = IF list = <<>> THEN link
                  ELSE SendTo(link, n, Head(jobs[n]).peer, ReplyMsg(list))
    BY <1>12 DEF ServeTask
  <2>3. list \in Seq(Item)
    BY RepliesType DEF SyncInv
  <2>4. ReplyMsg(list) \in M
    BY <1>2, <2>3 DEF ReplyMsg, Message
  <2>5. link' \in [Node -> [Node -> Seq(M)]]
    BY <1>1, <1>7, <2>1, <2>2, <2>4, SendToType
  <2>6. jobs' \in [Node -> Seq(J)]
    BY <1>7, <1>12, <2>1 DEF ServeTask
  <2> QED
    BY <1>1, <1>4, <1>5, <1>12, <2>5, <2>6 DEF ServeTask
<1>13. ASSUME NEW n \in Node, PushTask(n) PROVE NetTypeOK'
  <2>1. Starts(n, "push") /\ Head(jobs[n]).list # <<>>
    BY <1>13 DEF PushTask
  <2>2. /\ jobs[n] \in Seq(Job) /\ jobs[n] # <<>> /\ Head(jobs[n]) = jobs[n][1]
        /\ Head(jobs[n]) \in [kind : {"push"}, peer : Node, list : Seq(Item)]
    BY <2>1, NextItem DEF SyncInv
  <2> DEFINE j == [jobs[n][1] EXCEPT !.list = Tail(@)]
  <2>3. Tail(jobs[n][1].list) \in Seq(Item)
    BY <2>1, <2>2
  <2>4. j \in [kind : {"push"}, peer : Node, list : Seq(Item)]
    BY <2>2, <2>3
  <2>5. j \in J
    BY <1>2, <2>4 DEF Job
  <2>6. [jobs EXCEPT ![n][1].list = Tail(@)] = [jobs EXCEPT ![n] = [jobs[n] EXCEPT ![1] = j]]
    OBVIOUS
  <2> HIDE DEF j
  <2>7. jobs[n] \in Seq(J) /\ 1 \in 1 .. Len(jobs[n])
    BY <1>1, <2>2
  <2>8. [jobs[n] EXCEPT ![1] = j] \in Seq(J)
    BY <2>5, <2>7, ExceptSeq
  <2>9. [jobs EXCEPT ![n][1].list = Tail(@)] \in [Node -> Seq(J)]
    BY <1>1, <2>6, <2>8
  <2>10. jobs' \in [Node -> Seq(J)] /\ running' \in [Node -> BOOLEAN]
    BY <1>4, <1>7, <1>13, <2>2, <2>9 DEF PushTask
  <2> QED
    BY <1>1, <1>4, <1>5, <1>13, <2>10 DEF PushTask, net
<1>14. ASSUME NEW n \in Node, PushTaskDone(n) PROVE NetTypeOK'
  <2>1. jobs[n] # <<>>
    BY <1>14 DEF PushTaskDone, Starts
  <2>2. link' \in [Node -> [Node -> Seq(M)]]
    BY <1>1, <1>3, <1>7, <1>14, <2>1, SendToType DEF PushTaskDone
  <2>3. /\ jobs' \in [Node -> Seq(J)]
        /\ inReply' \in [Node -> BOOLEAN] /\ running' \in [Node -> BOOLEAN]
    BY <1>4, <1>7, <1>14, <2>1 DEF PushTaskDone
  <2> QED
    BY <1>1, <1>4, <1>5, <1>14, <2>2, <2>3 DEF PushTaskDone
<1>15. ASSUME NEW n \in Node, NEW m \in Node, DropMessage(n, m) PROVE NetTypeOK'
  <2>1. link[m][n] # <<>> /\ link' = Consumed(n, m)
    BY <1>15 DEF DropMessage, Receives
  <2> QED
    BY <1>1, <1>4, <1>5, <1>6, <1>15, <2>1 DEF DropMessage, client
<1>16. ASSUME NEW n \in Node, NEW m \in Node, AcceptBlock(n, m) PROVE NetTypeOK'
  <2>1. link[m][n] # <<>> /\ link' = Consumed(n, m)
    BY <1>16 DEF AcceptBlock, Receives
  <2>2. syncing' \in [Node -> BOOLEAN]
    BY <1>4, <1>16 DEF AcceptBlock
  <2>3. UNCHANGED <<out, up, breaks, inReply, waiting, jobs, running>>
    BY <1>16 DEF AcceptBlock
  <2> QED
    BY <1>1, <1>4, <1>5, <1>6, <2>1, <2>2, <2>3
<1>17. ASSUME NEW n \in Node, NEW m \in Node, AskSender(n, m) PROVE NetTypeOK'
  <2>1. link[m][n] # <<>>
    BY <1>17 DEF AskSender, Receives
  <2>2. Consumed(n, m) \in [Node -> [Node -> Seq(M)]]
    BY <1>6, <2>1
  <2>3. SendTo(Consumed(n, m), n, m, RequestMsg(db[n])) \in [Node -> [Node -> Seq(M)]]
    BY <1>3, <2>2, SendToType
  <2>4. link' \in [Node -> [Node -> Seq(M)]]
    BY <1>17, <2>2, <2>3 DEF AskSender
  <2>5. waiting' \in [Node -> SUBSET Node]
    BY <1>4, <1>17 DEF AskSender
  <2> QED
    BY <1>1, <1>4, <1>5, <1>17, <2>4, <2>5 DEF AskSender
<1>18. ASSUME NEW n \in Node, NEW m \in Node, RequestSent(n, m) PROVE NetTypeOK'
  <2>1. waiting' \in [Node -> SUBSET Node] /\ syncing' \in [Node -> BOOLEAN]
    BY <1>4, <1>18 DEF RequestSent
  <2> QED
    BY <1>1, <1>4, <1>5, <1>18, <2>1 DEF RequestSent, net
<1>19. ASSUME NEW n \in Node, NEW m \in Node, OnSyncRequest(n, m) PROVE NetTypeOK'
  <2> DEFINE numbers == Head(link[m][n]).numbers
             job == [kind |-> "serve", peer |-> m, numbers |-> numbers]
  <2>1. /\ link[m][n] # <<>> /\ Head(link[m][n]).type = "request" /\ link' = Consumed(n, m)
        /\ jobs' = jobs \/ jobs' = [jobs EXCEPT ![n] = Append(@, job)]
    BY <1>19 DEF OnSyncRequest, Receives
  <2>2. numbers \in Numbers
    BY <1>6, <2>1 DEF Message, Post
  <2>3. job \in J
    BY <1>2, <2>2 DEF Job
  <2> HIDE DEF job
  <2>4. jobs' \in [Node -> Seq(J)]
    <3>1. Append(jobs[n], job) \in Seq(J)
      BY <1>1, <2>3
    <3> QED
      BY <1>1, <2>1, <3>1
  <2> QED
    BY <1>1, <1>4, <1>5, <1>6, <1>19, <2>1, <2>4 DEF OnSyncRequest
<1>20. ASSUME NEW n \in Node, NEW m \in Node, OnSyncReply(n, m) PROVE NetTypeOK'
  <2> DEFINE list == NewBlocks(db[n], Head(link[m][n]).list)
             job  == [kind |-> "push", peer |-> m, list |-> list]
  <2>1. /\ link[m][n] # <<>> /\ Head(link[m][n]).type = "reply" /\ link' = Consumed(n, m)
        /\ \/ UNCHANGED <<syncing, inReply, jobs>>
           \/ /\ syncing' = [syncing EXCEPT ![n] = TRUE]
              /\ inReply' = [inReply EXCEPT ![n] = TRUE]
              /\ jobs' = [jobs EXCEPT ![n] = Append(@, job)]
    BY <1>20 DEF OnSyncReply, Receives
  <2>2. Head(link[m][n]).list \in Seq(Item)
    BY <1>6, <2>1 DEF Message, Post
  <2>3. list \in Seq(Item)
    BY <2>2, NewBlocksType
  <2>4. job \in J
    BY <1>2, <2>3 DEF Job
  <2> HIDE DEF job
  <2>5. /\ jobs' \in [Node -> Seq(J)]
        /\ syncing' \in [Node -> BOOLEAN] /\ inReply' \in [Node -> BOOLEAN]
    <3>1. Append(jobs[n], job) \in Seq(J)
      BY <1>1, <2>4
    <3>2. [jobs EXCEPT ![n] = Append(@, job)] \in [Node -> Seq(J)]
      BY <1>1, <3>1
    <3>3. jobs' \in [Node -> Seq(J)]
      BY <1>1, <2>1, <3>2
    <3> QED
      BY <1>4, <2>1, <3>3
  <2> QED
    BY <1>1, <1>4, <1>5, <1>6, <1>20, <2>1, <2>5 DEF OnSyncReply
<1>21. ASSUME NEW n \in Node, NEW m \in Node, Disconnect(n, m) PROVE NetTypeOK'
  <2>1. link' \in [Node -> [Node -> Seq(M)]]
    <3> DEFINE l == [link EXCEPT ![n][m] = <<>>]
    <3>1. l \in [Node -> [Node -> Seq(M)]]
      BY <1>1
    <3>2. link' = [l EXCEPT ![m][n] = <<>>]
      BY <1>21 DEF Disconnect
    <3> HIDE DEF l
    <3> QED
      BY <3>1, <3>2
  <2>2. up' \subseteq Peers /\ breaks' \in Nat
    BY <1>4, <1>21 DEF Disconnect
  <2>3. UNCHANGED <<out, syncing, inReply, waiting, jobs, running>>
    BY <1>21 DEF Disconnect, client
  <2> QED
    BY <1>1, <1>4, <1>5, <2>1, <2>2, <2>3
<1>22. ASSUME NEW n \in Node, NEW m \in Node, Connect(n, m) PROVE NetTypeOK'
  BY <1>1, <1>4, <1>5, <1>22 DEF Connect, client
<1> QED
  BY <1>8, <1>9, <1>10, <1>11, <1>12, <1>13, <1>14, <1>15, <1>16, <1>17, <1>18, <1>19, <1>20,
     <1>21, <1>22 DEF SyncNext, Task, HandleMessage

\* What the network carries is true, in every step.
LEMMA SyncInvStep ==
    ASSUME SyncInv, [SyncNext]_syncVars
    PROVE  /\ SyncInv' /\ DagStep
           /\ \A n, m \in Node : db[n].last[m] <= db'[n].last[m]
<1>1. DagInv /\ NumbersTrue /\ ChildsTrue /\ NetTypeOK
  BY DEF SyncInv
<1>2. [Next]_vars
  BY SyncNextIsNext
<1>3. DagInv' /\ DagStep
  BY <1>1, <1>2, DagInvStep, NextIsDagStep
<1>4. NumbersTrue' /\ ChildsTrue' /\ \A n, m \in Node : db[n].last[m] <= db'[n].last[m]
  BY <1>1, <1>3, DagStepTrue
<1>5. NetTypeOK'
  <2>1. CASE SyncNext
    BY <1>3, <2>1, NetStep DEF DagStep
  <2>2. CASE UNCHANGED syncVars
    <3>1. Extends
      BY <1>3 DEF DagStep
    <3>2. Carries(Message', Job', link, jobs) /\ out \in [Node -> Seq(Post')]
      BY <1>1, <3>1, CarriesOn
    <3> QED
      BY <1>1, <2>2, <3>2 DEF syncVars, net, client, Carries, NetTypeOK
  <2> QED
    BY <2>1, <2>2
<1>6. served' = {}
  BY ServedUnchanged DEF SyncInv
<1> QED
  BY <1>3, <1>4, <1>5, <1>6 DEF SyncInv

LEMMA SyncInvInit == SyncInit => SyncInv
<1> SUFFICES ASSUME SyncInit PROVE SyncInv
  OBVIOUS
<1>1. Init /\ DagInv
  BY DagInvInit DEF SyncInit
<1>2. /\ \A n, m \in Node : \A k \in Number : db[n].num[m][k] = NoBlock
      /\ \A n \in Node : \A p \in BlockId : db[n].childs[p] = {}
  BY <1>1 DEF Init, EmptyDatabase
<1>3. NumbersTrue /\ ChildsTrue
  BY <1>2 DEF NumbersTrue, ChildsTrue
<1>4. NetTypeOK
  BY DEF SyncInit, NetTypeOK
<1>5. served = {}
  BY <1>1 DEF Init
<1> QED
  BY <1>1, <1>3, <1>4, <1>5 DEF SyncInv

(* Whatever order messages, tasks and broken connections come in, number    *)
(* indexes, child lists, replies and push tasks say what is so.             *)
THEOREM SyncInvariant == SyncSpec => []SyncInv
<1>1. SyncInv /\ [SyncNext]_syncVars => SyncInv'
  BY SyncInvStep
<1> QED
  BY SyncInvInit, <1>1, PTL DEF SyncSpec

(* The network and the client's tasks change databases in steps of BlockDag *)
(* only, so all that is proved of BlockDag holds with the sync protocol.    *)
THEOREM SyncImplementsDag == SyncSpec => ImplementsDag
<1>1. SyncInit => Init
  BY DEF SyncInit
<1>2. SyncInv /\ [SyncNext]_syncVars => [Next]_vars
  BY SyncNextIsNext
<1> QED
  BY <1>1, <1>2, SyncInvariant, PTL DEF SyncSpec, ImplementsDag, Spec

-----------------------------------------------------------------------------
(* One producer: no number is skipped.                                     *)

\* What push_block leaves when it succeeds, and when extend_chain throws.
Stores(d, e, b, h, kids) ==
    /\ e.blocks = d.blocks \cup {b}
    /\ e.num[h.node][h.produced] = b
    /\ \A m \in Node, k \in Number : m # h.node \/ k # h.produced => e.num[m][k] = d.num[m][k]
    /\ e.last[h.node] = LastIndex(d.last[h.node], h.produced)
    /\ \A m \in Node : m # h.node => e.last[m] = d.last[m]
    /\ e.childs[b] = kids

Links(d, e, b, h) ==
    /\ e.blocks = d.blocks /\ e.num = d.num /\ e.last = d.last
    /\ \A c \in BlockId : e.childs[c] = d.childs[c] \/ e.childs[c] = d.childs[c] \cup {b}

LEMMA PushedStores ==
    ASSUME NEW d \in ChainDatabase, NEW b \in BlockId, NEW h \in Header, NEW kids
    PROVE  Stores(d, Pushed(d, b, h, kids), b, h, kids)
<1> DEFINE e == Pushed(d, b, h, kids)
<1>1. h.node \in Node /\ h.produced \in Number
  BY DEF Header
<1>2. d.num \in [Node -> [Number -> BlockId \cup {NoBlock}]] /\ d.last \in [Node -> 0 .. MaxNumber]
  BY DEF ChainDatabase
<1>3. /\ e.blocks = d.blocks \cup {b}
      /\ e.num = [d.num EXCEPT ![h.node][h.produced] = b]
      /\ e.last = [d.last EXCEPT ![h.node] = LastIndex(@, h.produced)]
      /\ e.childs[b] = kids
  BY DEF Pushed, PushUpTo, StoreBlock, StoreNumber, StoreLast, StoreHead
<1> HIDE DEF e
<1>4. Stores(d, e, b, h, kids)
  BY <1>1, <1>2, <1>3 DEF Stores
<1> QED
  BY <1>4 DEF e

LEMMA RefusedLinks ==
    ASSUME NEW d \in ChainDatabase, NEW b \in BlockId, NEW h \in Header
    PROVE  Links(d, Refused(d, b, h), b, h)
<1> DEFINE l == PushUpTo(d, b, h, {}, h.parents, LinkParents)
           e == Refused(d, b, h)
<1>1. l \in ChainDatabase
  BY PushUpToType DEF LinkParents, Header
<1>2. /\ l.blocks = d.blocks /\ l.num = d.num /\ l.last = d.last
      /\ \A c \in BlockId : l.childs[c] = d.childs[c] \/ l.childs[c] = d.childs[c] \cup {b}
  BY DEF PushUpTo, LinkParents, StoreBlock, StoreNumber, StoreLast
<1>3. e = [l EXCEPT !.status = [block |-> b, version |-> 2]]
  BY DEF Refused
<1> HIDE DEF l, e
<1>4. e.blocks = l.blocks /\ e.num = l.num /\ e.last = l.last /\ e.childs = l.childs
  BY <1>1, <1>3 DEF ChainDatabase
<1>5. Links(d, e, b, h)
  BY <1>2, <1>4 DEF Links
<1> QED
  BY <1>5 DEF e

\* A block of the producer is made and pushed, or refused.
Produces(p, b) ==
    /\ b \in BlockId /\ b \notin made /\ made' = made \cup {b}
    /\ hdr'[b] \in Header /\ hdr'[b].node = p
    /\ hdr'[b].produced = db[p].last[p] + 1
    /\ hdr'[b].parents = Candidates(db[p])
    /\ \A n \in Node : n # p => db'[n] = db[n]
    /\ \/ /\ Stores(db[p], db'[p], b, hdr'[b], {})
          /\ sent' = sent \cup {b} /\ faults' = faults
       \/ /\ Links(db[p], db'[p], b, hdr'[b])
          /\ sent' = sent /\ faults' = faults + 1

\* A block arrives at node n and is pushed, or refused.
Arrives(n, b) ==
    /\ b \in sent /\ b \notin db[n].blocks /\ hdr[b].parents \subseteq db[n].blocks
    /\ made' = made /\ sent' = sent /\ hdr' = hdr
    /\ \A m \in Node : m # n => db'[m] = db[m]
    /\ \/ \E kids : Stores(db[n], db'[n], b, hdr[b], kids) /\ faults' = faults
       \/ Links(db[n], db'[n], b, hdr[b]) /\ faults' = faults + 1

\* Neither a block is made nor a database changed.
Quiet == UNCHANGED <<made, hdr, db, sent, faults>>

LEMMA GenerateBlockProduces ==
    ASSUME DagInv, NEW n \in Node, GenerateBlock(n)
    PROVE  (\E b \in BlockId : Produces(n, b)) /\ second' = [second EXCEPT ![n] = NoBlock]
           /\ (mode' = mode \/ mode' = [mode EXCEPT ![n] = "idle"])
<1> DEFINE b == FreshId(made)
<1>1. PICK t \in Time, r \in Number :
        LET h == NewHeader(n, db[n].last[n] + 1, r, t, TRUE) IN
        /\ RankAbove(h.parents, r)
        /\ made' = made \cup {b}
        /\ hdr' = [hdr EXCEPT ![b] = h]
        /\ OwnPush(n, b, h, NoBlock)
  BY DEF GenerateBlock
<1> DEFINE h == NewHeader(n, db[n].last[n] + 1, r, t, TRUE)
<1>2. b \in BlockId /\ b \notin made
  BY FreshIdIsFresh DEF GenerateBlock
<1> HIDE DEF b
<1>3. /\ h \in Header /\ h.node = n /\ h.produced = db[n].last[n] + 1
      /\ h.parents \subseteq db[n].blocks
      /\ \A q \in h.parents : q \in made /\ hdr[q].rank < h.rank
  <2>1. db[n].last[n] + 1 \in Number
    BY DEF GenerateBlock
  <2>2. RankAbove(Candidates(db[n]), r)
    BY <1>1 DEF NewHeader
  <2> QED
    BY <2>1, <2>2, NewHeaderType
<1>4. h.parents = Candidates(db[n])
  BY DEF NewHeader
<1>5. made' = made \cup {b} /\ hdr' = [hdr EXCEPT ![b] = h] /\ OwnPush(n, b, h, NoBlock)
  BY <1>1
<1> HIDE DEF h
<1>6. hdr'[b] = h /\ db \in [Node -> ChainDatabase] /\ db[n] \in ChainDatabase
  BY <1>2, <1>5 DEF DagInv, TypeOK
<1>7. ~CrashInPush(n, b, h, {})
  BY DagSyncAssumption DEF CrashInPush, Fault
<1>8. CASE db' = [db EXCEPT ![n] = Pushed(db[n], b, h, {})] /\ sent' = sent \cup {b}
           /\ second' = [second EXCEPT ![n] = NoBlock] /\ UNCHANGED <<mode, faults>>
  <2>1. Stores(db[n], db'[n], b, h, {}) /\ \A m \in Node : m # n => db'[m] = db[m]
    BY <1>2, <1>3, <1>6, <1>8, PushedStores
  <2>2. Produces(n, b)
    BY <1>2, <1>3, <1>4, <1>5, <1>6, <1>8, <2>1 DEF Produces
  <2> QED
    BY <1>2, <1>8, <2>2
<1>9. CASE Fault("throw") /\ db' = [db EXCEPT ![n] = Refused(db[n], b, h)]
           /\ second' = [second EXCEPT ![n] = NoBlock] /\ mode' = [mode EXCEPT ![n] = "idle"]
           /\ UNCHANGED sent
  <2>1. Links(db[n], db'[n], b, h) /\ \A m \in Node : m # n => db'[m] = db[m]
    BY <1>2, <1>3, <1>6, <1>9, RefusedLinks
  <2>2. Produces(n, b)
    BY <1>2, <1>3, <1>4, <1>5, <1>6, <1>9, <2>1 DEF Produces, Fault
  <2> QED
    BY <1>2, <1>9, <2>2
<1> QED
  BY <1>5, <1>7, <1>8, <1>9 DEF OwnPush

LEMMA ReceivedPushArrives ==
    ASSUME DagInv, served = {}, NEW n \in Node, NEW b \in BlockId, NEW kids,
           ReceivedPush(n, b, kids)
    PROVE  Arrives(n, b) /\ second' = second /\ mode' = mode
<1>1. /\ b \in sent /\ b \notin db[n].blocks /\ hdr[b].parents \subseteq db[n].blocks
      /\ made' = made /\ hdr' = hdr
  BY DEF ReceivedPush, IsNew, CanPush
<1>2. /\ db \in [Node -> ChainDatabase] /\ db[n] \in ChainDatabase /\ hdr[b] \in Header
  BY <1>1 DEF DagInv, TypeOK, SentCounted, MadeBlocks
<1>3. ~CrashInPush(n, b, hdr[b], kids)
  BY DagSyncAssumption DEF CrashInPush, Fault
<1>4. CASE db' = [db EXCEPT ![n] = Pushed(db[n], b, hdr[b], kids)]
           /\ UNCHANGED <<second, mode, sent, faults>>
  <2>1. Stores(db[n], db'[n], b, hdr[b], kids) /\ \A m \in Node : m # n => db'[m] = db[m]
    BY <1>2, <1>4, PushedStores
  <2> QED
    BY <1>1, <1>4, <2>1 DEF Arrives
<1>5. CASE Fault("throw") /\ db' = [db EXCEPT ![n] = Refused(db[n], b, hdr[b])]
           /\ UNCHANGED <<second, mode, sent>>
  <2>1. Links(db[n], db'[n], b, hdr[b]) /\ \A m \in Node : m # n => db'[m] = db[m]
    BY <1>2, <1>5, RefusedLinks
  <2> QED
    BY <1>1, <1>5, <2>1 DEF Arrives, Fault
<1> QED
  BY <1>3, <1>4, <1>5 DEF ReceivedPush

\* With one producer, blocks are made one at a time and by that node.
LEMMA ChainSteps ==
    ASSUME SyncInv, Production, [SyncNext]_syncVars, OneProducer
    PROVE  /\ Production'
           /\ \/ Quiet
              \/ \E p \in Producer, b \in BlockId : Produces(p, b)
              \/ \E n \in Node, b \in BlockId : Arrives(n, b)
<1>1. DagInv /\ served = {} /\ second \in [Node -> BlockId \cup {NoBlock}]
      /\ mode \in [Node -> {"down", "idle", "looping"}]
  BY DEF SyncInv, DagInv, TypeOK
<1>2. CASE UNCHANGED vars
  BY <1>2 DEF vars, Quiet, Production
<1>3. ASSUME NEW n \in Node, RescheduleDelegateLoop(n) PROVE Quiet /\ Production'
  BY <1>1, <1>3 DEF RescheduleDelegateLoop, Quiet, Production
<1>4. ASSUME NEW n \in Node, GenerateBlock(n)
      PROVE  Production' /\ \E p \in Producer, b \in BlockId : Produces(p, b)
  <2>1. n \in Producer
    BY <1>4 DEF GenerateBlock, Production
  <2>2. (\E b \in BlockId : Produces(n, b)) /\ second' = [second EXCEPT ![n] = NoBlock]
        /\ (mode' = mode \/ mode' = [mode EXCEPT ![n] = "idle"])
    BY <1>1, <1>4, GenerateBlockProduces
  <2>3. Production'
    BY <1>1, <2>2 DEF Production
  <2> QED
    BY <2>1, <2>2, <2>3
<1>5. ASSUME NEW n \in Node, NEW b \in BlockId, NEW kids, ReceivedPush(n, b, kids)
      PROVE  Production' /\ Arrives(n, b)
  <2>1. Arrives(n, b) /\ second' = second /\ mode' = mode
    BY <1>1, <1>5, ReceivedPushArrives
  <2> QED
    BY <2>1 DEF Production
<1>6. ASSUME NEW n \in Node, DelegateLoop(n) PROVE GenerateBlock(n)
  BY <1>6 DEF DelegateLoop, PushSecondEmpty, Production, OneProducer
<1>7. ASSUME NEW n \in Node, PushTask(n)
      PROVE  UNCHANGED vars \/ \E b \in BlockId : \E kids : ReceivedPush(n, b, kids)
  <2> DEFINE e == Head(Head(jobs[n]).list)
  <2>1. ReceivedPush(n, e.block, e.childs) \/ UNCHANGED vars
    BY <1>7 DEF PushTask
  <2>2. ReceivedPush(n, e.block, e.childs) => e.block \in BlockId
    BY <1>1 DEF ReceivedPush, DagInv, TypeOK
  <2> HIDE DEF e
  <2> QED
    BY <2>1, <2>2
<1>8. ASSUME NEW n \in Node, NEW m \in Node, AcceptBlock(n, m)
      PROVE  UNCHANGED vars \/ \E b \in BlockId : \E kids : ReceivedPush(n, b, kids)
  <2> DEFINE b == Head(link[m][n]).block
  <2>1. ReceivedPush(n, b, {}) \/ UNCHANGED vars
    BY <1>8 DEF AcceptBlock, OnNewBlock
  <2>2. ReceivedPush(n, b, {}) => b \in BlockId
    BY <1>1 DEF ReceivedPush, DagInv, TypeOK
  <2> HIDE DEF b
  <2> QED
    BY <2>1, <2>2
<1>9. \/ UNCHANGED vars
      \/ \E n \in Node : RescheduleDelegateLoop(n) \/ GenerateBlock(n)
      \/ \E n \in Node, b \in BlockId : \E kids : ReceivedPush(n, b, kids)
  <2>1. CASE UNCHANGED syncVars
    BY <2>1 DEF syncVars
  <2>2. ASSUME NEW n \in Node,
               AdvertiseLoop(n) \/ SyncLoop(n) \/ ServeTask(n) \/ PushTaskDone(n)
        PROVE  UNCHANGED vars
    BY <2>2 DEF AdvertiseLoop, SyncLoop, ServeTask, PushTaskDone
  <2>3. ASSUME NEW n \in Node, NEW m \in Node,
             \/ DropMessage(n, m) \/ AskSender(n, m) \/ RequestSent(n, m) \/ OnSyncRequest(n, m)
             \/ OnSyncReply(n, m) \/ Disconnect(n, m) \/ Connect(n, m)
        PROVE  UNCHANGED vars
    BY <2>3 DEF DropMessage, AskSender, RequestSent, OnSyncRequest, OnSyncReply, Disconnect, Connect
  <2>4. ASSUME NEW n \in Node, Reschedule(n) PROVE RescheduleDelegateLoop(n)
    BY <2>4 DEF Reschedule
  <2> QED
    BY <1>6, <1>7, <1>8, <2>1, <2>2, <2>3, <2>4 DEF SyncNext, Task, HandleMessage
<1> QED
  BY <1>2, <1>3, <1>4, <1>5, <1>9

\* What ChainInv says of a block in a database of a chain with producer p.
LEMMA ChainBlock ==
    ASSUME ChainInv, NEW p, Producer = {p}
    PROVE  /\ p \in Node
           /\ \A b \in sent : /\ b \in made /\ b \in BlockId /\ hdr[b] \in Header
                              /\ hdr[b].node = p /\ b \in db[p].blocks
           /\ \A b, c \in sent : hdr[b].produced = hdr[c].produced => b = c
           /\ \A n \in Node : \A b \in db[n].blocks :
                 /\ b \in sent /\ db[n].num[p][hdr[b].produced] = b
                 /\ hdr[b].produced <= db[n].last[p]
           /\ \A n, m \in Node : db[n].last[m] \in 0 .. MaxNumber
<1>1. p \in Node
  BY BlockDagAssumption
<1>2. DagInv /\ PredecessorLinked /\ StoredFound
  BY DEF ChainInv
<1>3. \A b \in sent : b \in made /\ hdr[b].node = p /\ b \in db[hdr[b].node].blocks
  BY <1>2 DEF PredecessorLinked, DagInv, SentCounted
<1>4. \A b \in made : b \in BlockId /\ hdr[b] \in Header
  BY <1>2 DEF DagInv, TypeOK, MadeBlocks
<1>5. \A b, c \in sent : hdr[b].produced = hdr[c].produced => b = c
  BY <1>2, <1>3 DEF DagInv, NumbersUnique
<1>6. \A n \in Node : \A b \in db[n].blocks :
        /\ b \in sent /\ db[n].num[hdr[b].node][hdr[b].produced] = b
        /\ hdr[b].produced <= db[n].last[hdr[b].node]
  BY <1>2 DEF StoredFound
<1>7. \A n, m \in Node : db[n].last[m] \in 0 .. MaxNumber
  BY <1>2 DEF DagInv, TypeOK, ChainDatabase
<1> QED
  BY <1>1, <1>3, <1>4, <1>5, <1>6, <1>7

\* The producer's last block is a parent of the next.
LEMMA LastIsCandidate ==
    ASSUME ChainInv, OneProducer, NEW p, Producer = {p}, db[p].last[p] > 0
    PROVE  /\ db[p].num[p][db[p].last[p]] \in Candidates(db[p])
           /\ db[p].num[p][db[p].last[p]] \in made
           /\ hdr[db[p].num[p][db[p].last[p]]].produced = db[p].last[p]
<1> DEFINE k == db[p].last[p]
           c == db[p].num[p][k]
<1>1. p \in Node /\ DagInv /\ k \in 0 .. MaxNumber /\ MaxNumber \in Nat
  BY ChainBlock, BlockDagAssumption DEF ChainInv
<1>2. c \in db[p].blocks /\ hdr[c].produced = k
  <2>1. PICK b \in db[p].blocks : hdr[b].node = p /\ hdr[b].produced = k
    BY <1>1 DEF DagInv, LastExists
  <2> QED BY <1>1, <2>1 DEF ChainInv, StoredFound
<1>3. c \in made /\ c \in BlockId
  BY <1>1, <1>2 DEF DagInv, MadeBlocks, TypeOK
<1>4. IsFiniteSet(db[p].childs[c]) /\ Cardinality(db[p].childs[c]) <= faults
  BY DEF ChainInv, LastOpen
<1>5. Cardinality(db[p].childs[c]) < MinChildren
  <2>1. Cardinality(db[p].childs[c]) \in Nat
    BY <1>4, FS_CardinalityType
  <2>2. faults \in 0 .. MaxFaults /\ MaxFaults \in Nat /\ MinChildren \in Nat
    BY <1>1, BlockDagAssumption DEF DagInv, TypeOK
  <2>3. \A x \in Nat : x <= faults => x < MinChildren
    BY <2>2 DEF OneProducer
  <2> QED
    BY <1>4, <2>1, <2>3
<1>6. IsOpen(db[p], p, k)
  BY <1>2, <1>5 DEF IsOpen, HasBlock
<1>7. \A i \in k .. k : IsOpen(db[p], p, i)
  BY <1>1, <1>6
<1>8. k \in 1 .. k /\ k - k < LookBack
  BY <1>1, BlockDagAssumption
<1>9. c \in Candidates(db[p])
  BY <1>1, <1>3, <1>7, <1>8 DEF Candidates
<1> QED
  BY <1>2, <1>3, <1>9

\* Neither storing nor linking moves or removes what is stored.
LEMMA StoresKeeps ==
    ASSUME NEW d \in ChainDatabase, NEW e \in ChainDatabase, NEW b, NEW h \in Header, NEW kids,
           Stores(d, e, b, h, kids)
    PROVE  /\ b \in e.blocks /\ h.produced <= e.last[h.node]
           /\ \A m \in Node : d.last[m] <= e.last[m]
           /\ e.last[h.node] = d.last[h.node] \/ e.last[h.node] = h.produced
           /\ h.node \in Node /\ h.produced \in 1 .. MaxNumber /\ MaxNumber \in Nat
           /\ \A m \in Node : d.last[m] \in Nat /\ e.last[m] \in 0 .. MaxNumber
<1>1. h.node \in Node /\ h.produced \in 1 .. MaxNumber /\ MaxNumber \in Nat
  BY BlockDagAssumption DEF Header, Number
<1>2. \A m \in Node : d.last[m] \in Nat /\ e.last[m] \in 0 .. MaxNumber
  BY <1>1 DEF ChainDatabase
<1> QED
  BY <1>1, <1>2 DEF Stores, LastIndex

\* The producer makes a block.
LEMMA ProducesChain ==
    ASSUME ChainInv, OneProducer, NEW p, Producer = {p}, NEW b, Produces(p, b), DagInv', NumbersTrue',
           Production', DagStep
    PROVE  ChainInv'
<1> DEFINE h == hdr'[b]
           d == db[p]
           e == db'[p]
           k == db[p].last[p]
<1>1. /\ p \in Node
      /\ \A c \in sent : /\ c \in made /\ c \in BlockId /\ hdr[c] \in Header
                         /\ hdr[c].node = p /\ c \in db[p].blocks
      /\ \A n \in Node : \A c \in db[n].blocks :
            /\ c \in sent /\ db[n].num[p][hdr[c].produced] = c
            /\ hdr[c].produced <= db[n].last[p]
  BY ChainBlock
<1>2. /\ d \in ChainDatabase /\ e \in ChainDatabase /\ h \in Header /\ h.node = p
      /\ h.produced = k + 1 /\ k \in Nat /\ b \notin made /\ b \in made'
      /\ h.produced \in Number
  <2>1. db \in [Node -> ChainDatabase] /\ db' \in [Node -> ChainDatabase]
    BY DEF ChainInv, DagInv, TypeOK
  <2>2. k \in Nat
    BY <1>1, <2>1, BlockDagAssumption DEF ChainDatabase
  <2> QED
    BY <1>1, <2>1, <2>2 DEF Produces, Header
<1>3. \A c \in made : hdr'[c] = hdr[c] /\ c # b
  BY <1>2 DEF DagStep, Extends
<1>4. \A n \in Node : n # p => db'[n] = db[n]
  BY DEF Produces
<1>5. b \notin sent /\ \A n \in Node : b \notin db[n].blocks
  BY <1>1, <1>2
<1>6. \A c \in sent : hdr'[c] = hdr[c] /\ c # b
  BY <1>1, <1>3
<1>7. \A c \in sent : hdr[c].produced <= k /\ hdr[c].produced \in Number
  BY <1>1 DEF Header
<1>8. CASE Stores(d, e, b, h, {}) /\ sent' = sent \cup {b} /\ faults' = faults
  <2>1. /\ e.blocks = d.blocks \cup {b} /\ e.num[p][k + 1] = b /\ e.last[p] = k + 1
        /\ e.childs[b] = {}
        /\ \A m \in Node : m # p => e.last[m] = d.last[m]
        /\ \A m \in Node, i \in Number : m # p \/ i # k + 1 => e.num[m][i] = d.num[m][i]
    BY <1>2, <1>8 DEF Stores, LastIndex
  <2> HIDE DEF h, d, e, k
  <2>2. StoredFound'
    <3> SUFFICES ASSUME NEW n \in Node, NEW c \in db'[n].blocks
                 PROVE  /\ c \in sent'
                        /\ db'[n].num[hdr'[c].node][hdr'[c].produced] = c
                        /\ hdr'[c].produced <= db'[n].last[hdr'[c].node]
      BY DEF StoredFound
    <3>1. CASE n # p
      BY <1>1, <1>4, <1>6, <1>8, <3>1
    <3>2. CASE n = p /\ c = b
      BY <1>2, <1>8, <2>1, <3>2 DEF h, e
    <3>3. CASE n = p /\ c # b
      <4>1. c \in d.blocks
        BY <2>1, <3>3 DEF e
      <4>2. /\ c \in sent /\ d.num[p][hdr[c].produced] = c /\ hdr[c].produced <= k
            /\ hdr[c].node = p /\ hdr[c].produced \in Number
        BY <1>1, <1>7, <3>3, <4>1 DEF d, k
      <4>3. hdr[c].produced # k + 1 /\ hdr[c].produced <= k + 1
        BY <1>2, <4>2 DEF Number
      <4> QED
        BY <1>1, <1>6, <1>8, <2>1, <3>3, <4>2, <4>3 DEF e
    <3> QED
      BY <3>1, <3>2, <3>3
  <2>3. PredecessorLinked'
    <3> SUFFICES ASSUME NEW c \in sent'
                 PROVE  /\ hdr'[c].node \in Producer
                        /\ hdr'[c].produced > 1 =>
                             \E q \in hdr'[c].parents : hdr'[q].produced = hdr'[c].produced - 1
      BY DEF PredecessorLinked
    <3>1. CASE c \in sent
      <4>1. /\ hdr[c].node \in Producer
            /\ hdr[c].produced > 1 =>
                 \E q \in hdr[c].parents : hdr[q].produced = hdr[c].produced - 1
        BY <3>1 DEF ChainInv, PredecessorLinked
      <4>2. \A q \in hdr[c].parents : hdr'[q] = hdr[q]
        BY <1>1, <1>3, <3>1 DEF ChainInv, DagInv, ParentRank
      <4> QED
        BY <1>6, <3>1, <4>1, <4>2
    <3>2. CASE c = b
      <4>1. CASE k > 0
        <5>1. /\ d.num[p][k] \in Candidates(d) /\ d.num[p][k] \in made
              /\ hdr[d.num[p][k]].produced = k
          BY <4>1, LastIsCandidate DEF d, k
        <5>2. h.parents = Candidates(d)
          BY DEF Produces, h, d
        <5>3. hdr'[d.num[p][k]] = hdr[d.num[p][k]]
          BY <1>3, <5>1
        <5>4. k = h.produced - 1
          BY <1>2
        <5> QED
          BY <1>2, <3>2, <5>1, <5>2, <5>3, <5>4 DEF h
      <4>2. CASE k = 0
        BY <1>2, <3>2, <4>2 DEF h
      <4> QED
        BY <1>2, <4>1, <4>2
    <3> QED
      BY <1>8, <3>1, <3>2
  <2>4. LastOpen'
    <3>1. e.childs[e.num[p][e.last[p]]] = {}
      BY <2>1
    <3>2. IsFiniteSet({}) /\ Cardinality({}) <= faults'
      <4>1. faults' \in Nat
        BY BlockDagAssumption DEF DagInv, TypeOK
      <4>2. IsFiniteSet({}) /\ Cardinality({}) = 0
        BY FS_EmptySet
      <4> QED
        BY <4>1, <4>2
    <3> DEFINE K == e.childs[e.num[p][e.last[p]]]
    <3>3. IsFiniteSet(K) /\ Cardinality(K) <= faults'
      BY <3>1, <3>2, Zenon
    <3> HIDE DEF K
    <3> QED
      BY <3>3 DEF LastOpen, e, K
  <2>5. NoGap'
    <3> SUFFICES ASSUME NEW n \in Node, NEW m \in Node, NEW i \in 1 .. db'[n].last[m]
                 PROVE  HasBlock(db'[n], m, i)
      BY DEF NoGap
    <3>1. \A q, r \in Node : \A j \in 1 .. db[q].last[r] : db[q].num[r][j] \in db[q].blocks
      BY DEF ChainInv, NoGap, HasBlock
    <3>2. CASE n # p
      BY <1>4, <3>1, <3>2 DEF HasBlock
    <3>3. CASE n = p /\ m = p /\ i = k + 1
      BY <2>1, <3>3 DEF HasBlock, e
    <3>4. CASE n = p /\ ~(m = p /\ i = k + 1)
      <4>1. i \in Number /\ i \in 1 .. d.last[m]
        <5>1. d.last[m] \in 0 .. MaxNumber /\ MaxNumber \in Nat
          BY <1>2, BlockDagAssumption DEF ChainDatabase
        <5>2. i \in 1 .. e.last[m]
          BY <3>4 DEF e
        <5>3. i \in 1 .. d.last[m]
          BY <1>2, <2>1, <3>4, <5>2 DEF d, k
        <5> QED
          BY <5>1, <5>3 DEF Number
      <4>2. e.num[m][i] = d.num[m][i] /\ d.num[m][i] \in d.blocks
        BY <2>1, <3>1, <3>4, <4>1 DEF d
      <4> QED
        BY <2>1, <3>4, <4>2 DEF HasBlock, e
    <3> QED
      BY <3>2, <3>3, <3>4
  <2> QED
    BY <2>2, <2>3, <2>4, <2>5 DEF ChainInv
<1>9. CASE Links(d, e, b, h) /\ sent' = sent /\ faults' = faults + 1
  <2>1. /\ e.blocks = d.blocks /\ e.num = d.num /\ e.last = d.last
        /\ \A c \in BlockId : e.childs[c] = d.childs[c] \/ e.childs[c] = d.childs[c] \cup {b}
    BY <1>9 DEF Links
  <2> HIDE DEF h, d, e, k
  <2>2. \A n \in Node : db'[n].blocks = db[n].blocks /\ db'[n].num = db[n].num
                        /\ db'[n].last = db[n].last
    BY <1>4, <2>1 DEF d, e
  <2>3. StoredFound'
    BY <1>1, <1>6, <1>9, <2>2 DEF StoredFound
  <2>4. PredecessorLinked'
    <3> SUFFICES ASSUME NEW c \in sent
                 PROVE  /\ hdr'[c].node \in Producer
                        /\ hdr'[c].produced > 1 =>
                             \E q \in hdr'[c].parents : hdr'[q].produced = hdr'[c].produced - 1
      BY <1>9 DEF PredecessorLinked
    <3>1. /\ hdr[c].node \in Producer
          /\ hdr[c].produced > 1 =>
               \E q \in hdr[c].parents : hdr[q].produced = hdr[c].produced - 1
      BY DEF ChainInv, PredecessorLinked
    <3>2. \A q \in hdr[c].parents : hdr'[q] = hdr[q]
      BY <1>1, <1>3 DEF ChainInv, DagInv, ParentRank
    <3> QED
      BY <1>6, <3>1, <3>2
  <2>5. LastOpen'
    <3> SUFFICES ASSUME db'[p].last[p] > 0
                 PROVE  LET kids == db'[p].childs[db'[p].num[p][db'[p].last[p]]] IN
                        IsFiniteSet(kids) /\ Cardinality(kids) <= faults'
      BY DEF LastOpen
    <3> DEFINE c == d.num[p][k]
    <3>1. k > 0 /\ db'[p].num[p][db'[p].last[p]] = c
      BY <2>1 DEF d, e, k
    <3>2. c \in BlockId /\ c \in made
      BY <1>1, <3>1, LastIsCandidate DEF d, k, ChainInv, DagInv, TypeOK
    <3>3. IsFiniteSet(d.childs[c]) /\ Cardinality(d.childs[c]) <= faults
      BY <3>1 DEF ChainInv, LastOpen, d, k
    <3>4. faults \in Nat
      BY BlockDagAssumption DEF ChainInv, DagInv, TypeOK
    <3> DEFINE K == d.childs[c]
               L == e.childs[c]
    <3> HIDE DEF c, K, L
    <3>5. IsFiniteSet(K) /\ Cardinality(K) <= faults /\ Cardinality(K) \in Nat
      BY <3>3, FS_CardinalityType DEF K
    <3>6. /\ IsFiniteSet(K \cup {b})
          /\ Cardinality(K \cup {b}) = IF b \in K THEN Cardinality(K) ELSE Cardinality(K) + 1
      BY <3>5, FS_AddElement
    <3>7. L = K \/ L = K \cup {b}
      BY <2>1, <3>2 DEF K, L
    <3>8. \A x \in Nat : x <= faults => x <= faults' /\ x + 1 <= faults'
      BY <1>9, <3>4
    <3>9. IsFiniteSet(e.childs[c]) /\ Cardinality(e.childs[c]) <= faults'
      <4>1. CASE L = K
        BY <3>5, <3>8, <4>1 DEF L
      <4>2. CASE L = K \cup {b}
        <5>1. Cardinality(K \cup {b}) <= faults'
          BY <3>5, <3>6, <3>8
        <5>2. IsFiniteSet(L) /\ Cardinality(L) <= faults'
          BY <3>6, <4>2, <5>1, Zenon
        <5> QED
          BY <5>2 DEF L
      <4> QED
        BY <3>7, <4>1, <4>2
    <3> QED
      BY <3>1, <3>9 DEF e
  <2>6. NoGap'
    BY <2>2 DEF ChainInv, NoGap, HasBlock
  <2> QED
    BY <2>3, <2>4, <2>5, <2>6 DEF ChainInv
<1> QED
  BY <1>8, <1>9 DEF Produces

\* A block arrives: it goes on where the node is, because its predecessor is a
\* parent that the node has.
LEMMA ArrivesChain ==
    ASSUME ChainInv, OneProducer, NEW p, Producer = {p}, NEW n \in Node, NEW b, Arrives(n, b),
           DagInv', NumbersTrue', Production'
    PROVE  ChainInv'
<1> DEFINE h == hdr[b]
           d == db[n]
           e == db'[n]
           k == hdr[b].produced
<1>1. /\ p \in Node
      /\ \A c \in sent : /\ c \in made /\ c \in BlockId /\ hdr[c] \in Header
                         /\ hdr[c].node = p /\ c \in db[p].blocks
      /\ \A c1, c2 \in sent : hdr[c1].produced = hdr[c2].produced => c1 = c2
      /\ \A m \in Node : \A c \in db[m].blocks :
            /\ c \in sent /\ db[m].num[p][hdr[c].produced] = c
            /\ hdr[c].produced <= db[m].last[p]
  BY ChainBlock
<1>2. /\ b \in sent /\ b \notin d.blocks /\ h.parents \subseteq d.blocks
      /\ made' = made /\ sent' = sent /\ hdr' = hdr
      /\ \A m \in Node : m # n => db'[m] = db[m]
  BY DEF Arrives
<1>3. /\ d \in ChainDatabase /\ e \in ChainDatabase /\ h \in Header /\ h.node = p
      /\ k \in Number /\ k \in Nat /\ k > 0 /\ d.last[p] \in Nat
  <2>1. db \in [Node -> ChainDatabase] /\ db' \in [Node -> ChainDatabase]
    BY DEF ChainInv, DagInv, TypeOK
  <2>2. k \in Number /\ h \in Header /\ h.node = p
    BY <1>1, <1>2 DEF Header
  <2>3. d.last[p] \in Nat
    BY <1>1, <2>1, BlockDagAssumption DEF ChainDatabase
  <2>4. k \in Nat /\ k > 0
    BY <2>2, BlockDagAssumption DEF Number
  <2> QED
    BY <2>1, <2>2, <2>3, <2>4
<1>4. n # p
  BY <1>1, <1>2
<1>5. db'[p] = db[p]
  BY <1>1, <1>2, <1>4
<1>6. PredecessorLinked'
  BY <1>2 DEF ChainInv, PredecessorLinked
<1>7. faults \in Nat /\ (faults' = faults \/ faults' = faults + 1)
  BY BlockDagAssumption DEF Arrives, ChainInv, DagInv, TypeOK
<1>8. LastOpen'
  <2> SUFFICES ASSUME db[p].last[p] > 0
               PROVE  LET kids == db[p].childs[db[p].num[p][db[p].last[p]]] IN
                      IsFiniteSet(kids) /\ Cardinality(kids) <= faults'
    BY <1>5 DEF LastOpen
  <2> DEFINE K == db[p].childs[db[p].num[p][db[p].last[p]]]
  <2>1. IsFiniteSet(K) /\ Cardinality(K) <= faults
    BY DEF ChainInv, LastOpen
  <2> HIDE DEF K
  <2>2. Cardinality(K) \in Nat
    BY <2>1, FS_CardinalityType
  <2>3. Cardinality(K) <= faults'
    BY <1>7, <2>1, <2>2
  <2> QED
    BY <2>1, <2>3 DEF K
<1>9. \A q, r \in Node : \A j \in 1 .. db[q].last[r] : db[q].num[r][j] \in db[q].blocks
  BY DEF ChainInv, NoGap, HasBlock
<1>10. ASSUME NEW kids, Stores(d, e, b, h, kids) PROVE StoredFound' /\ NoGap'
  <2>1. /\ e.blocks = d.blocks \cup {b} /\ e.num[p][k] = b
        /\ e.last[p] = LastIndex(d.last[p], k)
        /\ \A m \in Node : m # p => e.last[m] = d.last[m]
        /\ \A m \in Node, i \in Number : m # p \/ i # k => e.num[m][i] = d.num[m][i]
    BY <1>3, <1>10 DEF Stores
  <2>2. k <= d.last[p] + 1
    <3>1. CASE k = 1
      BY <1>3, <3>1
    <3>2. CASE k # 1
      <4>1. PICK c \in h.parents : hdr[c].produced = k - 1
        BY <1>2, <1>3, <3>2 DEF ChainInv, PredecessorLinked
      <4>2. k - 1 <= d.last[p]
        BY <1>1, <1>2, <4>1
      <4> QED
        BY <1>3, <4>2
    <3> QED
      BY <3>1, <3>2
  <2>3. d.last[p] <= e.last[p] /\ k <= e.last[p] /\ e.last[p] \in Nat
    BY <1>3, <2>1 DEF LastIndex
  <2> HIDE DEF h, d, e, k
  <2>4. StoredFound'
    <3> SUFFICES ASSUME NEW m \in Node, NEW c \in db'[m].blocks
                 PROVE  /\ c \in sent /\ db'[m].num[hdr[c].node][hdr[c].produced] = c
                        /\ hdr[c].produced <= db'[m].last[hdr[c].node]
      BY <1>2 DEF StoredFound
    <3>1. CASE m # n
      BY <1>1, <1>2, <3>1
    <3>2. CASE m = n /\ c = b
      BY <1>2, <1>3, <2>1, <2>3, <3>2 DEF h, e, k
    <3>3. CASE m = n /\ c # b
      <4>1. c \in d.blocks
        BY <2>1, <3>3 DEF e
      <4>2. /\ c \in sent /\ d.num[p][hdr[c].produced] = c /\ hdr[c].produced <= d.last[p]
            /\ hdr[c].node = p /\ hdr[c].produced \in Number
        BY <1>1, <4>1 DEF d, Header
      <4>3. hdr[c].produced # k
        BY <1>1, <1>2, <3>3, <4>2 DEF k
      <4>4. hdr[c].produced <= e.last[p]
        BY <1>3, <2>3, <4>2, BlockDagAssumption DEF Number
      <4> QED
        BY <1>1, <2>1, <3>3, <4>2, <4>3, <4>4 DEF e
    <3> QED
      BY <3>1, <3>2, <3>3
  <2>5. NoGap'
    <3> SUFFICES ASSUME NEW q \in Node, NEW m \in Node, NEW i \in 1 .. db'[q].last[m]
                 PROVE  HasBlock(db'[q], m, i)
      BY DEF NoGap
    <3>1. CASE q # n
      BY <1>2, <1>9, <3>1 DEF HasBlock
    <3>2. CASE q = n /\ m = p /\ i = k
      BY <2>1, <3>2 DEF HasBlock, e
    <3>3. CASE q = n /\ ~(m = p /\ i = k)
      <4>1. i \in 1 .. e.last[m]
        BY <3>3 DEF e
      <4>2. i \in 1 .. d.last[m]
        <5>1. CASE m = p
          BY <1>3, <2>1, <2>2, <3>3, <4>1, <5>1 DEF LastIndex
        <5>2. CASE m # p
          BY <2>1, <4>1, <5>2
        <5> QED
          BY <5>1, <5>2
      <4>3. i \in Number
        <5>1. d.last[m] \in 0 .. MaxNumber /\ MaxNumber \in Nat
          BY <1>3, BlockDagAssumption DEF ChainDatabase
        <5> QED
          BY <4>2, <5>1 DEF Number
      <4>4. e.num[m][i] = d.num[m][i] /\ d.num[m][i] \in d.blocks
        BY <1>9, <2>1, <3>3, <4>2, <4>3 DEF d
      <4> QED
        BY <2>1, <3>3, <4>4 DEF HasBlock, e
    <3> QED
      BY <3>1, <3>2, <3>3
  <2> QED
    BY <2>4, <2>5
<1>11. ASSUME Links(d, e, b, h) PROVE StoredFound' /\ NoGap'
  <2>1. \A m \in Node : db'[m].blocks = db[m].blocks /\ db'[m].num = db[m].num
                        /\ db'[m].last = db[m].last
    BY <1>2, <1>11 DEF Links
  <2>2. StoredFound'
    BY <1>1, <1>2, <2>1 DEF StoredFound
  <2>3. NoGap'
    BY <1>9, <2>1 DEF NoGap, HasBlock
  <2> QED
    BY <2>2, <2>3
<1>12. StoredFound' /\ NoGap'
  BY <1>10, <1>11 DEF Arrives
<1> QED
  BY <1>6, <1>8, <1>12 DEF ChainInv

LEMMA ChainStep ==
    ASSUME SyncInv, ChainInv, OneProducer, [SyncNext]_syncVars
    PROVE  ChainInv' /\ (Quiet \/ (\E p \in Producer, b \in BlockId : Produces(p, b))
                               \/ (\E n \in Node, b \in BlockId : Arrives(n, b)))
<1>1. PICK p : Producer = {p}
  BY DEF OneProducer
<1>2. DagInv' /\ NumbersTrue' /\ DagStep
  BY SyncInvStep DEF SyncInv
<1>3. Production
  BY DEF ChainInv
<1>4. /\ Production'
      /\ \/ Quiet
         \/ \E q \in Producer, b \in BlockId : Produces(q, b)
         \/ \E n \in Node, b \in BlockId : Arrives(n, b)
  BY <1>3, ChainSteps
<1>5. CASE Quiet
  BY <1>2, <1>4, <1>5 DEF Quiet, ChainInv, StoredFound, PredecessorLinked, LastOpen, NoGap, HasBlock
<1>6. ASSUME NEW b \in BlockId, Produces(p, b) PROVE ChainInv'
  BY <1>1, <1>2, <1>4, <1>6, ProducesChain
<1>7. ASSUME NEW n \in Node, NEW b \in BlockId, Arrives(n, b) PROVE ChainInv'
  BY <1>1, <1>2, <1>4, <1>7, ArrivesChain
<1> QED
  BY <1>1, <1>4, <1>5, <1>6, <1>7

LEMMA ChainInit == SyncInit => ChainInv
<1> SUFFICES ASSUME SyncInit PROVE ChainInv
  OBVIOUS
<1>1. SyncInv /\ Init
  BY SyncInvInit DEF SyncInit
<1>2. /\ \A n \in Node : second[n] = NoBlock /\ (mode[n] = "looping" => n \in Producer)
      /\ \A n \in Node : db[n].blocks = {} /\ \A m \in Node : db[n].last[m] = 0
      /\ sent = {}
  BY <1>1 DEF Init, EmptyDatabase
<1> QED
  BY <1>1, <1>2, BlockDagAssumption
  DEF SyncInv, ChainInv, Production, StoredFound, PredecessorLinked, LastOpen, NoGap, HasBlock

(* With one producer no node skips a block, whatever is lost or refused, in  *)
(* whatever order blocks and sync replies arrive: sync never has to go back  *)
(* behind the last number of a producer.                                     *)
THEOREM NoNumberSkipped ==
    ASSUME OneProducer
    PROVE  SyncSpec => []NoGap
<1>1. SyncInv /\ ChainInv /\ [SyncNext]_syncVars => ChainInv'
  BY ChainStep
<1>2. ChainInv => NoGap
  BY DEF ChainInv
<1> QED
  BY SyncInvariant, ChainInit, <1>1, <1>2, PTL DEF SyncSpec

-----------------------------------------------------------------------------
(* One producer: sync replies are in order.                                *)

\* The merge of one producer's blocks goes by their numbers.
LEMMA BeforeIsOlder ==
    ASSUME NEW S, Distinct(S), NEW p, \A x \in S : hdr[x].node = p, NEW b \in S, NEW c \in S
    PROVE  Before(S, b, c) <=> hdr[b].produced < hdr[c].produced
<1>1. \A x \in S : hdr[x] \in Header
  BY DEF Distinct
<1>2. /\ p \in Nat /\ hdr[b].node = p /\ hdr[c].node = p
      /\ \A x \in S : hdr[x].produced \in Nat /\ hdr[x].rank \in Nat
  BY <1>1, BlockDagAssumption, DagSyncAssumption DEF Header, Number
<1>3. ASSUME NEW x \in S, NEW y \in S, hdr[x].produced <= hdr[y].produced
      PROVE  MergeRank(S, x) <= MergeRank(S, y)
  <2>1. WaitsFor(S, x) \subseteq WaitsFor(S, y)
    BY <1>2, <1>3 DEF WaitsFor
  <2> QED
    BY <1>1, <2>1, MergeRankType
<1>4. MergeRank(S, b) \in Nat /\ MergeRank(S, c) \in Nat
  BY <1>1, MergeRankType
<1>5. CASE hdr[b].produced < hdr[c].produced
  <2>1. MergeRank(S, b) <= MergeRank(S, c)
    BY <1>2, <1>3, <1>5
  <2> QED
    BY <1>2, <1>4, <1>5, <2>1 DEF Before
<1>6. CASE hdr[c].produced <= hdr[b].produced
  <2>1. MergeRank(S, c) <= MergeRank(S, b)
    BY <1>3, <1>6
  <2> QED
    BY <1>2, <1>4, <1>6, <2>1 DEF Before
<1> QED
  BY <1>2, <1>5, <1>6

\* A served block is preceded by all numbers after the requester's.
LEMMA ServedBefore ==
    ASSUME ChainInv, NEW p, Producer = {p}, NEW n \in Node, NEW numbers \in Numbers,
           NEW b \in Served(db[n], numbers)
    PROVE  LET S == Served(db[n], numbers) IN
           /\ b \in sent /\ hdr[b].produced \in Nat /\ numbers[p] \in Nat
           /\ Cardinality({c \in S : hdr[c].produced < hdr[b].produced})
                = hdr[b].produced - numbers[p] - 1
<1> DEFINE d == db[n]
           S == Served(d, numbers)
           k == hdr[b].produced
           f == numbers[p]
           B == {c \in S : hdr[c].produced < k}
           g == [i \in f + 1 .. k - 1 |-> d.num[p][i]]
<1>1. /\ p \in Node
      /\ \A c \in sent : hdr[c] \in Header /\ hdr[c].node = p
      /\ \A c \in d.blocks : c \in sent /\ c # NoBlock
      /\ \A c \in d.blocks : d.num[p][hdr[c].produced] = c
  BY ChainBlock, BlockDagAssumption
<1>2. f \in Nat /\ MaxNumber \in Nat
  BY <1>1, BlockDagAssumption DEF Numbers
<1>3. ASSUME NEW m \in Node, NEW i \in Number, d.num[m][i] \in d.blocks
      PROVE  m = p /\ hdr[d.num[m][i]].produced = i
  BY <1>1, <1>3 DEF ChainInv, NumbersTrue
<1>4. ASSUME NEW c \in S
      PROVE  /\ c \in d.blocks /\ d.last[p] > 0 /\ hdr[c].produced \in Number
             /\ hdr[c].produced > f /\ d.num[p][hdr[c].produced] = c
             /\ \A i \in f + 1 .. hdr[c].produced : HasBlock(d, p, i)
  <2>1. PICK m \in Node, i \in Number :
          /\ d.last[m] > 0 /\ i > numbers[m] /\ c = d.num[m][i]
          /\ \A j \in numbers[m] + 1 .. i : HasBlock(d, m, j)
    BY DEF Served
  <2>2. c \in d.blocks
    BY DEF Served
  <2>3. m = p /\ hdr[c].produced = i
    BY <1>3, <2>1, <2>2
  <2> QED
    BY <2>1, <2>2, <2>3
<1>5. b \in d.blocks /\ b \in sent /\ k \in Number /\ k \in Nat /\ k > f /\ d.last[p] > 0
      /\ \A i \in f + 1 .. k : HasBlock(d, p, i)
  BY <1>1, <1>2, <1>4 DEF Number
<1>6. ASSUME NEW i \in f + 1 .. k - 1
      PROVE  d.num[p][i] \in B /\ hdr[d.num[p][i]].produced = i
  <2>1. i \in Number /\ i \in f + 1 .. k /\ i > f /\ i < k /\ \A j \in f + 1 .. i : j \in f + 1 .. k
    BY <1>2, <1>5 DEF Number
  <2>2. d.num[p][i] \in d.blocks
    BY <1>5, <2>1 DEF HasBlock
  <2>3. hdr[d.num[p][i]].produced = i
    BY <1>1, <1>3, <2>1, <2>2
  <2>4. d.num[p][i] \in S
    BY <1>1, <1>5, <2>1, <2>2 DEF Served
  <2> QED
    BY <2>1, <2>3, <2>4
<1>7. \A c \in B : hdr[c].produced \in f + 1 .. k - 1 /\ d.num[p][hdr[c].produced] = c
  BY <1>2, <1>4, <1>5 DEF Number
<1> HIDE DEF B, S, d, k, f
<1>8. g \in [f + 1 .. k - 1 -> B]
  BY <1>6
<1>9. \A i, j \in f + 1 .. k - 1 : g[i] = g[j] => i = j
  BY <1>6
<1>10. \A c \in B : \E i \in f + 1 .. k - 1 : g[i] = c
  BY <1>7
<1> HIDE DEF g
<1>11. g \in Bijection(f + 1 .. k - 1, B)
  BY <1>8, <1>9, <1>10 DEF Bijection, Injection, Surjection, IsInjective
<1>12. IsFiniteSet(f + 1 .. k - 1) /\ Cardinality(f + 1 .. k - 1) = k - f - 1
  <2>1. f + 1 \in Int /\ k - 1 \in Int
    BY <1>2, <1>5
  <2>2. /\ IsFiniteSet(f + 1 .. k - 1)
        /\ Cardinality(f + 1 .. k - 1) = IF f + 1 > k - 1 THEN 0 ELSE k - 1 - (f + 1) + 1
    BY <2>1, FS_Interval
  <2> QED
    BY <1>2, <1>5, <2>2
<1>13. Cardinality(B) = k - f - 1
  <2>1. ExistsBijection(f + 1 .. k - 1, B)
    BY <1>11 DEF ExistsBijection
  <2>2. Cardinality(B) = Cardinality(f + 1 .. k - 1)
    BY <1>12, <2>1, FS_Bijection
  <2> QED
    BY <1>12, <2>2
<1> QED
  BY <1>2, <1>5, <1>13 DEF B, S, d, k, f

\* A reply goes on from the numbers of the request, without a gap.
LEMMA RepliesGoOn ==
    ASSUME ChainInv, NEW p, Producer = {p}, NEW n \in Node, NEW numbers \in Numbers,
           NEW list \in Replies(db[n], numbers)
    PROVE  \A j \in 1 .. Len(list) :
             list[j].block \in sent /\ hdr[list[j].block].produced = numbers[p] + j
<1> DEFINE S == Served(db[n], numbers)
           s == Merged(S)
<1>1. DagInv /\ NumbersTrue
  BY DEF ChainInv
<1>2. Distinct(S)
  BY <1>1, ServedDistinct
<1>3. PICK k \in 0 .. Len(s) :
        list = [i \in 1 .. k |-> [block |-> s[i], childs |-> db[n].childs[s[i]]]]
  BY DEF Replies
<1>4. /\ Len(s) = Cardinality(S) /\ Cardinality(S) \in Nat
      /\ \A i \in 1 .. Cardinality(S) :
            s[i] \in S /\ Cardinality({c \in S : Before(S, c, s[i])}) = i - 1
  <2> HIDE DEF S
  <2> QED
    BY <1>2, MergedEnumerates
<1>5. \A b \in S : /\ b \in sent /\ hdr[b].produced \in Nat /\ numbers[p] \in Nat
                   /\ Cardinality({c \in S : hdr[c].produced < hdr[b].produced})
                        = hdr[b].produced - numbers[p] - 1
  BY ServedBefore
<1>6. \A b \in S : hdr[b].node = p
  BY <1>5, ChainBlock
<1> HIDE DEF S, s
<1>7. ASSUME NEW j \in 1 .. k
      PROVE  s[j] \in sent /\ hdr[s[j]].produced = numbers[p] + j
  <2> DEFINE b == s[j]
  <2>1. j \in 1 .. Cardinality(S) /\ j \in Nat
    BY <1>3, <1>4
  <2>2. b \in S /\ Cardinality({c \in S : Before(S, c, b)}) = j - 1
    BY <1>4, <2>1
  <2> HIDE DEF b
  <2>3. \A c \in S : Before(S, c, b) <=> hdr[c].produced < hdr[b].produced
    BY <1>2, <1>6, <2>2, BeforeIsOlder
  <2>4. {c \in S : Before(S, c, b)} = {c \in S : hdr[c].produced < hdr[b].produced}
    BY <2>3
  <2>5. /\ b \in sent /\ hdr[b].produced \in Nat /\ numbers[p] \in Nat
        /\ Cardinality({c \in S : hdr[c].produced < hdr[b].produced})
             = hdr[b].produced - numbers[p] - 1
    BY <1>5, <2>2
  <2>6. j - 1 = hdr[b].produced - numbers[p] - 1
    BY <2>2, <2>4, <2>5, Zenon
  <2>7. hdr[b].produced = numbers[p] + j
    BY <2>1, <2>5, <2>6
  <2> QED
    BY <2>5, <2>7 DEF b
<1>8. k \in Nat /\ Len(list) = k /\ \A j \in 1 .. k : list[j].block = s[j]
  BY <1>3, <1>4
<1> QED
  BY <1>7, <1>8

\* After this step, node n has the numbers; node n can go on with the list.
HasNow(n, numbers) == \A m \in Node : numbers[m] <= db'[n].last[m]

GoesOnNow(n, list) ==
    \E f \in 0 .. MaxNumber :
        /\ \A m \in Producer : f <= db'[n].last[m]
        /\ \A j \in 1 .. Len(list) :
              list[j].block \in sent' /\ hdr'[list[j].block].produced = f + j

\* What node n may broadcast, what it may send to m, and what tasks may be for.
PostFrom(n) == {msg \in Post' : msg.type = "request" => HasNow(n, msg.numbers)}

MessageFrom(n, m) ==
    {msg \in Message' : /\ msg.type = "request" => HasNow(n, msg.numbers)
                        /\ msg.type = "reply" => GoesOnNow(m, msg.list)}

JobFor == {job \in Job' : job.kind = "serve" => HasNow(job.peer, job.numbers)}

\* A step that sends, broadcasts and schedules nothing else.
Orderly(o, l, j) ==
    /\ \A n \in Node : o[n] \in Seq(PostFrom(n))
    /\ \A n, m \in Node : l[n][m] \in Seq(MessageFrom(n, m))
    /\ \A n \in Node : j[n] \in Seq(JobFor)

\* Elements of a typed sequence.
LEMMA SeqOf ==
    ASSUME NEW A, NEW B, NEW s \in Seq(A), \A i \in 1 .. Len(s) : s[i] \in B
    PROVE  s \in Seq(B)
<1>1. Len(s) \in Nat /\ s \in [1 .. Len(s) -> A]
  OBVIOUS
<1>2. s \in [1 .. Len(s) -> B]
  BY <1>1
<1> QED
  BY <1>1, <1>2

\* What was in order still is.
LEMMA StillOrderly ==
    ASSUME OrderInv, [SyncNext]_syncVars
    PROVE  Orderly(out, link, jobs)
<1>1. SyncInv /\ DagInv /\ NetTypeOK /\ RequestsHad /\ RepliesConsecutive
  BY DEF OrderInv, SyncInv
<1>2. /\ SyncInv' /\ DagStep
      /\ \A n, m \in Node : db[n].last[m] <= db'[n].last[m]
  BY <1>1, SyncInvStep
<1>3. /\ Extends /\ sent \subseteq sent' /\ \A c \in made : hdr'[c] = hdr[c]
      /\ \A c \in sent : c \in made
  BY <1>1, <1>2 DEF DagStep, Extends, DagInv, SentCounted
<1>4. MaxNumber \in Nat /\ \A n, m \in Node : db[n].last[m] \in Nat /\ db'[n].last[m] \in Nat
  <2>1. db \in [Node -> ChainDatabase] /\ db' \in [Node -> ChainDatabase]
    BY <1>1, <1>2 DEF SyncInv, DagInv, TypeOK
  <2> QED
    BY <2>1, BlockDagAssumption DEF ChainDatabase
<1>5. ASSUME NEW n \in Node, NEW numbers \in Numbers, \A m \in Node : numbers[m] <= db[n].last[m]
      PROVE  HasNow(n, numbers)
  <2>1. \A m \in Node : numbers[m] \in Nat
    BY <1>4 DEF Numbers
  <2> QED
    BY <1>2, <1>4, <1>5, <2>1 DEF HasNow
<1>6. ASSUME NEW n \in Node, NEW list, Consecutive(n, list) PROVE GoesOnNow(n, list)
  <2>1. PICK f \in 0 .. MaxNumber :
          /\ \A m \in Producer : f <= db[n].last[m]
          /\ \A j \in 1 .. Len(list) :
                list[j].block \in sent /\ hdr[list[j].block].produced = f + j
    BY <1>6 DEF Consecutive
  <2>2. \A m \in Producer : f <= db'[n].last[m]
    BY <1>2, <1>4, <2>1, BlockDagAssumption
  <2>3. \A j \in 1 .. Len(list) :
          list[j].block \in sent' /\ hdr'[list[j].block].produced = f + j
    BY <1>3, <2>1
  <2> QED
    BY <2>1, <2>2, <2>3 DEF GoesOnNow
<1>7. /\ link \in [Node -> [Node -> Seq(Message')]] /\ jobs \in [Node -> Seq(Job')]
      /\ out \in [Node -> Seq(Post')]
  BY <1>1, <1>3, CarriesOn DEF Carries
<1>8. /\ out \in [Node -> Seq(Post)] /\ link \in [Node -> [Node -> Seq(Message)]]
      /\ jobs \in [Node -> Seq(Job)]
  BY <1>1 DEF NetTypeOK
<1>9. \A msg \in Message : msg.type = "request" => msg.numbers \in Numbers
  BY DEF Message, Post
<1>10. \A msg \in Post : msg.type = "request" => msg.numbers \in Numbers
  BY DEF Post
<1>11. \A job \in Job : job.peer \in Node /\ (job.kind = "serve" => job.numbers \in Numbers)
  BY DEF Job
<1>12. ASSUME NEW n \in Node PROVE out[n] \in Seq(PostFrom(n))
  <2>1. ASSUME NEW i \in 1 .. Len(out[n]) PROVE out[n][i] \in PostFrom(n)
    <3>1. out[n][i] \in Post' /\ out[n][i] \in Post
      BY <1>7, <1>8
    <3>2. out[n][i].type = "request" => \A m \in Node : out[n][i].numbers[m] <= db[n].last[m]
      BY <1>1 DEF RequestsHad, Had
    <3>3. out[n][i].type = "request" => HasNow(n, out[n][i].numbers)
      BY <1>5, <1>10, <3>1, <3>2
    <3> QED
      BY <3>1, <3>3 DEF PostFrom
  <2>2. out[n] \in Seq(Post')
    BY <1>7
  <2> QED
    BY <2>1, <2>2, SeqOf
<1>13. ASSUME NEW n \in Node, NEW m \in Node PROVE link[n][m] \in Seq(MessageFrom(n, m))
  <2> DEFINE s == link[n][m]
  <2>1. ASSUME NEW i \in 1 .. Len(s) PROVE s[i] \in MessageFrom(n, m)
    <3>1. s[i] \in Message' /\ s[i] \in Message
      BY <1>7, <1>8
    <3>2. s[i].type = "request" => \A k \in Node : s[i].numbers[k] <= db[n].last[k]
      BY <1>1 DEF RequestsHad, Had
    <3>3. s[i].type = "request" => HasNow(n, s[i].numbers)
      BY <1>5, <1>9, <3>1, <3>2
    <3>4. s[i].type = "reply" => Consecutive(m, s[i].list)
      BY <1>1 DEF RepliesConsecutive
    <3>5. s[i].type = "reply" => GoesOnNow(m, s[i].list)
      BY <1>6, <3>4
    <3> QED
      BY <3>1, <3>3, <3>5 DEF MessageFrom
  <2>2. s \in Seq(Message')
    BY <1>7
  <2> HIDE DEF s
  <2>3. s \in Seq(MessageFrom(n, m))
    BY <2>1, <2>2, SeqOf
  <2> QED
    BY <2>3 DEF s
<1>14. ASSUME NEW n \in Node PROVE jobs[n] \in Seq(JobFor)
  <2> DEFINE s == jobs[n]
  <2>1. ASSUME NEW i \in 1 .. Len(s) PROVE s[i] \in JobFor
    <3>1. s[i] \in Job' /\ s[i] \in Job /\ s[i].peer \in Node
      BY <1>7, <1>8, <1>11
    <3>2. s[i].kind = "serve" => \A k \in Node : s[i].numbers[k] <= db[s[i].peer].last[k]
      BY <1>1, <3>1 DEF RequestsHad, Had
    <3>3. s[i].kind = "serve" => HasNow(s[i].peer, s[i].numbers)
      BY <1>5, <1>11, <3>1, <3>2
    <3> QED
      BY <3>1, <3>3 DEF JobFor
  <2>2. s \in Seq(Job')
    BY <1>7
  <2> HIDE DEF s
  <2>3. s \in Seq(JobFor)
    BY <2>1, <2>2, SeqOf
  <2> QED
    BY <2>3 DEF s
<1> QED
  BY <1>12, <1>13, <1>14 DEF Orderly

LEMMA SendOrderly ==
    ASSUME NEW M, NEW l \in [Node -> [Node -> Seq(M)]],
           \A q, r \in Node : l[q][r] \in Seq(MessageFrom(q, r)),
           NEW n \in Node, NEW m \in Node, NEW msg \in MessageFrom(n, m)
    PROVE  \A q, r \in Node : SendTo(l, n, m, msg)[q][r] \in Seq(MessageFrom(q, r))
<1>1. Append(l[n][m], msg) \in Seq(MessageFrom(n, m))
  OBVIOUS
<1>2. \A q, r \in Node : \/ SendTo(l, n, m, msg)[q][r] = l[q][r]
                         \/ q = n /\ r = m /\ SendTo(l, n, m, msg)[q][r] = Append(l[n][m], msg)
  BY DEF SendTo
<1> QED
  BY <1>1, <1>2

LEMMA ConsumeOrderly ==
    ASSUME NEW M, link \in [Node -> [Node -> Seq(M)]],
           \A q, r \in Node : link[q][r] \in Seq(MessageFrom(q, r)),
           NEW n \in Node, NEW m \in Node, link[m][n] # <<>>
    PROVE  /\ \A q, r \in Node : Consumed(n, m)[q][r] \in Seq(MessageFrom(q, r))
           /\ Head(link[m][n]) \in MessageFrom(m, n)
<1>1. Tail(link[m][n]) \in Seq(MessageFrom(m, n)) /\ Head(link[m][n]) \in MessageFrom(m, n)
  OBVIOUS
<1>2. \A q, r \in Node : \/ Consumed(n, m)[q][r] = link[q][r]
                         \/ q = m /\ r = n /\ Consumed(n, m)[q][r] = Tail(link[m][n])
  BY DEF Consumed
<1> QED
  BY <1>1, <1>2

LEMMA OrderlyStep ==
    ASSUME OrderInv, OneProducer, SyncNext
    PROVE  Orderly(out', link', jobs')
<1>1. SyncInv /\ ChainInv /\ DagInv /\ NetTypeOK
  BY DEF OrderInv, SyncInv
<1>2. /\ SyncInv' /\ DagStep
      /\ \A n, m \in Node : db[n].last[m] <= db'[n].last[m]
  BY <1>1, SyncInvStep
<1>3. /\ \A n \in Node : out[n] \in Seq(PostFrom(n))
      /\ \A n, m \in Node : link[n][m] \in Seq(MessageFrom(n, m))
      /\ \A n \in Node : jobs[n] \in Seq(JobFor)
  BY StillOrderly DEF Orderly
<1>4. Extends /\ Post' = Post /\ Message \subseteq Message' /\ Job \subseteq Job' /\ Post \subseteq Message
  BY <1>2, SetsGrow DEF DagStep, Message
<1>5. /\ out \in [Node -> Seq(Post)] /\ link \in [Node -> [Node -> Seq(Message)]]
      /\ jobs \in [Node -> Seq(Job)]
  BY <1>1 DEF NetTypeOK
<1>6. ASSUME NEW n \in Node
      PROVE  /\ RequestMsg(db[n]) \in PostFrom(n)
             /\ \A m \in Node : RequestMsg(db[n]) \in MessageFrom(n, m)
  <2>1. RequestMsg(db[n]) \in Post
    BY <1>1, RequestType
  <2>2. RequestMsg(db[n]).type = "request" /\ HasNow(n, RequestMsg(db[n]).numbers)
    BY <1>2 DEF RequestMsg, HasNow
  <2> QED
    BY <1>4, <2>1, <2>2 DEF PostFrom, MessageFrom
<1>7. ASSUME NEW n \in Node, NEW m \in Node, link[m][n] # <<>>
      PROVE  /\ \A q, r \in Node : Consumed(n, m)[q][r] \in Seq(MessageFrom(q, r))
             /\ Head(link[m][n]) \in MessageFrom(m, n) /\ Head(link[m][n]) \in Message
             /\ Consumed(n, m) \in [Node -> [Node -> Seq(Message)]]
  BY <1>3, <1>5, <1>7, ConsumeOrderly, ConsumedType
<1>8. ASSUME NEW n \in Node, jobs[n] # <<>>
      PROVE  /\ \A q \in Node : [jobs EXCEPT ![n] = Tail(@)][q] \in Seq(JobFor)
             /\ Head(jobs[n]) \in JobFor /\ Head(jobs[n]) \in Job /\ Head(jobs[n]).peer \in Node
  <2>1. Tail(jobs[n]) \in Seq(JobFor) /\ Head(jobs[n]) \in JobFor
    BY <1>3, <1>8
  <2>2. Head(jobs[n]) \in Job
    BY <1>5, <1>8
  <2>3. Head(jobs[n]).peer \in Node
    BY <2>2 DEF Job
  <2> QED
    BY <1>3, <1>5, <2>1, <2>2, <2>3
<1>9. ASSUME NEW n \in Node, AdvertiseLoop(n) PROVE Orderly(out', link', jobs')
  <2>1. ASSUME NEW m \in Node PROVE link[n][m] \o out[n] \in Seq(MessageFrom(n, m))
    <3>1. PostFrom(n) \subseteq MessageFrom(n, m)
      <4>1. \A msg \in Post : msg.type # "reply"
        BY DEF Post
      <4> QED
        BY <1>4, <4>1 DEF PostFrom, MessageFrom
    <3>2. out[n] \in Seq(MessageFrom(n, m))
      BY <1>3, <3>1, SeqMonotonic
    <3> QED
      BY <1>3, <3>2
  <2>2. \A q, r \in Node : link'[q][r] \in Seq(MessageFrom(q, r))
    BY <1>3, <1>5, <1>9, <2>1 DEF AdvertiseLoop
  <2>3. \A q \in Node : out'[q] \in Seq(PostFrom(q))
    BY <1>3, <1>5, <1>9 DEF AdvertiseLoop
  <2>4. jobs' = jobs
    BY <1>9 DEF AdvertiseLoop, client
  <2> QED
    BY <1>3, <2>2, <2>3, <2>4 DEF Orderly
<1>10. ASSUME NEW n \in Node, DelegateLoop(n) PROVE Orderly(out', link', jobs')
  <2>1. Broadcast(n) /\ UNCHANGED client
    BY <1>10 DEF DelegateLoop
  <2> DEFINE msg == BlockMsg(CHOOSE b \in sent' : b \notin sent)
  <2>2. ASSUME sent' # sent PROVE msg \in PostFrom(n)
    <3>1. sent \subseteq sent' /\ sent' \subseteq BlockId
      BY <1>2 DEF DagStep, SyncInv, DagInv, TypeOK
    <3>2. (CHOOSE b \in sent' : b \notin sent) \in BlockId
      BY <2>2, <3>1
    <3>3. msg \in Post /\ msg.type # "request"
      BY <3>2 DEF BlockMsg, Post
    <3> HIDE DEF msg
    <3> QED
      BY <1>4, <3>3 DEF PostFrom
  <2>3. out' = out \/ (sent' # sent /\ out' = [out EXCEPT ![n] = Append(@, msg)])
    BY <1>5, <2>1 DEF Broadcast
  <2> HIDE DEF msg
  <2>4. \A q \in Node : out'[q] \in Seq(PostFrom(q))
    <3>1. CASE out' = out
      BY <1>3, <3>1
    <3>2. CASE sent' # sent /\ out' = [out EXCEPT ![n] = Append(@, msg)]
      <4>1. Append(out[n], msg) \in Seq(PostFrom(n))
        BY <1>3, <2>2, <3>2
      <4> QED
        BY <1>3, <1>5, <3>2, <4>1
    <3> QED
      BY <2>3, <3>1, <3>2
  <2>5. link' = link /\ jobs' = jobs
    BY <2>1 DEF Broadcast, client
  <2> QED
    BY <1>3, <2>4, <2>5 DEF Orderly
<1>11. ASSUME NEW n \in Node, Reschedule(n) PROVE Orderly(out', link', jobs')
  <2>1. link' = link /\ jobs' = jobs /\ out' = out
    BY <1>11 DEF Reschedule, net, client
  <2> QED
    BY <1>3, <2>1 DEF Orderly
<1>12. ASSUME NEW n \in Node, SyncLoop(n) PROVE Orderly(out', link', jobs')
  <2>1. out' = [out EXCEPT ![n] = Append(@, RequestMsg(db[n]))] /\ link' = link /\ jobs' = jobs
    BY <1>12 DEF SyncLoop
  <2>2. Append(out[n], RequestMsg(db[n])) \in Seq(PostFrom(n))
    BY <1>3, <1>6
  <2>3. \A q \in Node : out'[q] \in Seq(PostFrom(q))
    BY <1>3, <1>5, <2>1, <2>2
  <2> QED
    BY <1>3, <2>1, <2>3 DEF Orderly
<1>13. ASSUME NEW n \in Node, ServeTask(n) PROVE Orderly(out', link', jobs')
  <2> DEFINE job == Head(jobs[n])
  <2>1. jobs[n] # <<>> /\ job.kind = "serve" /\ out' = out /\ UNCHANGED vars
        /\ jobs' = [jobs EXCEPT ![n] = Tail(@)]
    BY <1>13 DEF ServeTask, Starts
  <2>2. PICK list \in Replies(db[n], job.numbers) :
          link' = IF list = <<>> THEN link ELSE SendTo(link, n, job.peer, ReplyMsg(list))
    BY <1>13 DEF ServeTask
  <2>3. job \in JobFor /\ job \in Job /\ job.peer \in Node
    BY <1>8, <2>1
  <2> HIDE DEF job
  <2>4. job.numbers \in Numbers /\ HasNow(job.peer, job.numbers)
    BY <2>1, <2>3 DEF Job, JobFor
  <2>5. PICK p : Producer = {p}
    BY DEF OneProducer
  <2>6. \A j \in 1 .. Len(list) :
          list[j].block \in sent /\ hdr[list[j].block].produced = job.numbers[p] + j
    BY <1>1, <2>4, <2>5, RepliesGoOn
  <2>7. p \in Node /\ job.numbers[p] \in 0 .. MaxNumber
    BY <2>4, <2>5, BlockDagAssumption DEF Numbers
  <2>8. GoesOnNow(job.peer, list)
    <3>1. \A m \in Producer : job.numbers[p] <= db'[job.peer].last[m]
      BY <2>4, <2>5, <2>7 DEF HasNow
    <3>2. \A j \in 1 .. Len(list) :
            list[j].block \in sent' /\ hdr'[list[j].block].produced = job.numbers[p] + j
      BY <2>1, <2>6 DEF vars
    <3> QED
      BY <2>7, <3>1, <3>2 DEF GoesOnNow
  <2>9. ReplyMsg(list) \in Message
    <3>1. list \in Seq(Item)
      BY <1>1, RepliesType DEF SyncInv
    <3> QED
      BY <3>1 DEF ReplyMsg, Message
  <2>10. ReplyMsg(list) \in MessageFrom(n, job.peer)
    <3>1. ReplyMsg(list).type = "reply" /\ ReplyMsg(list).list = list
      BY DEF ReplyMsg
    <3> QED
      BY <1>4, <2>8, <2>9, <3>1 DEF MessageFrom
  <2>11. \A q, r \in Node : SendTo(link, n, job.peer, ReplyMsg(list))[q][r] \in Seq(MessageFrom(q, r))
    BY <1>3, <1>5, <2>3, <2>10, SendOrderly
  <2>12. \A q, r \in Node : link'[q][r] \in Seq(MessageFrom(q, r))
    BY <1>3, <2>2, <2>11
  <2>13. \A q \in Node : jobs'[q] \in Seq(JobFor)
    BY <1>8, <2>1
  <2> QED
    BY <1>3, <2>1, <2>12, <2>13 DEF Orderly
<1>14. ASSUME NEW n \in Node, PushTask(n) PROVE Orderly(out', link', jobs')
  <2>1. /\ Starts(n, "push") /\ Head(jobs[n]).list # <<>> /\ out' = out /\ link' = link
        /\ \/ jobs' = [jobs EXCEPT ![n][1].list = Tail(@)]
           \/ jobs' = [jobs EXCEPT ![n] = Tail(@)]
    BY <1>14 DEF PushTask, net
  <2>2. /\ jobs[n] \in Seq(Job) /\ jobs[n] # <<>> /\ Head(jobs[n]) = jobs[n][1]
        /\ Head(jobs[n]) \in [kind : {"push"}, peer : Node, list : Seq(Item)]
    BY <1>1, <2>1, NextItem
  <2> DEFINE j == [jobs[n][1] EXCEPT !.list = Tail(@)]
  <2>3. Tail(jobs[n][1].list) \in Seq(Item)
    BY <2>1, <2>2
  <2>4. j \in [kind : {"push"}, peer : Node, list : Seq(Item)]
    BY <2>2, <2>3
  <2>5. [jobs EXCEPT ![n][1].list = Tail(@)] = [jobs EXCEPT ![n] = [jobs[n] EXCEPT ![1] = j]]
    OBVIOUS
  <2> HIDE DEF j
  <2>6. j \in Job /\ j.kind # "serve"
    BY <2>4 DEF Job
  <2>7. j \in JobFor
    BY <1>4, <2>6 DEF JobFor
  <2>8. jobs[n] \in Seq(JobFor) /\ 1 \in 1 .. Len(jobs[n])
    BY <1>3, <2>2
  <2>9. [jobs[n] EXCEPT ![1] = j] \in Seq(JobFor)
    BY <2>7, <2>8, ExceptSeq
  <2>10. \A q \in Node : [jobs EXCEPT ![n] = [jobs[n] EXCEPT ![1] = j]][q] \in Seq(JobFor)
    BY <1>3, <1>5, <2>9
  <2>11. \A q \in Node : jobs'[q] \in Seq(JobFor)
    BY <1>8, <2>1, <2>2, <2>5, <2>10
  <2> QED
    BY <1>3, <2>1, <2>11 DEF Orderly
<1>15. ASSUME NEW n \in Node, PushTaskDone(n) PROVE Orderly(out', link', jobs')
  <2>1. /\ jobs[n] # <<>> /\ out' = out /\ jobs' = [jobs EXCEPT ![n] = Tail(@)]
        /\ link' = SendTo(link, n, Head(jobs[n]).peer, RequestMsg(db[n]))
    BY <1>15 DEF PushTaskDone, Starts
  <2>2. Head(jobs[n]).peer \in Node /\ \A q \in Node : jobs'[q] \in Seq(JobFor)
    BY <1>8, <2>1
  <2>3. \A q, r \in Node : link'[q][r] \in Seq(MessageFrom(q, r))
    BY <1>3, <1>5, <1>6, <2>1, <2>2, SendOrderly
  <2> QED
    BY <1>3, <2>1, <2>2, <2>3 DEF Orderly
<1>16. ASSUME NEW n \in Node, NEW m \in Node, DropMessage(n, m) \/ AcceptBlock(n, m)
       PROVE  Orderly(out', link', jobs')
  <2>1. link[m][n] # <<>> /\ link' = Consumed(n, m) /\ out' = out /\ jobs' = jobs
    BY <1>16 DEF DropMessage, AcceptBlock, Receives, client
  <2> QED
    BY <1>3, <1>7, <2>1 DEF Orderly
<1>17. ASSUME NEW n \in Node, NEW m \in Node, AskSender(n, m) PROVE Orderly(out', link', jobs')
  <2>1. /\ link[m][n] # <<>> /\ out' = out /\ jobs' = jobs
        /\ \/ link' = Consumed(n, m)
           \/ link' = SendTo(Consumed(n, m), n, m, RequestMsg(db[n]))
    BY <1>17 DEF AskSender, Receives
  <2>2. /\ \A q, r \in Node : Consumed(n, m)[q][r] \in Seq(MessageFrom(q, r))
        /\ Consumed(n, m) \in [Node -> [Node -> Seq(Message)]]
    BY <1>7, <2>1
  <2>3. \A q, r \in Node :
          SendTo(Consumed(n, m), n, m, RequestMsg(db[n]))[q][r] \in Seq(MessageFrom(q, r))
    BY <1>6, <2>2, SendOrderly
  <2>4. \A q, r \in Node : link'[q][r] \in Seq(MessageFrom(q, r))
    BY <2>1, <2>2, <2>3
  <2> QED
    BY <1>3, <2>1, <2>4 DEF Orderly
<1>18. ASSUME NEW n \in Node, NEW m \in Node, RequestSent(n, m) \/ Connect(n, m)
       PROVE  Orderly(out', link', jobs')
  <2>1. link' = link /\ jobs' = jobs /\ out' = out
    BY <1>18 DEF RequestSent, Connect, net, client
  <2> QED
    BY <1>3, <2>1 DEF Orderly
<1>19. ASSUME NEW n \in Node, NEW m \in Node, OnSyncRequest(n, m) PROVE Orderly(out', link', jobs')
  <2> DEFINE msg == Head(link[m][n])
             job == [kind |-> "serve", peer |-> m, numbers |-> msg.numbers]
  <2>1. /\ link[m][n] # <<>> /\ msg.type = "request" /\ link' = Consumed(n, m) /\ out' = out
        /\ jobs' = jobs \/ jobs' = [jobs EXCEPT ![n] = Append(@, job)]
    BY <1>19 DEF OnSyncRequest, Receives
  <2>2. msg \in MessageFrom(m, n) /\ msg \in Message
    BY <1>7, <2>1
  <2>3. msg.numbers \in Numbers /\ HasNow(m, msg.numbers)
    BY <2>1, <2>2 DEF Message, Post, MessageFrom
  <2> HIDE DEF msg
  <2>4. job \in Job /\ job.peer = m /\ job.numbers = msg.numbers
    BY <2>3 DEF Job
  <2> HIDE DEF job
  <2>5. job \in JobFor
    BY <1>4, <2>3, <2>4 DEF JobFor
  <2>6. \A q \in Node : jobs'[q] \in Seq(JobFor)
    <3>1. Append(jobs[n], job) \in Seq(JobFor)
      BY <1>3, <2>5
    <3>2. \A q \in Node : [jobs EXCEPT ![n] = Append(@, job)][q] \in Seq(JobFor)
      BY <1>3, <1>5, <3>1
    <3> QED
      BY <1>3, <2>1, <3>2
  <2> QED
    BY <1>3, <1>7, <2>1, <2>6 DEF Orderly
<1>20. ASSUME NEW n \in Node, NEW m \in Node, OnSyncReply(n, m) PROVE Orderly(out', link', jobs')
  <2> DEFINE list == NewBlocks(db[n], Head(link[m][n]).list)
             job  == [kind |-> "push", peer |-> m, list |-> list]
  <2>1. /\ link[m][n] # <<>> /\ Head(link[m][n]).type = "reply" /\ link' = Consumed(n, m)
        /\ out' = out
        /\ jobs' = jobs \/ jobs' = [jobs EXCEPT ![n] = Append(@, job)]
    BY <1>20 DEF OnSyncReply, Receives
  <2>2. Head(link[m][n]).list \in Seq(Item)
    <3>1. Head(link[m][n]) \in Message
      BY <1>7, <2>1
    <3> QED
      BY <2>1, <3>1 DEF Message, Post
  <2>3. list \in Seq(Item)
    BY <2>2, NewBlocksType
  <2>4. job \in Job /\ job.kind # "serve"
    BY <2>3 DEF Job
  <2> HIDE DEF job
  <2>5. job \in JobFor
    BY <1>4, <2>4 DEF JobFor
  <2>6. \A q \in Node : jobs'[q] \in Seq(JobFor)
    <3>1. Append(jobs[n], job) \in Seq(JobFor)
      BY <1>3, <2>5
    <3>2. \A q \in Node : [jobs EXCEPT ![n] = Append(@, job)][q] \in Seq(JobFor)
      BY <1>3, <1>5, <3>1
    <3> QED
      BY <1>3, <2>1, <3>2
  <2> QED
    BY <1>3, <1>7, <2>1, <2>6 DEF Orderly
<1>21. ASSUME NEW n \in Node, NEW m \in Node, Disconnect(n, m) PROVE Orderly(out', link', jobs')
  <2>1. link' = [link EXCEPT ![n][m] = <<>>, ![m][n] = <<>>] /\ out' = out /\ jobs' = jobs
    BY <1>21 DEF Disconnect, client
  <2>2. \A q, r \in Node : link'[q][r] = link[q][r] \/ link'[q][r] = <<>>
    <3> DEFINE l == [link EXCEPT ![n][m] = <<>>]
    <3>1. /\ l \in [Node -> [Node -> Seq(Message)]]
          /\ \A q, r \in Node : l[q][r] = link[q][r] \/ l[q][r] = <<>>
      BY <1>5
    <3>2. link' = [l EXCEPT ![m][n] = <<>>]
      BY <2>1
    <3> HIDE DEF l
    <3>3. \A q, r \in Node : link'[q][r] = l[q][r] \/ link'[q][r] = <<>>
      BY <3>1, <3>2
    <3> QED
      BY <3>1, <3>3
  <2>3. ASSUME NEW q \in Node, NEW r \in Node PROVE link'[q][r] \in Seq(MessageFrom(q, r))
    <3>1. <<>> \in Seq(MessageFrom(q, r)) /\ link[q][r] \in Seq(MessageFrom(q, r))
      BY <1>3
    <3>2. link'[q][r] = link[q][r] \/ link'[q][r] = <<>>
      BY <2>2
    <3> QED
      BY <3>1, <3>2, Zenon
  <2> QED
    BY <1>3, <2>1, <2>3 DEF Orderly
<1> QED
  BY <1>9, <1>10, <1>11, <1>12, <1>13, <1>14, <1>15, <1>16, <1>17, <1>18, <1>19, <1>20, <1>21
  DEF SyncNext, Task, HandleMessage

\* The invariant of a chain with one producer is inductive.
LEMMA OrderStep ==
    ASSUME OrderInv, OneProducer, [SyncNext]_syncVars
    PROVE  OrderInv'
<1>1. SyncInv /\ ChainInv /\ ParentsBefore
  BY DEF OrderInv
<1>2. SyncInv' /\ DagStep
  BY <1>1, SyncInvStep
<1>3. /\ ChainInv'
      /\ \/ Quiet
         \/ \E p \in Producer, b \in BlockId : Produces(p, b)
         \/ \E n \in Node, b \in BlockId : Arrives(n, b)
  BY <1>1, ChainStep
<1>4. \A c \in sent : c \in made /\ hdr'[c] = hdr[c] /\ c \in sent'
  BY <1>1, <1>2 DEF DagStep, Extends, SyncInv, DagInv, SentCounted
<1>5. ParentsBefore'
  <2>1. CASE sent' = sent
    BY <1>1, <1>4, <2>1 DEF ParentsBefore
  <2>2. ASSUME NEW p \in Producer, NEW b \in BlockId, Produces(p, b), sent' = sent \cup {b}
        PROVE  ParentsBefore'
    <3>1. Producer = {p}
      BY DEF OneProducer
    <3>2. /\ p \in Node
          /\ \A c \in db[p].blocks : c \in sent /\ hdr[c].produced <= db[p].last[p]
          /\ \A c \in sent : hdr[c] \in Header
      BY <1>1, <3>1, ChainBlock
    <3>3. db[p].last[p] \in Nat /\ \A c \in sent : hdr[c].produced \in Nat
      <4>1. db[p].last[p] \in 0 .. MaxNumber
        BY <1>1, <3>1, <3>2, ChainBlock
      <4> QED
        BY <3>2, <4>1, BlockDagAssumption DEF Header, Number
    <3>4. hdr'[b].parents \subseteq db[p].blocks /\ hdr'[b].produced = db[p].last[p] + 1
      BY <2>2, CandidatesStored DEF Produces
    <3>5. \A c \in hdr'[b].parents : c \in sent' /\ hdr'[c].produced < hdr'[b].produced
      BY <1>4, <3>2, <3>3, <3>4
    <3>6. \A a \in sent : \A c \in hdr[a].parents :
            c \in sent' /\ hdr'[c].produced < hdr'[a].produced
      BY <1>1, <1>4 DEF ParentsBefore
    <3> QED
      BY <1>4, <2>2, <3>5, <3>6 DEF ParentsBefore
  <2>3. sent' = sent \/ \E p \in Producer, b \in BlockId : Produces(p, b) /\ sent' = sent \cup {b}
    BY <1>3 DEF Quiet, Produces, Arrives
  <2> QED
    BY <2>1, <2>2, <2>3
<1>6. Orderly(out', link', jobs')
  <2>1. CASE SyncNext
    BY <2>1, OrderlyStep
  <2>2. CASE UNCHANGED syncVars
    BY <2>2, StillOrderly DEF syncVars, net, client
  <2> QED
    BY <2>1, <2>2
<1>7. RequestsHad'
  <2>1. ASSUME NEW n \in Node, NEW i \in 1 .. Len(out'[n]), out'[n][i].type = "request"
        PROVE  HasNow(n, out'[n][i].numbers)
    <3>1. out'[n] \in Seq(PostFrom(n))
      BY <1>6 DEF Orderly
    <3>2. out'[n][i] \in PostFrom(n)
      BY <3>1
    <3> QED
      BY <2>1, <3>2 DEF PostFrom
  <2>2. ASSUME NEW n \in Node, NEW m \in Node, NEW i \in 1 .. Len(link'[n][m]),
               link'[n][m][i].type = "request"
        PROVE  HasNow(n, link'[n][m][i].numbers)
    <3>1. link'[n][m] \in Seq(MessageFrom(n, m))
      BY <1>6 DEF Orderly
    <3>2. link'[n][m][i] \in MessageFrom(n, m)
      BY <3>1
    <3> QED
      BY <2>2, <3>2 DEF MessageFrom
  <2>3. ASSUME NEW m \in Node, NEW i \in 1 .. Len(jobs'[m]), jobs'[m][i].kind = "serve"
        PROVE  HasNow(jobs'[m][i].peer, jobs'[m][i].numbers)
    <3>1. jobs'[m] \in Seq(JobFor)
      BY <1>6 DEF Orderly
    <3>2. jobs'[m][i] \in JobFor
      BY <3>1
    <3> QED
      BY <2>3, <3>2 DEF JobFor
  <2> QED
    BY <2>1, <2>2, <2>3 DEF RequestsHad, Had, HasNow
<1>8. RepliesConsecutive'
  <2> SUFFICES ASSUME NEW n \in Node, NEW m \in Node, NEW i \in 1 .. Len(link'[m][n]),
                      link'[m][n][i].type = "reply"
               PROVE  GoesOnNow(n, link'[m][n][i].list)
    BY DEF RepliesConsecutive, Consecutive, GoesOnNow
  <2>1. link'[m][n] \in Seq(MessageFrom(m, n))
    BY <1>6 DEF Orderly
  <2>2. link'[m][n][i] \in MessageFrom(m, n)
    BY <2>1
  <2> QED
    BY <2>2 DEF MessageFrom
<1> QED
  BY <1>2, <1>3, <1>5, <1>7, <1>8 DEF OrderInv

LEMMA OrderInit == SyncInit => OrderInv
<1> SUFFICES ASSUME SyncInit PROVE OrderInv
  OBVIOUS
<1>1. SyncInv /\ ChainInv
  BY SyncInvInit, ChainInit
<1>2. sent = {}
  BY DEF SyncInit, Init
<1>3. /\ \A n \in Node : Len(out[n]) = 0 /\ Len(jobs[n]) = 0
      /\ \A n, m \in Node : Len(link[n][m]) = 0
  BY DEF SyncInit
<1> QED
  BY <1>1, <1>2, <1>3 DEF OrderInv, ParentsBefore, RequestsHad, RepliesConsecutive

\* Consecutive blocks after the ones that a node has are parents first.
LEMMA OrderIsParentsFirst ==
    ASSUME OrderInv, OneProducer
    PROVE  ReplyInOrder
<1>1. PICK p : Producer = {p}
  BY DEF OneProducer
<1>2. SyncInv /\ ChainInv /\ NoGap /\ NumbersTrue /\ NetTypeOK
  BY DEF OrderInv, ChainInv, SyncInv
<1>3. /\ p \in Node
      /\ \A b \in sent : hdr[b] \in Header
      /\ \A b, c \in sent : hdr[b].produced = hdr[c].produced => b = c
      /\ \A n \in Node : \A b \in db[n].blocks : b \in sent
      /\ \A n, m \in Node : db[n].last[m] \in 0 .. MaxNumber
  BY <1>1, <1>2, ChainBlock
<1>4. ASSUME NEW n \in Node, NEW m \in Node, NEW i \in 1 .. Len(link[m][n]),
             link[m][n][i].type = "reply",
             NEW j \in 1 .. Len(link[m][n][i].list),
             NEW c \in hdr[link[m][n][i].list[j].block].parents
      PROVE  c \in db[n].blocks \cup {link[m][n][i].list[k].block : k \in 1 .. j - 1}
  <2> DEFINE list == link[m][n][i].list
             b == list[j].block
  <2>1. Consecutive(n, list)
    BY <1>4 DEF OrderInv, RepliesConsecutive
  <2>2. list \in Seq(Item)
    <3>1. link[m][n][i] \in Message
      BY <1>2 DEF NetTypeOK
    <3> QED
      BY <1>4, <3>1 DEF Message, Post
  <2> HIDE DEF list
  <2>3. PICK f \in 0 .. MaxNumber :
          /\ f <= db[n].last[p]
          /\ \A k \in 1 .. Len(list) :
                list[k].block \in sent /\ hdr[list[k].block].produced = f + k
    BY <1>1, <2>1 DEF Consecutive
  <2>4. j \in 1 .. Len(list) /\ Len(list) \in Nat /\ c \in hdr[b].parents
    BY <1>4, <2>2 DEF list
  <2>5. b \in sent /\ hdr[b].produced = f + j
    BY <2>3, <2>4
  <2>6. c \in sent /\ hdr[c].produced < f + j
    BY <2>4, <2>5 DEF OrderInv, ParentsBefore
  <2>7. hdr[c].produced \in Number /\ hdr[c].produced \in Nat /\ hdr[c].produced > 0 /\ f \in Nat
    BY <1>3, <2>6, BlockDagAssumption DEF Header, Number
  <2>8. CASE hdr[c].produced > f
    <3> DEFINE k == hdr[c].produced - f
    <3>1. k \in 1 .. j - 1 /\ k \in 1 .. Len(list) /\ f + k = hdr[c].produced
      <4>1. j \in Nat /\ j <= Len(list) /\ Len(list) \in Nat /\ f \in Nat
        BY <2>4, <2>7
      <4>2. \A x \in Nat : x > f /\ x < f + j =>
              x - f \in 1 .. j - 1 /\ x - f \in 1 .. Len(list) /\ f + (x - f) = x
        BY <4>1
      <4> QED
        BY <2>6, <2>7, <2>8, <4>2
    <3>2. list[k].block = c
      BY <1>3, <2>3, <2>6, <3>1
    <3> QED
      BY <3>1, <3>2 DEF list
  <2>9. CASE hdr[c].produced <= f
    <3> DEFINE k == hdr[c].produced
               x == db[n].num[p][k]
    <3>1. k \in 1 .. db[n].last[p] /\ k \in Number
      BY <1>3, <2>3, <2>7, <2>9
    <3>2. x \in db[n].blocks
      BY <1>2, <1>3, <3>1 DEF NoGap, HasBlock
    <3>3. x \in sent /\ x # NoBlock
      BY <1>2, <1>3, <3>2, BlockDagAssumption DEF SyncInv, DagInv, TypeOK
    <3>4. hdr[x].produced = k
      BY <1>2, <1>3, <3>1, <3>3 DEF NumbersTrue
    <3>5. x = c
      BY <1>3, <2>6, <3>3, <3>4
    <3> QED
      BY <3>2, <3>5
  <2> QED
    BY <2>7, <2>8, <2>9
<1> QED
  BY <1>4 DEF ReplyInOrder

(* With one producer every request names numbers that its sender has, every  *)
(* reply goes on from there without a gap, and stays so until it is handled. *)
THEOREM OrderInvariant ==
    ASSUME OneProducer
    PROVE  SyncSpec => []OrderInv
<1>1. OrderInv /\ [SyncNext]_syncVars => OrderInv'
  BY OrderStep
<1> QED
  BY OrderInit, <1>1, PTL DEF SyncSpec

(* So a reply lists parents before children, or the receiver has them: the   *)
(* merge by rank never makes on_sync_reply_message stop at a missing parent. *)
THEOREM RepliesParentsFirst ==
    ASSUME OneProducer
    PROVE  SyncSpec => []ReplyInOrder
<1>1. OrderInv => ReplyInOrder
  BY OrderIsParentsFirst
<1> QED
  BY OrderInvariant, <1>1, PTL

=============================================================================
