--------------------------- MODULE BlockDag_proofs ---------------------------
(***************************************************************************)
(* Proofs about BlockDag, for any nodes, blocks, bounds and faults.        *)
(***************************************************************************)
EXTENDS BlockDag, TLAPS

-----------------------------------------------------------------------------
(* What any prefix e of push_block's writes does to a database d.          *)

Effect(d, e, b, h) ==
    /\ e.blocks = d.blocks \/ e.blocks = d.blocks \cup {b}
    /\ \A p \in BlockId \ {b} : d.childs[p] \subseteq e.childs[p]
    /\ b \in e.blocks =>
          \A p \in h.parents : p \in d.blocks /\ p # b => b \in e.childs[p]
    /\ \A m \in Node, k \in Number :
          e.num[m][k] = d.num[m][k] \/ (m = h.node /\ k = h.produced)
    /\ \A m \in Node : m # h.node => e.last[m] = d.last[m]
    /\ \/ e.last[h.node] = d.last[h.node]
       \/ /\ e.last[h.node] = h.produced
          /\ h.produced > d.last[h.node]
          /\ b \in e.blocks
          /\ e.num[h.node][h.produced] = b

Writes(d, b, h, kids) == CrashPrefixes(d, b, h, kids) \cup {Refused(d, b, h)}

(* A prefix of push_block leaves a well-typed database. *)
LEMMA PushUpToType ==
    ASSUME NEW d \in ChainDatabase, NEW b \in BlockId, NEW h \in Header,
           NEW kids \in SUBSET BlockId, NEW L \in SUBSET BlockId, NEW s \in 1 .. 8
    PROVE  PushUpTo(d, b, h, kids, L, s) \in ChainDatabase
<1> DEFINE e == PushUpTo(d, b, h, kids, L, s)
<1>1. /\ h.node \in Node /\ h.produced \in Number
      /\ h.produced \in 0 .. MaxNumber
  BY BlockDagAssumption DEF Header, Number
<1>2. e.blocks \in SUBSET BlockId
  BY DEF PushUpTo, ChainDatabase
<1>3. e.childs \in [BlockId -> SUBSET BlockId]
  BY DEF PushUpTo, ChainDatabase
<1>4. e.num \in [Node -> [Number -> BlockId \cup {NoBlock}]]
  BY <1>1 DEF PushUpTo, ChainDatabase
<1>5. e.last \in [Node -> 0 .. MaxNumber]
  BY <1>1 DEF PushUpTo, ChainDatabase, LastIndex
<1>6. e.head \in Header \cup {NoBlock}
  BY DEF PushUpTo, ChainDatabase
<1>7. e.applied \in [BlockId -> Nat]
  BY DEF PushUpTo, ChainDatabase
<1>8. e.status \in [block : BlockId \cup {NoBlock}, version : 0 .. 2]
  BY DEF PushUpTo, ChainDatabase
<1> QED
  BY <1>2, <1>3, <1>4, <1>5, <1>6, <1>7, <1>8 DEF PushUpTo, ChainDatabase

(* The effect of a prefix that links all parents, or stops while linking. *)
LEMMA PushUpToEffect ==
    ASSUME NEW d \in ChainDatabase, NEW b \in BlockId, NEW h \in Header,
           NEW kids \in SUBSET BlockId, NEW L \in SUBSET h.parents, NEW s \in 1 .. 8,
           s = LinkParents \/ L = h.parents, b \notin d.blocks
    PROVE  Effect(d, PushUpTo(d, b, h, kids, L, s), b, h)
<1> DEFINE e == PushUpTo(d, b, h, kids, L, s)
<1>1. /\ h.node \in Node /\ h.produced \in Number
      /\ h.produced \in 0 .. MaxNumber
      /\ h.parents \in SUBSET BlockId
  BY BlockDagAssumption DEF Header, Number
<1>2. e.blocks = d.blocks \/ e.blocks = d.blocks \cup {b}
  BY DEF PushUpTo
<1>3. \A p \in BlockId \ {b} : d.childs[p] \subseteq e.childs[p]
  BY DEF PushUpTo, ChainDatabase
<1>4. b \in e.blocks =>
        \A p \in h.parents : p \in d.blocks /\ p # b => b \in e.childs[p]
  BY <1>1 DEF PushUpTo, ChainDatabase, LinkParents, StoreBlock
<1>5. \A m \in Node, k \in Number :
        e.num[m][k] = d.num[m][k] \/ (m = h.node /\ k = h.produced)
  BY <1>1 DEF PushUpTo, ChainDatabase
<1>6. \A m \in Node : m # h.node => e.last[m] = d.last[m]
  BY <1>1 DEF PushUpTo, ChainDatabase
<1>7. \/ e.last[h.node] = d.last[h.node]
      \/ /\ e.last[h.node] = h.produced
         /\ h.produced > d.last[h.node]
         /\ b \in e.blocks
         /\ e.num[h.node][h.produced] = b
  BY <1>1 DEF PushUpTo, ChainDatabase, LastIndex, StoreNumber, StoreBlock, StoreLast
<1> HIDE DEF e
<1>8. Effect(d, e, b, h)
  BY <1>2, <1>3, <1>4, <1>5, <1>6, <1>7 DEF Effect
<1> QED
  BY <1>8 DEF e

(* The extend status is of no interest to Effect. *)
LEMMA StatusEffect ==
    ASSUME NEW d, NEW l \in ChainDatabase, NEW b \in BlockId, NEW h,
           NEW e, e = [l EXCEPT !.status = [block |-> b, version |-> 2]],
           Effect(d, l, b, h)
    PROVE  e \in ChainDatabase /\ Effect(d, e, b, h)
<1>1. e \in ChainDatabase
  BY DEF ChainDatabase
<1>2. e.blocks = l.blocks /\ e.childs = l.childs
  BY DEF ChainDatabase
<1>3. e.num = l.num /\ e.last = l.last
  BY DEF ChainDatabase
<1> QED
  BY <1>1, <1>2, <1>3 DEF Effect

(* Every outcome of push_block: success, exception or crash. *)
LEMMA WritesEffect ==
    ASSUME NEW d \in ChainDatabase, NEW b \in BlockId, NEW h \in Header,
           NEW kids \in SUBSET BlockId,
           NEW e \in Writes(d, b, h, kids), b \notin d.blocks
    PROVE  e \in ChainDatabase /\ Effect(d, e, b, h)
<1>1. h.parents \in SUBSET BlockId
  BY DEF Header
<1>2. CASE \E L \in SUBSET h.parents : e = PushUpTo(d, b, h, kids, L, LinkParents)
  BY <1>1, <1>2, PushUpToType, PushUpToEffect DEF LinkParents
<1>3. CASE \E s \in 2 .. 8 : e = PushUpTo(d, b, h, kids, h.parents, s)
  BY <1>1, <1>3, PushUpToType, PushUpToEffect
<1>4. CASE e = Refused(d, b, h)
  <2> DEFINE l == PushUpTo(d, b, h, {}, h.parents, LinkParents)
  <2>1. l \in ChainDatabase /\ Effect(d, l, b, h)
    BY <1>1, PushUpToType, PushUpToEffect DEF LinkParents
  <2>2. e = [l EXCEPT !.status = [block |-> b, version |-> 2]]
    BY <1>4 DEF Refused
  <2> HIDE DEF l
  <2> QED
    BY <2>1, <2>2, StatusEffect
<1> QED
  BY <1>2, <1>3, <1>4 DEF Writes, CrashPrefixes, MarkExtend, StoreHead

(* A successful push_block stores the block and counts it. *)
LEMMA PushedEffect ==
    ASSUME NEW d \in ChainDatabase, NEW b \in BlockId, NEW h \in Header,
           b \notin d.blocks
    PROVE  LET e == Pushed(d, b, h, {}) IN
           /\ e \in ChainDatabase
           /\ Effect(d, e, b, h)
           /\ b \in e.blocks
           /\ h.produced <= e.last[h.node]
<1> DEFINE e == Pushed(d, b, h, {})
<1>1. h.node \in Node /\ h.produced \in 1 .. MaxNumber
  BY DEF Header, Number
<1>2. e \in Writes(d, b, h, {})
  BY DEF Writes, CrashPrefixes, Pushed, MarkExtend, StoreHead
<1>3. b \in e.blocks
  BY DEF Pushed, PushUpTo, StoreHead, StoreBlock
<1>4. h.produced <= e.last[h.node]
  BY <1>1, BlockDagAssumption
  DEF Pushed, PushUpTo, StoreHead, StoreLast, LastIndex, ChainDatabase
<1> HIDE DEF e
<1>5. e \in ChainDatabase /\ Effect(d, e, b, h)
  BY <1>2, WritesEffect
<1> QED
  BY <1>3, <1>4, <1>5 DEF e

(* A new block's parents are stored by its producer. *)
LEMMA CandidatesStored ==
    ASSUME NEW d
    PROVE  Candidates(d) \subseteq d.blocks /\ Candidates(d) \subseteq BlockId
<1>1. SUFFICES ASSUME NEW b \in Candidates(d)
               PROVE  b \in d.blocks /\ b \in BlockId
  OBVIOUS
<1>2. PICK m \in Node : \E k \in 1 .. d.last[m] :
        b = d.num[m][k] /\ \A i \in k .. d.last[m] : IsOpen(d, m, i)
  BY <1>1 DEF Candidates
<1>3. b \in BlockId
  BY <1>1 DEF Candidates
<1> QED
  BY <1>2, <1>3 DEF IsOpen, HasBlock

LEMMA FreshIdIsFresh ==
    ASSUME NEW S, BlockId \ S # {}
    PROVE  FreshId(S) \in BlockId /\ FreshId(S) \notin S
  BY DEF FreshId

-----------------------------------------------------------------------------
(* The inductive step.                                                     *)

\* Blocks may be created; the headers of existing ones stay.
Extends ==
    /\ made \subseteq made' /\ made' \subseteq BlockId
    /\ hdr' \in [BlockId -> Header \cup {NoBlock}]
    /\ \A c \in made : hdr'[c] = hdr[c]
    /\ \A c \in made' : hdr'[c] \in Header

(* Whatever push_block writes of b, what node n stores stays consistent. *)
LEMMA PushKeepsStore ==
    ASSUME DagInv, Extends,
           NEW n \in Node, NEW b \in made', NEW e \in ChainDatabase,
           Effect(db[n], e, b, hdr'[b]),
           b \notin db[n].blocks,
           hdr'[b].parents \subseteq db[n].blocks,
           db' = [db EXCEPT ![n] = e]
    PROVE  /\ db' \in [Node -> ChainDatabase]
           /\ \A m \in Node : db'[m].blocks \subseteq made'
           /\ AncestorsStored' /\ ChildrenLinked' /\ LastExists'
<1> DEFINE h == hdr'[b]
<1>1. /\ db \in [Node -> ChainDatabase] /\ db[n] \in ChainDatabase
      /\ \A m \in Node : db[m].blocks \subseteq made
      /\ b \in BlockId /\ made \subseteq BlockId
  BY DEF DagInv, TypeOK, MadeBlocks, Extends
<1>2. db'[n] = e /\ \A m \in Node \ {n} : db'[m] = db[m]
  BY <1>1
<1>3. db' \in [Node -> ChainDatabase]
  BY <1>1
<1>4. /\ h.node \in Node /\ h.produced \in Number
      /\ h.parents \subseteq db[n].blocks /\ b \notin h.parents
  BY DEF Extends, Header
<1>5. e.blocks \subseteq db[n].blocks \cup {b} /\ db[n].blocks \subseteq e.blocks
  BY DEF Effect
<1>6. \A m \in Node : db'[m].blocks \subseteq made'
  BY <1>1, <1>2, <1>5 DEF Extends
<1>7. AncestorsStored'
  <2> SUFFICES ASSUME NEW m \in Node, NEW c \in db'[m].blocks
               PROVE  hdr'[c].parents \subseteq db'[m].blocks
    BY DEF AncestorsStored
  <2>1. CASE m = n /\ c = b
    BY <1>2, <1>4, <1>5, <2>1
  <2>2. CASE c \in db[m].blocks
    BY <1>1, <1>2, <1>5, <2>2 DEF DagInv, AncestorsStored, Extends
  <2> QED
    BY <1>2, <1>5, <2>1, <2>2
<1>8. ChildrenLinked'
  <2> SUFFICES ASSUME NEW m \in Node, NEW c \in db'[m].blocks,
                      NEW p \in hdr'[c].parents
               PROVE  c \in db'[m].childs[p]
    BY DEF ChildrenLinked
  <2>1. CASE m = n /\ c = b
    BY <1>2, <1>4, <2>1 DEF Effect
  <2>2. CASE c \in db[m].blocks
    <3>1. /\ hdr'[c] = hdr[c]
          /\ p \in db[m].blocks
          /\ c \in db[m].childs[p]
      BY <1>1, <2>2 DEF DagInv, AncestorsStored, ChildrenLinked, Extends
    <3>2. CASE m = n
      <4>1. p \in BlockId \ {b}
        BY <1>1, <3>1, <3>2
      <4> QED
        BY <1>2, <3>1, <3>2, <4>1 DEF Effect
    <3> QED
      BY <1>2, <3>1, <3>2
  <2> QED
    BY <1>2, <1>5, <2>1, <2>2
<1>9. LastExists'
  <2> SUFFICES ASSUME NEW k \in Node, NEW m \in Node, db'[k].last[m] > 0
               PROVE  \E c \in db'[k].blocks : hdr'[c].node = m /\ hdr'[c].produced = db'[k].last[m]
    BY DEF LastExists
  <2>1. CASE db'[k].last[m] = db[k].last[m]
    <3>1. PICK c \in db[k].blocks : hdr[c].node = m /\ hdr[c].produced = db[k].last[m]
      BY <2>1 DEF DagInv, LastExists
    <3>2. hdr'[c] = hdr[c] /\ c \in db'[k].blocks
      BY <1>1, <1>2, <1>5 DEF Extends
    <3> QED
      BY <2>1, <3>1, <3>2
  <2>2. CASE k = n /\ m = h.node /\ e.last[m] = h.produced /\ b \in e.blocks
    BY <1>2, <2>2
  <2> QED
    BY <1>2, <1>4, <2>1, <2>2 DEF Effect
<1> QED
  BY <1>3, <1>6, <1>7, <1>8, <1>9

\* What the delegate loop of n knows of the block it pushes next.
Pushable(n, b) ==
    /\ hdr'[b].node = n
    /\ hdr'[b].produced = db[n].last[n] + 1
    /\ hdr'[b].parents \subseteq db[n].blocks
    /\ \A m \in Node : b \notin db[m].blocks
    /\ \A m \in Node \ {n} : second[m] # b

\* And of the block it pushes after that one.
PushableAfter(n, b, next) ==
    /\ next \in made' /\ next # b
    /\ hdr'[next].node = n
    /\ hdr'[next].produced = hdr'[b].produced + 1
    /\ hdr'[next].parents \subseteq db[n].blocks
    /\ \A m \in Node : next \notin db[m].blocks
    /\ \A m \in Node \ {n} : second[m] # next

(* push_block in the delegate loop, with any outcome, keeps the invariant. *)
LEMMA OwnPushStep ==
    ASSUME DagInv, Extends, ParentRank',
           NEW n \in Node, NEW b \in made',
           NEW next \in BlockId \cup {NoBlock},
           Pushable(n, b), next # NoBlock => PushableAfter(n, b, next),
           OwnPush(n, b, hdr'[b], next), served' = served
    PROVE  DagInv'
<1> DEFINE h == hdr'[b]
<1>1. /\ db \in [Node -> ChainDatabase] /\ db[n] \in ChainDatabase
      /\ \A m \in Node : db[m].blocks \subseteq made
      /\ b \in BlockId /\ made \subseteq BlockId /\ h \in Header
      /\ b \notin db[n].blocks /\ h.node = n
  BY DEF DagInv, TypeOK, MadeBlocks, Extends, Pushable
<1>2. /\ second \in [Node -> BlockId \cup {NoBlock}]
      /\ mode \in [Node -> {"down", "idle", "looping"}]
      /\ sent \subseteq BlockId /\ served \subseteq BlockId /\ faults \in 0 .. MaxFaults
  BY DEF DagInv, TypeOK
<1>3. PICK e \in Writes(db[n], b, h, {}) : db' = [db EXCEPT ![n] = e]
  <2>1. Pushed(db[n], b, h, {}) \in Writes(db[n], b, h, {})
    BY DEF Writes, CrashPrefixes, Pushed, MarkExtend, StoreHead
  <2>2. Refused(db[n], b, h) \in Writes(db[n], b, h, {})
    BY DEF Writes
  <2>3. CrashPrefixes(db[n], b, h, {}) \subseteq Writes(db[n], b, h, {})
    BY DEF Writes
  <2> QED
    BY <2>1, <2>2, <2>3 DEF OwnPush, CrashInPush
<1>4. e \in ChainDatabase /\ Effect(db[n], e, b, h)
  BY <1>1, WritesEffect
<1>5. db[n].last[n] \in 0 .. MaxNumber /\ h.produced \in Number
  BY <1>1 DEF ChainDatabase, Header
<1>6. h.produced = db[n].last[n] + 1
  BY <1>1, <1>5, BlockDagAssumption DEF Pushable
<1>7. /\ db' \in [Node -> ChainDatabase]
      /\ \A m \in Node : db'[m].blocks \subseteq made'
      /\ AncestorsStored' /\ ChildrenLinked' /\ LastExists'
  BY <1>1, <1>3, <1>4, PushKeepsStore DEF Pushable
<1>8. db'[n] = e /\ \A m \in Node \ {n} : db'[m] = db[m]
  BY <1>1, <1>3
<1>9. /\ e.blocks \subseteq db[n].blocks \cup {b} /\ db[n].blocks \subseteq e.blocks
      /\ \A m \in Node \ {n} : e.last[m] = db[n].last[m]
      /\ e.last[n] = db[n].last[n] \/ e.last[n] = h.produced
  BY <1>1, <1>4 DEF Effect
<1>10. \A c \in sent :
         /\ c \in made /\ c # b /\ hdr'[c] = hdr[c]
         /\ hdr[c].node \in Node
         /\ hdr[c].produced \in Number
         /\ c \in db[hdr[c].node].blocks
         /\ hdr[c].produced <= db[hdr[c].node].last[hdr[c].node]
  BY DEF DagInv, SentCounted, Pushable, Extends, MadeBlocks, Header
<1>11. \A c \in sent :
         LET m == hdr'[c].node IN
         /\ c \in made' /\ c \in db'[m].blocks
         /\ hdr'[c].produced <= db'[m].last[m]
  <2> SUFFICES ASSUME NEW c \in sent
               PROVE  LET m == hdr[c].node IN
                      c \in db'[m].blocks /\ hdr[c].produced <= db'[m].last[m]
    BY <1>10 DEF Extends
  <2>1. CASE hdr[c].node = n
    BY <1>5, <1>6, <1>8, <1>9, <1>10, <2>1, BlockDagAssumption DEF Number
  <2>2. CASE hdr[c].node # n
    BY <1>8, <1>10, <2>2
  <2> QED
    BY <2>1, <2>2
<1>12. MadeBlocks'
  BY <1>7 DEF MadeBlocks, Extends
<1>13. ForeignStored'
  <2> SUFFICES ASSUME NEW m \in Node, NEW c \in db'[m].blocks
               PROVE  c \in db'[hdr'[c].node].blocks
    BY DEF ForeignStored
  <2>1. CASE c = b /\ m = n
    BY <1>1, <2>1
  <2>2. CASE c \in db[m].blocks
    <3>1. hdr'[c] = hdr[c] /\ hdr[c].node \in Node /\ c \in db[hdr[c].node].blocks
      BY <1>1, <2>2 DEF DagInv, ForeignStored, MadeBlocks, Extends, Header
    <3> QED
      BY <1>8, <1>9, <3>1
  <2> QED
    BY <1>8, <1>9, <2>1, <2>2
<1>14. ASSUME NEW c \in sent \cup served
       PROVE  c \in made' /\ c \in db'[hdr'[c].node].blocks
  <2>1. c \in made /\ hdr'[c] = hdr[c] /\ hdr[c].node \in Node /\ c \in db[hdr[c].node].blocks
    BY DEF DagInv, ShownStored, MadeBlocks, Extends, Header
  <2> QED
    BY <1>8, <1>9, <2>1 DEF Extends
<1>15. CASE /\ db' = [db EXCEPT ![n] = Pushed(db[n], b, h, {})]
            /\ sent' = sent \cup {b}
            /\ second' = [second EXCEPT ![n] = next]
            /\ UNCHANGED <<mode, faults>>
  <2>1. b \in e.blocks /\ e.last[n] = h.produced
    <3>1. e = Pushed(db[n], b, h, {})
      BY <1>1, <1>8, <1>15
    <3> QED
      BY <1>1, <1>5, <1>6, <1>9, <3>1, PushedEffect, BlockDagAssumption DEF Number
  <2>2. TypeOK'
    BY <1>1, <1>2, <1>7, <1>15 DEF TypeOK, Extends
  <2>3. SentCounted'
    BY <1>1, <1>5, <1>8, <1>11, <1>15, <2>1, BlockDagAssumption DEF SentCounted, Number
  <2>4. NumbersUnique'
    <3>1. \A c \in sent : hdr[c].node = n => hdr[c].produced # h.produced
      BY <1>5, <1>6, <1>10, BlockDagAssumption DEF Number
    <3> QED
      BY <1>1, <1>10, <1>15, <3>1 DEF DagInv, NumbersUnique
  <2>5. SecondIsNext'
    <3> SUFFICES ASSUME NEW k \in Node, second'[k] # NoBlock
                 PROVE  LET g == hdr'[second'[k]] IN
                        /\ second'[k] \in made'
                        /\ g.node = k
                        /\ g.produced = db'[k].last[k] + 1
                        /\ g.parents \subseteq db'[k].blocks
                        /\ \A m \in Node : second'[k] \notin db'[m].blocks
                        /\ \A m \in Node : second'[m] = second'[k] => m = k
      BY DEF SecondIsNext
    <3>1. CASE k = n
      <4>1. second'[k] = next /\ PushableAfter(n, b, next)
        BY <1>2, <1>15, <3>1
      <4> QED
        BY <1>2, <1>8, <1>9, <1>15, <2>1, <3>1, <4>1 DEF PushableAfter
    <3>2. CASE k # n
      <4>1. second'[k] = second[k] /\ db'[k] = db[k]
        BY <1>2, <1>8, <1>15, <3>2
      <4>2. hdr'[second[k]] = hdr[second[k]] /\ second[k] # b /\ second[k] # next
        BY <3>2, <4>1 DEF DagInv, SecondIsNext, Extends, Pushable, PushableAfter
      <4>3. \A m \in Node : second'[k] \notin db'[m].blocks
        BY <1>8, <1>9, <4>1, <4>2 DEF DagInv, SecondIsNext
      <4>4. \A m \in Node : second'[m] = second'[k] => m = k
        BY <1>2, <1>15, <4>1, <4>2 DEF DagInv, SecondIsNext
      <4> QED
        BY <4>1, <4>2, <4>3, <4>4 DEF DagInv, SecondIsNext, Extends
    <3> QED
      BY <3>1, <3>2
  <2>6. ShownStored'
    BY <1>1, <1>8, <1>15, <1>14, <2>1 DEF ShownStored
  <2> QED
    BY <1>7, <1>12, <1>13, <2>2, <2>3, <2>4, <2>5, <2>6 DEF DagInv
<1>16. CASE /\ sent' = sent /\ second' = [second EXCEPT ![n] = NoBlock]
            /\ mode' \in [Node -> {"down", "idle", "looping"}]
            /\ faults' \in 0 .. MaxFaults
  <2>1. TypeOK'
    BY <1>1, <1>2, <1>7, <1>16 DEF TypeOK, Extends
  <2>2. SentCounted'
    BY <1>11, <1>16 DEF SentCounted
  <2>3. NumbersUnique'
    BY <1>10, <1>16 DEF DagInv, NumbersUnique
  <2>4. SecondIsNext'
    <3> SUFFICES ASSUME NEW k \in Node, second'[k] # NoBlock
                 PROVE  LET g == hdr'[second'[k]] IN
                        /\ second'[k] \in made'
                        /\ g.node = k
                        /\ g.produced = db'[k].last[k] + 1
                        /\ g.parents \subseteq db'[k].blocks
                        /\ \A m \in Node : second'[k] \notin db'[m].blocks
                        /\ \A m \in Node : second'[m] = second'[k] => m = k
      BY DEF SecondIsNext
    <3>1. k # n /\ second'[k] = second[k] /\ db'[k] = db[k]
      BY <1>2, <1>8, <1>16
    <3>2. hdr'[second[k]] = hdr[second[k]] /\ second[k] # b
      BY <3>1 DEF DagInv, SecondIsNext, Extends, Pushable
    <3>3. \A m \in Node : second'[k] \notin db'[m].blocks
      BY <1>8, <1>9, <3>1, <3>2 DEF DagInv, SecondIsNext
    <3>4. \A m \in Node : second'[m] = second'[k] => m = k
      BY <1>2, <1>16, <3>1, <3>2 DEF DagInv, SecondIsNext
    <3> QED
      BY <3>1, <3>2, <3>3, <3>4 DEF DagInv, SecondIsNext, Extends
  <2>5. ShownStored'
    BY <1>16, <1>14 DEF ShownStored
  <2> QED
    BY <1>7, <1>12, <1>13, <2>1, <2>2, <2>3, <2>4, <2>5 DEF DagInv
<1> QED
  BY <1>2, <1>15, <1>16, BlockDagAssumption DEF OwnPush, CrashInPush, Fault

(* A push of a received block, with any outcome, keeps the invariant: the   *)
(* block is not the receiver's own.                                         *)
LEMMA ReceivedPushStep ==
    ASSUME DagInv, NEW n \in Node, NEW b \in BlockId,
           NEW kids \in SUBSET BlockId, ReceivedPush(n, b, kids)
    PROVE  DagInv'
<1> DEFINE h == hdr'[b]
<1>1. /\ db \in [Node -> ChainDatabase] /\ db[n] \in ChainDatabase
      /\ hdr' = hdr /\ made' = made /\ sent' = sent /\ served' = served
      /\ b \in sent \cup served /\ b \in made /\ h \in Header
      /\ b \notin db[n].blocks /\ h.parents \subseteq db[n].blocks
  BY DEF DagInv, TypeOK, MadeBlocks, ShownStored, ReceivedPush, CrashInPush, CanPush, IsNew
<1>2. Extends
  BY <1>1 DEF Extends, DagInv, TypeOK, MadeBlocks
<1>3. /\ second \in [Node -> BlockId \cup {NoBlock}]
      /\ mode \in [Node -> {"down", "idle", "looping"}]
      /\ sent \subseteq BlockId /\ served \subseteq BlockId /\ faults \in 0 .. MaxFaults
  BY DEF DagInv, TypeOK
<1>4. PICK e \in Writes(db[n], b, h, kids) : db' = [db EXCEPT ![n] = e]
  <2>1. Pushed(db[n], b, h, kids) \in Writes(db[n], b, h, kids)
    BY DEF Writes, CrashPrefixes, Pushed, MarkExtend, StoreHead
  <2>2. Refused(db[n], b, h) \in Writes(db[n], b, h, kids)
    BY DEF Writes
  <2>3. CrashPrefixes(db[n], b, h, kids) \subseteq Writes(db[n], b, h, kids)
    BY DEF Writes
  <2> QED
    BY <1>1, <2>1, <2>2, <2>3 DEF ReceivedPush, CrashInPush
<1>5. e \in ChainDatabase /\ Effect(db[n], e, b, h)
  BY <1>1, WritesEffect
<1>6. h.node # n /\ h.node \in Node /\ h.produced \in Number
  BY <1>1 DEF DagInv, ShownStored, Header
<1>8. /\ db' \in [Node -> ChainDatabase]
      /\ \A m \in Node : db'[m].blocks \subseteq made'
      /\ AncestorsStored' /\ ChildrenLinked' /\ LastExists'
  BY <1>1, <1>2, <1>4, <1>5, PushKeepsStore
<1>9. db'[n] = e /\ \A m \in Node \ {n} : db'[m] = db[m]
  BY <1>1, <1>4
<1>10. /\ e.blocks \subseteq db[n].blocks \cup {b} /\ db[n].blocks \subseteq e.blocks
       /\ e.last[n] = db[n].last[n]
  BY <1>5, <1>6 DEF Effect
<1>11. /\ mode' \in [Node -> {"down", "idle", "looping"}]
       /\ faults' \in 0 .. MaxFaults
       /\ second' = second \/ second' = [second EXCEPT ![n] = NoBlock]
  BY <1>3, BlockDagAssumption DEF ReceivedPush, CrashInPush, Fault
<1>12. TypeOK'
  BY <1>1, <1>2, <1>3, <1>8, <1>11 DEF TypeOK, Extends
<1>13. MadeBlocks'
  BY <1>2, <1>8 DEF MadeBlocks, Extends
<1>14. ParentRank' /\ NumbersUnique'
  BY <1>1 DEF DagInv, ParentRank, NumbersUnique
<1>15. SentCounted'
  <2> SUFFICES ASSUME NEW c \in sent
               PROVE  LET m == hdr[c].node IN
                      /\ c \in made /\ c \in db'[m].blocks
                      /\ hdr[c].produced <= db'[m].last[m]
    BY <1>1 DEF SentCounted
  <2>1. /\ c \in made /\ hdr[c].node \in Node
        /\ c \in db[hdr[c].node].blocks
        /\ hdr[c].produced <= db[hdr[c].node].last[hdr[c].node]
    BY DEF DagInv, SentCounted, MadeBlocks, Header
  <2> QED
    BY <1>9, <1>10, <2>1
<1>16. ForeignStored' /\ ShownStored'
  <2>1. b \in db[h.node].blocks /\ \A m \in Node : db[m].blocks \subseteq db'[m].blocks
    BY <1>1, <1>9, <1>10 DEF DagInv, ShownStored
  <2>2. \A c \in made : hdr[c].node \in Node
    BY DEF DagInv, MadeBlocks, Header
  <2>3. ASSUME NEW m \in Node, NEW c \in db'[m].blocks PROVE c \in db'[hdr[c].node].blocks
    <3>1. c = b \/ c \in db[m].blocks
      BY <1>9, <1>10
    <3>2. c \in made /\ c \in db[hdr[c].node].blocks
      BY <1>1, <2>1, <3>1 DEF DagInv, ForeignStored, MadeBlocks
    <3> QED
      BY <2>1, <2>2, <3>2
  <2>4. ASSUME NEW c \in sent \cup served PROVE c \in made /\ c \in db'[hdr[c].node].blocks
    BY <2>1, <2>2 DEF DagInv, ShownStored
  <2> QED
    BY <1>1, <2>3, <2>4 DEF ForeignStored, ShownStored
<1>17. SecondIsNext'
  <2> SUFFICES ASSUME NEW k \in Node, second'[k] # NoBlock
               PROVE  LET g == hdr[second'[k]] IN
                      /\ second'[k] \in made
                      /\ g.node = k
                      /\ g.produced = db'[k].last[k] + 1
                      /\ g.parents \subseteq db'[k].blocks
                      /\ \A m \in Node : second'[k] \notin db'[m].blocks
                      /\ \A m \in Node : second'[m] = second'[k] => m = k
    BY <1>1 DEF SecondIsNext
  <2>1. second'[k] = second[k] /\ \A m \in Node : second'[m] \in {second[m], NoBlock}
    BY <1>3, <1>11
  <2>2. second[k] # b
    BY <1>1, <2>1 DEF DagInv, SecondIsNext, ShownStored, MadeBlocks, Header
  <2>3. \A m \in Node : second'[k] \notin db'[m].blocks
    BY <1>9, <1>10, <2>1, <2>2 DEF DagInv, SecondIsNext
  <2>4. db'[k].last[k] = db[k].last[k] /\ db[k].blocks \subseteq db'[k].blocks
    BY <1>9, <1>10
  <2> QED
    BY <2>1, <2>3, <2>4 DEF DagInv, SecondIsNext
<1> QED
  BY <1>8, <1>12, <1>13, <1>14, <1>15, <1>16, <1>17 DEF DagInv

(* A block made on node n's tips: it has a header, and its rank is above. *)
LEMMA NewHeaderType ==
    ASSUME DagInv, NEW n \in Node, NEW k \in Number, NEW r \in Number,
           NEW t \in Time, NEW trx \in BOOLEAN, RankAbove(Candidates(db[n]), r),
           NEW h, h = NewHeader(n, k, r, t, trx)
    PROVE  /\ h \in Header /\ h.node = n /\ h.produced = k
           /\ h.parents \subseteq db[n].blocks
           /\ \A p \in h.parents : p \in made /\ hdr[p].rank < h.rank
<1>1. Candidates(db[n]) \subseteq db[n].blocks /\ Candidates(db[n]) \subseteq BlockId
  BY CandidatesStored
<1>2. db[n].blocks \subseteq made
  BY DEF DagInv, MadeBlocks
<1> QED
  BY <1>1, <1>2, BlockDagAssumption DEF NewHeader, Header, RankAbove

LEMMA GenerateBlockStep ==
    ASSUME DagInv, NEW n \in Node, GenerateBlock(n)
    PROVE  DagInv'
<1> DEFINE b == FreshId(made)
<1>1. PICK t \in Time, r \in Number :
        LET h == NewHeader(n, db[n].last[n] + 1, r, t, TRUE) IN
        /\ RankAbove(h.parents, r)
        /\ made' = made \cup {b}
        /\ hdr' = [hdr EXCEPT ![b] = h]
        /\ OwnPush(n, b, h, NoBlock)
  BY DEF GenerateBlock
<1> DEFINE h == NewHeader(n, db[n].last[n] + 1, r, t, TRUE)
<1>2. b \in BlockId /\ b \notin made
  BY FreshIdIsFresh DEF GenerateBlock
<1> HIDE DEF b
<1>3. /\ h \in Header /\ h.node = n /\ h.produced = db[n].last[n] + 1
      /\ h.parents \subseteq db[n].blocks
      /\ \A p \in h.parents : p \in made /\ hdr[p].rank < h.rank
  <2>1. db[n].last[n] + 1 \in Number
    BY DEF GenerateBlock
  <2>2. RankAbove(Candidates(db[n]), r)
    BY <1>1 DEF NewHeader
  <2> QED
    BY <2>1, <2>2, NewHeaderType
<1> HIDE DEF h
<1>4. /\ made' = made \cup {b} /\ hdr' = [hdr EXCEPT ![b] = h]
      /\ OwnPush(n, b, h, NoBlock) /\ served' = served
  BY <1>1 DEF h, GenerateBlock
<1>5. hdr'[b] = h /\ \A c \in made : hdr'[c] = hdr[c]
  BY <1>2, <1>4 DEF DagInv, TypeOK
<1>6. Extends
  BY <1>2, <1>3, <1>4, <1>5 DEF Extends, DagInv, TypeOK, MadeBlocks
<1>7. ParentRank'
  BY <1>3, <1>4, <1>5 DEF DagInv, ParentRank
<1>8. Pushable(n, b)
  BY <1>2, <1>3, <1>5, BlockDagAssumption DEF Pushable, DagInv, MadeBlocks, SecondIsNext
<1> QED
  BY <1>2, <1>4, <1>5, <1>6, <1>7, <1>8, OwnPushStep

LEMMA GenerateEmptyBlocksStep ==
    ASSUME DagInv, NEW n \in Node, GenerateEmptyBlocks(n)
    PROVE  DagInv'
<1> DEFINE b  == FreshId(made)
           b2 == FreshId(made \cup {b})
<1>1. PICK t \in Time, r \in Number :
        LET k  == db[n].last[n]
            h  == NewHeader(n, k + 1, r, t, FALSE)
            h2 == NewHeader(n, k + 2, r, t, FALSE) IN
        /\ RankAbove(h.parents, r)
        /\ made' = made \cup {b, b2}
        /\ hdr' = [hdr EXCEPT ![b] = h, ![b2] = h2]
        /\ OwnPush(n, b, h, b2)
  BY DEF GenerateEmptyBlocks
<1> DEFINE h  == NewHeader(n, db[n].last[n] + 1, r, t, FALSE)
           h2 == NewHeader(n, db[n].last[n] + 2, r, t, FALSE)
<1>2. b \in BlockId /\ b \notin made
  BY FreshIdIsFresh DEF GenerateEmptyBlocks
<1>3. b2 \in BlockId /\ b2 \notin made /\ b2 # b
  BY FreshIdIsFresh DEF GenerateEmptyBlocks
<1> HIDE DEF b, b2
<1>4. /\ db[n].last[n] \in 0 .. MaxNumber
      /\ db[n].last[n] + 2 \in Number /\ db[n].last[n] + 1 \in Number
  BY BlockDagAssumption
  DEF GenerateEmptyBlocks, DagInv, TypeOK, ChainDatabase, Number
<1>5. RankAbove(Candidates(db[n]), r)
  BY <1>1 DEF NewHeader
<1>6. /\ h \in Header /\ h.node = n /\ h.produced = db[n].last[n] + 1
      /\ h.parents \subseteq db[n].blocks
      /\ \A p \in h.parents : p \in made /\ hdr[p].rank < h.rank
  BY <1>4, <1>5, NewHeaderType
<1>7. /\ h2 \in Header /\ h2.node = n /\ h2.produced = db[n].last[n] + 2
      /\ h2.parents \subseteq db[n].blocks
      /\ \A p \in h2.parents : p \in made /\ hdr[p].rank < h2.rank
  BY <1>4, <1>5, NewHeaderType
<1> HIDE DEF h, h2
<1>8. /\ made' = made \cup {b, b2} /\ hdr' = [hdr EXCEPT ![b] = h, ![b2] = h2]
      /\ OwnPush(n, b, h, b2) /\ served' = served
  BY <1>1 DEF h, h2, GenerateEmptyBlocks
<1>9. hdr'[b] = h /\ hdr'[b2] = h2 /\ \A c \in made : hdr'[c] = hdr[c]
  BY <1>2, <1>3, <1>8 DEF DagInv, TypeOK
<1>10. Extends
  BY <1>2, <1>3, <1>6, <1>7, <1>8, <1>9 DEF Extends, DagInv, TypeOK, MadeBlocks
<1>11. ParentRank'
  BY <1>6, <1>7, <1>8, <1>9 DEF DagInv, ParentRank
<1>12. Pushable(n, b)
  BY <1>2, <1>6, <1>9, BlockDagAssumption DEF Pushable, DagInv, MadeBlocks, SecondIsNext
<1>13. PushableAfter(n, b, b2)
  <2>1. h2.produced = h.produced + 1
    BY <1>4, <1>6, <1>7
  <2>2. PushableAfter(n, b, b2)
    <3>1. b2 \in made' /\ \A m \in Node : b2 \notin db[m].blocks
      BY <1>3, <1>8 DEF DagInv, MadeBlocks
    <3>2. \A m \in Node : second[m] # b2
      BY <1>3, BlockDagAssumption DEF DagInv, SecondIsNext
    <3> QED
      BY <1>3, <1>7, <1>9, <2>1, <3>1, <3>2 DEF PushableAfter
  <2> QED
    BY <2>2
<1> QED
  BY <1>2, <1>3, <1>8, <1>9, <1>10, <1>11, <1>12, <1>13, OwnPushStep

LEMMA PushSecondEmptyStep ==
    ASSUME DagInv, NEW n \in Node, PushSecondEmpty(n)
    PROVE  DagInv'
<1> DEFINE b == second[n]
<1>1. /\ b # NoBlock /\ OwnPush(n, b, hdr[b], NoBlock)
      /\ made' = made /\ hdr' = hdr /\ served' = served
  BY DEF PushSecondEmpty
<1>2. b \in made
  BY <1>1 DEF DagInv, SecondIsNext
<1>3. Extends /\ ParentRank'
  BY <1>1 DEF Extends, DagInv, TypeOK, MadeBlocks, ParentRank
<1>4. Pushable(n, b)
  BY <1>1 DEF Pushable, DagInv, SecondIsNext
<1> QED
  BY <1>1, <1>2, <1>3, <1>4, OwnPushStep

(* The invariant is inductive. *)
LEMMA DagInvStep ==
    ASSUME DagInv, [Next]_vars
    PROVE  DagInv'
<1>1. CASE UNCHANGED vars
  BY <1>1 DEF vars, DagInv, TypeOK, MadeBlocks, ParentRank, AncestorsStored,
              ChildrenLinked, LastExists, NumbersUnique, SentCounted,
              ShownStored, ForeignStored, SecondIsNext
<1>2. ASSUME NEW n \in Node, GenerateBlock(n) PROVE DagInv'
  BY <1>2, GenerateBlockStep
<1>3. ASSUME NEW n \in Node, GenerateEmptyBlocks(n) PROVE DagInv'
  BY <1>3, GenerateEmptyBlocksStep
<1>4. ASSUME NEW n \in Node, PushSecondEmpty(n) PROVE DagInv'
  BY <1>4, PushSecondEmptyStep
<1>5. ASSUME NEW n \in Node, NEW b \in BlockId, OnNewBlock(n, b) \/ OnSyncBlock(n, b)
      PROVE  DagInv'
  <2>1. PICK kids \in SUBSET BlockId : ReceivedPush(n, b, kids)
    BY <1>5 DEF OnNewBlock, OnSyncBlock, DagInv, TypeOK
  <2> QED
    BY <2>1, ReceivedPushStep
<1>6. ASSUME NEW n \in Node, Restart(n) \/ RescheduleDelegateLoop(n) PROVE DagInv'
  <2>1. /\ db' = db /\ UNCHANGED <<made, hdr, second, sent, served, faults>>
        /\ mode' \in [Node -> {"down", "idle", "looping"}]
    BY <1>6 DEF Restart, RescheduleDelegateLoop, Repaired, RepairBlock, DagInv, TypeOK
  <2> QED
    BY <2>1 DEF DagInv, TypeOK, MadeBlocks, ParentRank, AncestorsStored,
                ChildrenLinked, LastExists, NumbersUnique, SentCounted,
                ShownStored, ForeignStored, SecondIsNext
<1>7. ASSUME NEW n \in Node, NEW b \in BlockId, ServeBlock(n, b) PROVE DagInv'
  <2>1. /\ UNCHANGED <<made, hdr, db, second, mode, sent, faults>>
        /\ served' = served \cup {b} /\ b \in db[n].blocks
    BY <1>7 DEF ServeBlock
  <2>2. ShownStored' /\ TypeOK'
    BY <2>1 DEF DagInv, TypeOK, MadeBlocks, ShownStored, ForeignStored
  <2> QED
    BY <2>1, <2>2 DEF DagInv, MadeBlocks, ParentRank, AncestorsStored, ChildrenLinked,
                LastExists, NumbersUnique, SentCounted, ForeignStored, SecondIsNext
<1> QED
  BY <1>1, <1>2, <1>3, <1>4, <1>5, <1>6, <1>7 DEF Next

LEMMA DagInvInit == Init => DagInv
<1> SUFFICES ASSUME Init PROVE DagInv
  OBVIOUS
<1>1. EmptyDatabase \in ChainDatabase
  BY BlockDagAssumption DEF EmptyDatabase, ChainDatabase, Number
<1>2. TypeOK
  BY <1>1, BlockDagAssumption DEF Init, TypeOK
<1>3. \A n \in Node : db[n].blocks = {} /\ \A m \in Node : db[n].last[m] = 0
  BY DEF Init, EmptyDatabase
<1> QED
  BY <1>2, <1>3 DEF Init, DagInv, MadeBlocks, ParentRank, AncestorsStored,
       ChildrenLinked, LastExists, NumbersUnique, SentCounted, ShownStored,
       ForeignStored, SecondIsNext

-----------------------------------------------------------------------------
(* Theorems.  Faults is a parameter: they hold whatever exceptions and      *)
(* crashes interrupt push_block.                                            *)

(* The inductive invariant holds in every reachable state. *)
THEOREM DagInvariant == Spec => []DagInv
<1>1. DagInv /\ [Next]_vars => DagInv'
  BY DagInvStep
<1> QED
  BY DagInvInit, <1>1, PTL DEF Spec

(* The types of the databases survive any prefix of push_block's writes. *)
THEOREM TypeCorrect == Spec => []TypeOK
<1>1. DagInv => TypeOK
  BY DEF DagInv
<1> QED
  BY <1>1, DagInvariant, PTL

(* set_block_parents gives every block a rank above those of its parents. *)
THEOREM Acyclic == Spec => []ParentRank
<1>1. DagInv => ParentRank
  BY DEF DagInv
<1> QED
  BY <1>1, DagInvariant, PTL

(* can_push_block and push_block keep every store closed under parents. *)
THEOREM StoreClosed == Spec => []AncestorsStored
<1>1. DagInv => AncestorsStored
  BY DEF DagInv
<1> QED
  BY <1>1, DagInvariant, PTL

(* The child lists are complete: push_block links before it stores. *)
THEOREM LinksComplete == Spec => []ChildrenLinked
<1>1. DagInv => ChildrenLinked
  BY DEF DagInv
<1> QED
  BY <1>1, DagInvariant, PTL

(* The last number of a producer is always that of a stored block: a crash  *)
(* before update_last_index leaves it too small, never too large.           *)
THEOREM LastFound == Spec => []LastExists
<1>1. DagInv => LastExists
  BY DEF DagInv
<1> QED
  BY <1>1, DagInvariant, PTL

(* No two broadcast blocks carry the same block number.  A block that a     *)
(* crash kept from being broadcast may share its number with one of them.   *)
THEOREM NumbersNeverReused == Spec => []NumbersUnique
<1>1. DagInv => NumbersUnique
  BY DEF DagInv
<1> QED
  BY <1>1, DagInvariant, PTL

=============================================================================
