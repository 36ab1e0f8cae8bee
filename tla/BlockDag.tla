------------------------------ MODULE BlockDag ------------------------------
(***************************************************************************)
(* The block DAG kept by ChainDatabase on every node, and the delegate     *)
(* loop that extends it.                                                   *)
(*                                                                         *)
(* Each node stores full blocks by id (with the child list it knows of),   *)
(* an index from block numbers to ids, the last number per producer and    *)
(* a "head" slot.  A block number is a pair (node index, produced).        *)
(* push_block links a block to its parents, executes it (extend_chain),    *)
(* and only then writes the block and the indexes.  The writes go to       *)
(* separate databases, so an exception or a crash leaves a prefix of them. *)
(*                                                                         *)
(* The tasks of one node are cooperative: no other task of the node runs   *)
(* inside push_block or between generate_block and push_block.  They do    *)
(* interleave at broadcast_new_block, hence between the two empty blocks.  *)
(*                                                                         *)
(* Abstracted: transactions (only "has some / has none" matters here, and  *)
(* whether extend_chain accepts them is a nondeterministic outcome),       *)
(* signatures, hashes (the id of a new block is fresh) and the pending     *)
(* pool (module PendingPool).                                              *)
(***************************************************************************)
EXTENDS Naturals, FiniteSets

CONSTANTS
    Node,          \* nodes, named by their node index
    Producer,      \* seed nodes with an enabled delegate
    BlockId,       \* ids of the blocks that may be created: bounds the model
    NoBlock,       \* an absent block id or header
    Time,          \* timestamps blockchain::now() may return
    MinChildren,   \* MIN_CHILDREN_FOR_COMPLETE_BLOCK
    LookBack,      \* how many blocks of a producer set_block_parents visits
    MaxNumber,     \* bound on block numbers and ranks
    Faults,        \* fault kinds that occur: a subset of {"throw", "crash"}
    MaxFaults      \* bound on the number of faults in a behaviour

Number == 1 .. MaxNumber

Header == [node : Node, produced : Number, rank : Number, time : Nat,
           trx : BOOLEAN, parents : SUBSET BlockId]

ASSUME BlockDagAssumption ==
    /\ NoBlock \notin BlockId /\ NoBlock \notin Header
    /\ Producer \subseteq Node
    /\ MinChildren \in Nat \ {0}
    /\ LookBack \in Nat \ {0}
    /\ Time \subseteq Nat
    /\ MaxNumber \in Nat
    /\ Faults \subseteq {"throw", "crash"}
    /\ MaxFaults \in Nat

VARIABLES
    made,      \* ids of the blocks created so far, by any node
    hdr,       \* id -> header, parents and kind of a created block
    db,        \* node -> its ChainDatabase
    second,    \* node -> second empty block, held while the first is sent
    mode,      \* node -> down, idle (running) or looping (delegate_loop on)
    sent,      \* blocks handed to broadcast_new_block
    served,    \* other blocks that sync replies carried
    faults     \* faults so far

vars == <<made, hdr, db, second, mode, sent, served, faults>>

ChainDatabase ==
    [blocks  : SUBSET BlockId,                  \* _block_id_to_full_block
     childs  : [BlockId -> SUBSET BlockId],     \* FullBlock::childs
     num     : [Node -> [Number -> BlockId \cup {NoBlock}]],
                                                \* _block_num_to_id_db
     last    : [Node -> 0 .. MaxNumber],        \* _nodeindex_to_produced
     head    : Header \cup {NoBlock},           \* _my_last_block, slot 1
     applied : [BlockId -> Nat],                \* executions of the block
     status  : [block : BlockId \cup {NoBlock}, version : 0 .. 2]]
                                                \* _block_extend_status

EmptyDatabase ==
    [blocks  |-> {},
     childs  |-> [b \in BlockId |-> {}],
     num     |-> [m \in Node |-> [k \in Number |-> NoBlock]],
     last    |-> [m \in Node |-> 0],
     head    |-> NoBlock,
     applied |-> [b \in BlockId |-> 0],
     status  |-> [block |-> NoBlock, version |-> 0]]

-----------------------------------------------------------------------------
(* Reading a database d.                                                   *)

\* get_block_optional(get_block_id(number)) finds a block.
HasBlock(d, m, k) == d.num[m][k] \in d.blocks

\* A stored block that still accepts children (it is not "complete").
IsOpen(d, m, k) ==
    /\ HasBlock(d, m, k)
    /\ Cardinality(d.childs[d.num[m][k]]) < MinChildren

\* The parents of a new block: walking back from the last block of every
\* producer, the open blocks found before the first one that is not open.
Candidates(d) ==
    {b \in BlockId : \E m \in Node : \E k \in 1 .. d.last[m] :
        /\ b = d.num[m][k]
        /\ d.last[m] - k < LookBack
        /\ \A i \in k .. d.last[m] : IsOpen(d, m, i)}

\* Faulty RankAbove: no increment.
RankNotAbove(C, r) ==
    /\ \A c \in C : hdr[c].rank <= r
    /\ IF C = {} THEN r = 1 ELSE \E c \in C : r = hdr[c].rank

\* r is one more than the largest rank in C, and 1 when C is empty.
RankAbove(C, r) ==
    /\ \A c \in C : hdr[c].rank < r
    /\ IF C = {} THEN r = 1 ELSE \E c \in C : r = hdr[c].rank + 1

\* Faulty CanPush: the parents are not looked up.
CanPushAny(d, b) == TRUE

\* ClientImpl::can_push_block
CanPush(d, b) == hdr[b].parents \subseteq d.blocks

\* Faulty IsNew: the check is missing.
IsNewAlways(d, b) == TRUE

\* The check at the start of push_block.
IsNew(d, b) == b \notin d.blocks

-----------------------------------------------------------------------------
(* The writes of push_block(b), in order.  h is b's header, kids the child *)
(* list carried by the FullBlock that is pushed.                           *)

\* Faulty orders: the block is stored while its parents are being linked; the
\* last index is written before the block.
StoreBlockEarly == 1
StoreLastEarly  == 5

LinkParents  == 1   \* b is appended to the child lists of stored parents
MarkExtend   == 2   \* extend_chain: store_extend_status(b, 1)
ApplyChanges == 3   \* extend_chain: the effects reach the state databases
MarkDone     == 4   \* extend_chain: store_extend_status(b, 2)
StoreNumber  == 5   \* _block_num_to_id_db
StoreBlock   == 6   \* _block_id_to_full_block
StoreLast    == 7   \* update_last_index
StoreHead    == 8   \* update_head_block

\* Faulty forms of LastIndex: a sum; an off-by-one in the comparison.
LastIndexSum(old, k) == old + k
LastIndexOffByOne(old, k) == IF k > old + 1 THEN k ELSE old

\* update_last_index
LastIndex(old, k) == IF k > old THEN k ELSE old

\* Faulty Replaces: ranks are compared before timestamps.
ReplacesByRank(old, h) ==
    \/ old = NoBlock
    \/ old.rank < h.rank
    \/ old.rank = h.rank /\ old.time < h.time

\* update_head_block: does header h replace the one in the slot?
Replaces(old, h) ==
    \/ old = NoBlock
    \/ old.time < h.time
    \/ /\ old.time = h.time
       /\ \/ old.rank < h.rank
          \/ old.node = h.node /\ old.produced < h.produced

\* The database when the writes up to and including s have been made and the
\* parents in L have been linked.
PushUpTo(d, b, h, kids, L, s) ==
    [blocks  |-> IF s >= StoreBlock THEN d.blocks \cup {b} ELSE d.blocks,
     childs  |-> [p \in BlockId |->
                    IF p = b /\ s >= StoreBlock THEN kids
                    ELSE IF p \in L \cap d.blocks THEN d.childs[p] \cup {b}
                    ELSE d.childs[p]],
     num     |-> IF s >= StoreNumber
                 THEN [d.num EXCEPT ![h.node][h.produced] = b] ELSE d.num,
     last    |-> IF s >= StoreLast
                 THEN [d.last EXCEPT ![h.node] = LastIndex(@, h.produced)]
                 ELSE d.last,
     head    |-> IF s >= StoreHead /\ Replaces(d.head, h) THEN h ELSE d.head,
     applied |-> IF s >= ApplyChanges
                 THEN [d.applied EXCEPT ![b] = @ + 1] ELSE d.applied,
     status  |-> IF s < MarkExtend THEN d.status
                 ELSE [block |-> b, version |-> IF s < MarkDone THEN 1 ELSE 2]]

\* push_block of a block that is not stored yet.
Pushed(d, b, h, kids) == PushUpTo(d, b, h, kids, h.parents, StoreHead)

\* Faulty Refused: the effects are applied before the exception.
RefusedApplied(d, b, h) == PushUpTo(d, b, h, {}, h.parents, MarkDone)

\* extend_chain throws: the parents stay linked, push_block goes no further.
Refused(d, b, h) ==
    [PushUpTo(d, b, h, {}, h.parents, LinkParents) EXCEPT
        !.status = [block |-> b, version |-> 2]]

\* What a crash inside push_block may leave on disk.
CrashPrefixes(d, b, h, kids) ==
    {PushUpTo(d, b, h, kids, L, LinkParents) : L \in SUBSET h.parents}
      \cup {PushUpTo(d, b, h, kids, h.parents, s) : s \in MarkExtend .. StoreHead}

\* repair_block, whose body is commented out.
RepairBlock(d, b) == d

\* repair_database, called when the client starts.
Repaired(d) ==
    IF d.status.version = 1 THEN RepairBlock(d, d.status.block) ELSE d

-----------------------------------------------------------------------------
Init ==
    /\ made = {}
    /\ hdr = [b \in BlockId |-> NoBlock]
    /\ db = [n \in Node |-> EmptyDatabase]
    /\ second = [n \in Node |-> NoBlock]
    /\ mode = [n \in Node |-> IF n \in Producer THEN "looping" ELSE "idle"]
    /\ sent = {}
    /\ served = {}
    /\ faults = 0

Fault(kind) ==
    /\ kind \in Faults
    /\ faults < MaxFaults
    /\ faults' = faults + 1

\* Node n dies inside push_block(b); its fibers are gone, its files stay.
CrashInPush(n, b, h, kids) ==
    /\ Fault("crash")
    /\ \E d \in CrashPrefixes(db[n], b, h, kids) : db' = [db EXCEPT ![n] = d]
    /\ second' = [second EXCEPT ![n] = NoBlock]
    /\ mode' = [mode EXCEPT ![n] = "down"]
    /\ UNCHANGED sent

\* Faulty forms of OwnPush: an exception is swallowed and the loop goes on; the
\* block is broadcast before it is pushed.
OwnPushContinues(n, b, h, next) ==
    \/ /\ db' = [db EXCEPT ![n] = Pushed(db[n], b, h, {})]
       /\ sent' = sent \cup {b}
       /\ second' = [second EXCEPT ![n] = next]
       /\ UNCHANGED <<mode, faults>>
    \/ /\ Fault("throw")
       /\ db' = [db EXCEPT ![n] = Refused(db[n], b, h)]
       /\ second' = [second EXCEPT ![n] = next]
       /\ UNCHANGED <<mode, sent>>
OwnPushSendsFirst(n, b, h, next) ==
    /\ sent' = sent \cup {b}
    /\ \/ /\ db' = [db EXCEPT ![n] = Pushed(db[n], b, h, {})]
          /\ second' = [second EXCEPT ![n] = next]
          /\ UNCHANGED <<mode, faults>>
       \/ /\ Fault("throw")
          /\ db' = [db EXCEPT ![n] = Refused(db[n], b, h)]
          /\ second' = [second EXCEPT ![n] = NoBlock]
          /\ mode' = [mode EXCEPT ![n] = "idle"]

\* push_block(b) called by node n's delegate loop, which broadcasts the block
\* after a successful push and has the block next left to push.
OwnPush(n, b, h, next) ==
    \/ /\ db' = [db EXCEPT ![n] = Pushed(db[n], b, h, {})]
       /\ sent' = sent \cup {b}
       /\ second' = [second EXCEPT ![n] = next]
       /\ UNCHANGED <<mode, faults>>
    \/ \* nothing in delegate_loop catches: it ends without rescheduling itself
       /\ Fault("throw")
       /\ db' = [db EXCEPT ![n] = Refused(db[n], b, h)]
       /\ second' = [second EXCEPT ![n] = NoBlock]
       /\ mode' = [mode EXCEPT ![n] = "idle"]
       /\ UNCHANGED sent
    \/ CrashInPush(n, b, h, {})

\* The id of a new block: a hash, different from every other id.
FreshId(used) == CHOOSE b \in BlockId : b \notin used

\* The header of a block that node n makes on top of its current tips.
NewHeader(n, k, r, t, trx) ==
    [node |-> n, produced |-> k, rank |-> r, time |-> t, trx |-> trx,
     parents |-> Candidates(db[n])]

\* delegate_loop: generate_block on a non-empty pool, sign, push, broadcast.
GenerateBlock(n) ==
    /\ mode[n] = "looping" /\ second[n] = NoBlock
    /\ BlockId \ made # {}
    /\ db[n].last[n] + 1 \in Number
    /\ \E t \in Time, r \in Number :
          LET b == FreshId(made)
              h == NewHeader(n, db[n].last[n] + 1, r, t, TRUE) IN
          /\ RankAbove(h.parents, r)
          /\ made' = made \cup {b}
          /\ hdr' = [hdr EXCEPT ![b] = h]
          /\ OwnPush(n, b, h, NoBlock)
    /\ UNCHANGED served

\* delegate_loop after three idle rounds: generate_empty_blocks makes two
\* blocks on the same parents; the first is pushed and broadcast.
GenerateEmptyBlocks(n) ==
    /\ mode[n] = "looping" /\ second[n] = NoBlock
    /\ BlockId \ made # {}
    /\ BlockId \ (made \cup {FreshId(made)}) # {}
    /\ db[n].last[n] + 2 \in Number
    /\ \E c \in Candidates(db[n]) : hdr[c].trx
    /\ \E t \in Time, r \in Number :
          LET b  == FreshId(made)
              b2 == FreshId(made \cup {b})
              k  == db[n].last[n]
              h  == NewHeader(n, k + 1, r, t, FALSE)
              h2 == NewHeader(n, k + 2, r, t, FALSE) IN
          /\ RankAbove(h.parents, r)
          /\ made' = made \cup {b, b2}
          /\ hdr' = [hdr EXCEPT ![b] = h, ![b2] = h2]
          /\ OwnPush(n, b, h, b2)
    /\ UNCHANGED served

\* delegate_loop, once the broadcast of the first empty block has returned.
PushSecondEmpty(n) ==
    /\ second[n] # NoBlock
    /\ OwnPush(n, second[n], hdr[second[n]], NoBlock)
    /\ UNCHANGED <<made, hdr, served>>

\* get_sync_reply_blocks_v2 puts b in a reply to some request: the walk finds
\* blocks by number, also past the last index, if the producer has one at all.
\* A block that was broadcast is on the network anyway.
ServeBlock(n, b) ==
    /\ mode[n] # "down"
    /\ b \in db[n].blocks \ (sent \cup served)
    /\ LET h == hdr[b] IN db[n].last[h.node] > 0 /\ db[n].num[h.node][h.produced] = b
    /\ served' = served \cup {b}
    /\ UNCHANGED <<made, hdr, db, second, mode, sent, faults>>

\* push_block(b) for a block that another node sent.  A block whose parents
\* are missing, or that is stored already, leaves the database alone.  An
\* exception ends the handler or the task, not the node.
ReceivedPush(n, b, kids) ==
    /\ mode[n] # "down"
    /\ b \in sent \cup served /\ IsNew(db[n], b)
    /\ CanPush(db[n], b)
    /\ \/ /\ db' = [db EXCEPT ![n] = Pushed(db[n], b, hdr[b], kids)]
          /\ UNCHANGED <<second, mode, sent, faults>>
       \/ /\ Fault("throw")
          /\ db' = [db EXCEPT ![n] = Refused(db[n], b, hdr[b])]
          /\ UNCHANGED <<second, mode, sent>>
       \/ CrashInPush(n, b, hdr[b], kids)
    /\ UNCHANGED <<made, hdr, served>>

\* on_new_block: the producer broadcast the block before it had children.
OnNewBlock(n, b) == b \in sent /\ ReceivedPush(n, b, {})

\* A push by on_sync_reply_message: the block carries the child list that the
\* replying node had for it.
OnSyncBlock(n, b) ==
    \E kids \in SUBSET {c \in made : b \in hdr[c].parents} : ReceivedPush(n, b, kids)

\* The client starts again on the files the crash left.
Restart(n) ==
    /\ mode[n] = "down"
    /\ mode' = [mode EXCEPT ![n] = "idle"]
    /\ db' = [db EXCEPT ![n] = Repaired(db[n])]
    /\ UNCHANGED <<made, hdr, second, sent, served, faults>>

\* reschedule_delegate_loop, when a wallet command makes production possible.
RescheduleDelegateLoop(n) ==
    /\ n \in Producer /\ mode[n] = "idle"
    /\ mode' = [mode EXCEPT ![n] = "looping"]
    /\ UNCHANGED <<made, hdr, db, second, sent, served, faults>>

Next ==
    \E n \in Node :
        \/ GenerateBlock(n)
        \/ GenerateEmptyBlocks(n)
        \/ PushSecondEmpty(n)
        \/ \E b \in BlockId : ServeBlock(n, b) \/ OnNewBlock(n, b) \/ OnSyncBlock(n, b)
        \/ Restart(n)
        \/ RescheduleDelegateLoop(n)

Spec == Init /\ [][Next]_vars

-----------------------------------------------------------------------------
(* Properties.                                                             *)

TypeOK ==
    /\ made \subseteq BlockId
    /\ hdr \in [BlockId -> Header \cup {NoBlock}]
    /\ db \in [Node -> ChainDatabase]
    /\ second \in [Node -> BlockId \cup {NoBlock}]
    /\ mode \in [Node -> {"down", "idle", "looping"}]
    /\ sent \subseteq BlockId /\ served \subseteq BlockId
    /\ faults \in 0 .. MaxFaults

\* The parent relation only leads to blocks of a smaller rank, so the DAG
\* has no cycle, whatever the producers' tips were when blocks were made.
ParentRank ==
    \A b \in made : \A p \in hdr[b].parents :
        p \in made /\ hdr[p].rank < hdr[b].rank

\* Every node's block store is closed under parents: can_push_block admits
\* nothing else, and no exception or crash in push_block undoes it.
AncestorsStored ==
    \A n \in Node : \A b \in db[n].blocks : hdr[b].parents \subseteq db[n].blocks

\* A stored block is in the child list of each of its parents: push_block
\* links before it stores, so no prefix of its writes loses a link.
ChildrenLinked ==
    \A n \in Node : \A b \in db[n].blocks : \A p \in hdr[b].parents :
        b \in db[n].childs[p]

\* A producer's last number on a node is the number of a block it stores, also
\* after a crash that came before or after update_last_index.
LastExists ==
    \A n \in Node, m \in Node : db[n].last[m] > 0 =>
        \E b \in db[n].blocks : hdr[b].node = m /\ hdr[b].produced = db[n].last[m]

\* Two broadcast blocks never share a number, although the number is computed
\* from a database that exceptions and crashes leave behind.  A block that a
\* crash left behind and only sync replies carry may share its number.
NumbersUnique ==
    \A b, c \in sent :
        /\ hdr[b].node = hdr[c].node
        /\ hdr[b].produced = hdr[c].produced
        => b = c

\* A block number leads to the same block on all replicas that find one.
NumbersAgree ==
    \A n, m, p \in Node : \A k \in Number :
        HasBlock(db[n], p, k) /\ HasBlock(db[m], p, k) => db[n].num[p][k] = db[m].num[p][k]

\* On a running node a stored block has been executed exactly once and any
\* other block not at all; after a crash this is repair_database's task.
ExecutedOnce ==
    \A n \in Node : \A b \in BlockId : mode[n] # "down" =>
        db[n].applied[b] = IF b \in db[n].blocks THEN 1 ELSE 0

\* Blocks arrive in any order, and the head slot holds the header of a stored
\* block with the latest timestamp of all; it is empty on an empty store.
HeadLatest ==
    \A n \in Node :
        IF db[n].blocks = {} THEN db[n].head = NoBlock
        ELSE /\ \E b \in db[n].blocks : db[n].head = hdr[b]
             /\ \A b \in db[n].blocks : hdr[b].time <= db[n].head.time

-----------------------------------------------------------------------------
(* What makes the properties that hold under every fault inductive.        *)

\* Created blocks have headers, and only created blocks are stored.
MadeBlocks ==
    /\ \A b \in made : hdr[b] \in Header
    /\ \A n \in Node : db[n].blocks \subseteq made

\* A broadcast block is stored and counted by its producer.
SentCounted ==
    \A b \in sent :
        LET m == hdr[b].node IN
        b \in made /\ b \in db[m].blocks /\ hdr[b].produced <= db[m].last[m]

\* Blocks that left a node exist, and their producers keep them.
ShownStored == \A b \in sent \cup served : b \in made /\ b \in db[hdr[b].node].blocks

\* What a node stores its producer stores.
ForeignStored == \A n \in Node : \A b \in db[n].blocks : b \in db[hdr[b].node].blocks

\* The second empty block waiting to be pushed has the producer's next number
\* and parents its producer stores.
SecondIsNext ==
    \A n \in Node : second[n] # NoBlock =>
        LET h == hdr[second[n]] IN
        /\ second[n] \in made
        /\ h.node = n
        /\ h.produced = db[n].last[n] + 1
        /\ h.parents \subseteq db[n].blocks
        /\ \A m \in Node : second[n] \notin db[m].blocks
        /\ \A m \in Node : second[m] = second[n] => m = n

\* What push_block and the delegate loop keep true whatever an exception or a
\* crash leaves: links, indexes and numbers agree with the stores.
DagInv ==
    /\ TypeOK
    /\ MadeBlocks
    /\ ParentRank
    /\ AncestorsStored
    /\ ChildrenLinked
    /\ LastExists
    /\ NumbersUnique
    /\ SentCounted
    /\ ShownStored
    /\ ForeignStored
    /\ SecondIsNext

-----------------------------------------------------------------------------
(* What exceptions alone, without crashes, leave true.                     *)

\* Stored blocks are broadcast blocks, found by number and counted.
StoredFound ==
    \A n \in Node : \A b \in db[n].blocks :
        /\ b \in sent
        /\ db[n].num[hdr[b].node][hdr[b].produced] = b
        /\ hdr[b].produced <= db[n].last[hdr[b].node]

\* An entry of a number index is a block with that number.
NumbersTrue ==
    \A n, m \in Node : \A k \in Number :
        LET b == db[n].num[m][k] IN
        b # NoBlock => b \in made /\ hdr[b].node = m /\ hdr[b].produced = k

\* Without crashes every stored block went through push_block to the end, its
\* execution, its indexes and the head slot, and sync serves nothing else.
WholeInv ==
    /\ DagInv
    /\ \A n \in Node : mode[n] # "down"
    /\ served = {}
    /\ NumbersTrue
    /\ StoredFound
    /\ ExecutedOnce
    /\ HeadLatest

=============================================================================
