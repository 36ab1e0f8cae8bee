------------------------------ MODULE DagSync ------------------------------
(***************************************************************************)
(* How blocks travel between nodes: the broadcast of new blocks, and the   *)
(* sync protocol of ClientImpl that fetches missing ones.                  *)
(*                                                                         *)
(* The module adds the network and the client's tasks to BlockDag; every   *)
(* change of a database is an action of BlockDag, so that SyncSpec         *)
(* implements Spec.                                                        *)
(*                                                                         *)
(* Each node has one client thread with cooperative tasks and a p2p        *)
(* thread.  A broadcast goes through the p2p thread's _pending_messages    *)
(* and is copied to the peers' queues later; a direct send does not wait   *)
(* there and may overtake it.  A connection delivers in order and handles  *)
(* one message at a time; its messages are lost when it breaks.            *)
(*                                                                         *)
(* Abstracted: timers (sync_loop may fire whenever its last request and    *)
(* the reply to it are not on their way any more), block sizes (a reply of *)
(* at least MaxReply blocks may be cut anywhere), the wallet.              *)
(***************************************************************************)
EXTENDS BlockDag, Sequences

CONSTANTS
    Peers,         \* pairs of nodes that have a connection
    MaxReply,      \* blocks in a sync reply before its size is limited
    EmptyBlocks,   \* the producers whose idle loops produce empty blocks
    Asking,        \* the nodes whose sync_loop sends requests: bounds the model
    MaxTasks,      \* bound on the tasks that are pending when sync_loop fires
    MaxBreaks      \* bound on the number of broken connections

ASSUME DagSyncAssumption ==
    /\ Node \subseteq Nat
    /\ IsFiniteSet(BlockId)
    /\ Peers \subseteq SUBSET Node
    /\ MaxReply \in Nat
    /\ EmptyBlocks \subseteq Producer
    /\ Asking \subseteq Node
    /\ MaxTasks \in Nat
    /\ MaxBreaks \in Nat
    /\ Faults \subseteq {"throw"}

VARIABLES
    out,       \* node -> _pending_messages of its p2p thread
    link,      \* sender -> receiver -> messages sent and not yet handled
    up,        \* pairs of nodes that are connected now
    breaks,    \* connections broken so far
    syncing,   \* node -> is_syncing
    inReply,   \* node -> in_process_sync_reply
    waiting,   \* node -> peers whose block handler waits for its request's send
    jobs,      \* node -> tasks scheduled by the message handlers, in order
    running    \* node -> is the first task in progress?

net == <<out, link, up, breaks>>
client == <<syncing, inReply, waiting, jobs, running>>
syncVars == <<vars, net, client>>

Elements(s) == {s[i] : i \in 1 .. Len(s)}

-----------------------------------------------------------------------------
(* Messages and the network.                                               *)

BlockMsg(b)    == [type |-> "block", block |-> b]
RequestMsg(d)  == [type |-> "request", numbers |-> d.last]
ReplyMsg(list) == [type |-> "reply", list |-> list]

\* Node::send_to_addr: nothing is sent when the peer is not connected.
SendTo(l, n, m, msg) ==
    IF {n, m} \in up THEN [l EXCEPT ![n][m] = Append(@, msg)] ELSE l

\* One iteration of advertise_inventory_loop in node n's p2p thread.
AdvertiseLoop(n) ==
    /\ out[n] # <<>>
    /\ link' = [link EXCEPT ![n] =
                  [m \in Node |-> IF {n, m} \in up THEN @[m] \o out[n] ELSE @[m]]]
    /\ out' = [out EXCEPT ![n] = <<>>]
    /\ UNCHANGED <<vars, up, breaks, client>>

\* A connection breaks: what it carried is lost, in both directions.
Disconnect(n, m) ==
    /\ {n, m} \in up
    /\ breaks < MaxBreaks
    /\ breaks' = breaks + 1
    /\ up' = up \ {{n, m}}
    /\ link' = [link EXCEPT ![n][m] = <<>>, ![m][n] = <<>>]
    /\ UNCHANGED <<vars, out, client>>

\* p2p_network_connect_loop tries the peers it knows again every ten seconds.
Connect(n, m) ==
    /\ {n, m} \in Peers \ up
    /\ up' = up \cup {{n, m}}
    /\ UNCHANGED <<vars, out, link, breaks, client>>

-----------------------------------------------------------------------------
(* What a sync reply contains.                                             *)

\* can_get_sync_blocks
CanServe(d, numbers) == \E m \in Node : d.last[m] > numbers[m]

\* Faulty Served: the number after the requester's is left out.
ServedOffByOne(d, numbers) ==
    {b \in d.blocks : \E m \in Node, k \in Number :
        /\ d.last[m] > 0
        /\ k > numbers[m] + 1
        /\ b = d.num[m][k]
        /\ \A i \in numbers[m] + 1 .. k : HasBlock(d, m, i)}

\* The blocks get_sync_reply_blocks_v2 walks over: for every producer, from the
\* number after the requester's on, up to the first number without a block.
Served(d, numbers) ==
    {b \in d.blocks : \E m \in Node, k \in Number :
        /\ d.last[m] > 0
        /\ k > numbers[m]
        /\ b = d.num[m][k]
        /\ \A i \in numbers[m] + 1 .. k : HasBlock(d, m, i)}

\* The merge takes the smallest rank among the next blocks of all producers, so
\* a block waits for the largest rank on its producer's list up to itself.
WaitsFor(S, b) ==
    {hdr[c].rank : c \in {x \in S : hdr[x].node = hdr[b].node
                                      /\ hdr[x].produced <= hdr[b].produced}}

MergeRank(S, b) == CHOOSE r \in WaitsFor(S, b) : \A q \in WaitsFor(S, b) : q <= r

\* Faulty Before: one producer after the other.
BeforeByNode(S, b, c) ==
    \/ hdr[b].node < hdr[c].node
    \/ hdr[b].node = hdr[c].node /\ hdr[b].produced < hdr[c].produced

\* Ties go to the first producer in the index list.
Before(S, b, c) ==
    LET r == MergeRank(S, b)
        q == MergeRank(S, c) IN
    \/ r < q
    \/ r = q /\ hdr[b].node < hdr[c].node
    \/ r = q /\ hdr[b].node = hdr[c].node /\ hdr[b].produced < hdr[c].produced

Merged(S) ==
    [i \in 1 .. Cardinality(S) |->
        CHOOSE b \in S : Cardinality({c \in S : Before(S, c, b)}) = i - 1]

\* The replies that may be sent: the size limit cuts the list after MaxReply
\* blocks or later.  Each block carries the child list known to the sender.
Replies(d, numbers) ==
    LET s == Merged(Served(d, numbers)) IN
    {[i \in 1 .. k |-> [block |-> s[i], childs |-> d.childs[s[i]]]] :
        k \in {j \in 0 .. Len(s) : j = Len(s) \/ j >= MaxReply}}

-----------------------------------------------------------------------------
(* The delegate loop, with its broadcasts.                                 *)

\* No task of node n is between two of its pushes.
Idle(n) == ~running[n]

\* broadcast_new_block, if the push succeeded.
Broadcast(n) ==
    /\ out' = [out EXCEPT ![n] =
                 IF sent' = sent THEN @
                 ELSE Append(@, BlockMsg(CHOOSE b \in sent' : b \notin sent))]
    /\ UNCHANGED <<link, up, breaks>>

DelegateLoop(n) ==
    /\ Idle(n)
    /\ \/ GenerateBlock(n)
       \/ n \in EmptyBlocks /\ GenerateEmptyBlocks(n)
       \/ PushSecondEmpty(n)
    /\ Broadcast(n)
    /\ UNCHANGED client

-----------------------------------------------------------------------------
(* handle_message on node n, for the first message from peer m.            *)

Receives(n, m, type) ==
    /\ Idle(n)
    /\ m \notin waiting[n]
    /\ link[m][n] # <<>>
    /\ Head(link[m][n]).type = type

Consumed(n, m) == [link EXCEPT ![m][n] = Tail(@)]

\* While a sync reply is being processed, blocks and other replies are ignored.
DropMessage(n, m) ==
    /\ Receives(n, m, "block") \/ Receives(n, m, "reply")
    /\ inReply[n]
    /\ link' = Consumed(n, m)
    /\ UNCHANGED <<vars, out, up, breaks, client>>

\* The block fits: on_new_block pushes it.  An exception skips the rest.
AcceptBlock(n, m) ==
    LET b == Head(link[m][n]).block IN
    /\ Receives(n, m, "block")
    /\ ~inReply[n]
    /\ CanPush(db[n], b)
    /\ \/ OnNewBlock(n, b)
       \/ ~IsNew(db[n], b) /\ UNCHANGED vars
    /\ syncing' = IF faults' = faults THEN [syncing EXCEPT ![n] = FALSE] ELSE syncing
    /\ link' = Consumed(n, m)
    /\ UNCHANGED <<out, up, breaks, inReply, waiting, jobs, running>>

\* A parent is missing: the sender is asked, unless a sync is under way.  The
\* handler waits for the p2p thread before it sets is_syncing.
AskSender(n, m) ==
    /\ Receives(n, m, "block")
    /\ ~inReply[n]
    /\ ~CanPush(db[n], Head(link[m][n]).block)
    /\ IF syncing[n]
       THEN link' = Consumed(n, m) /\ UNCHANGED waiting
       ELSE /\ link' = SendTo(Consumed(n, m), n, m, RequestMsg(db[n]))
            /\ waiting' = [waiting EXCEPT ![n] = @ \cup {m}]
    /\ UNCHANGED <<vars, out, up, breaks, syncing, inReply, jobs, running>>

RequestSent(n, m) ==
    /\ Idle(n)
    /\ m \in waiting[n]
    /\ waiting' = [waiting EXCEPT ![n] = @ \ {m}]
    /\ syncing' = [syncing EXCEPT ![n] = TRUE]
    /\ UNCHANGED <<vars, net, inReply, jobs, running>>

\* on_sync_request_message
OnSyncRequest(n, m) ==
    /\ Receives(n, m, "request")
    /\ link' = Consumed(n, m)
    /\ LET numbers == Head(link[m][n]).numbers IN
       jobs' = IF CanServe(db[n], numbers)
               THEN [jobs EXCEPT ![n] =
                       Append(@, [kind |-> "serve", peer |-> m, numbers |-> numbers])]
               ELSE jobs
    /\ UNCHANGED <<vars, out, up, breaks, syncing, inReply, waiting, running>>

\* get_new_block_list
NewBlocks(d, list) ==
    LET new[i \in 0 .. Len(list)] ==
          IF i = 0 THEN <<>>
          ELSE IF IsNew(d, list[i].block) THEN Append(new[i - 1], list[i]) ELSE new[i - 1] IN
    new[Len(list)]

\* on_sync_reply_message
OnSyncReply(n, m) ==
    /\ Receives(n, m, "reply")
    /\ ~inReply[n]
    /\ link' = Consumed(n, m)
    /\ LET list == NewBlocks(db[n], Head(link[m][n]).list) IN
       IF list = <<>>
       THEN UNCHANGED <<syncing, inReply, jobs>>
       ELSE /\ syncing' = [syncing EXCEPT ![n] = TRUE]
            /\ inReply' = [inReply EXCEPT ![n] = TRUE]
            /\ jobs' = [jobs EXCEPT ![n] =
                          Append(@, [kind |-> "push", peer |-> m, list |-> list])]
    /\ UNCHANGED <<vars, out, up, breaks, waiting, running>>

-----------------------------------------------------------------------------
(* The tasks scheduled by the handlers, and sync_loop.                     *)

Starts(n, kind) == jobs[n] # <<>> /\ Head(jobs[n]).kind = kind

\* The task of on_sync_request_message.
ServeTask(n) ==
    /\ Starts(n, "serve")
    /\ \E list \in Replies(db[n], Head(jobs[n]).numbers) :
          link' = IF list = <<>> THEN link
                  ELSE SendTo(link, n, Head(jobs[n]).peer, ReplyMsg(list))
    /\ jobs' = [jobs EXCEPT ![n] = Tail(@)]
    /\ UNCHANGED <<vars, out, up, breaks, syncing, inReply, waiting, running>>

\* Faulty PushTask: blocks are pushed without can_push_block.
PushTaskUnchecked(n) ==
    /\ Starts(n, "push") /\ Head(jobs[n]).list # <<>>
    /\ LET e == Head(Head(jobs[n]).list) IN
       db' = [db EXCEPT ![n] = Pushed(@, e.block, hdr[e.block], e.childs)]
    /\ jobs' = [jobs EXCEPT ![n][1].list = Tail(@)]
    /\ running' = [running EXCEPT ![n] = TRUE]
    /\ UNCHANGED <<made, hdr, second, mode, sent, served, faults, net, syncing, inReply, waiting>>

\* The task of on_sync_reply_message pushes its next block.  It is not
\* preempted; an exception ends it and leaves in_process_sync_reply set.
PushTask(n) ==
    /\ Starts(n, "push") /\ Head(jobs[n]).list # <<>>
    /\ LET e == Head(Head(jobs[n]).list) IN
       /\ CanPush(db[n], e.block)
       /\ \/ ReceivedPush(n, e.block, e.childs)
          \/ ~IsNew(db[n], e.block) /\ UNCHANGED vars
    /\ IF faults' = faults
       THEN /\ jobs' = [jobs EXCEPT ![n][1].list = Tail(@)]
            /\ running' = [running EXCEPT ![n] = TRUE]
       ELSE /\ jobs' = [jobs EXCEPT ![n] = Tail(@)]
            /\ running' = [running EXCEPT ![n] = FALSE]
    /\ UNCHANGED <<net, syncing, inReply, waiting>>

\* The list is done or the next block does not fit: the replier is asked again.
PushTaskDone(n) ==
    /\ Starts(n, "push")
    /\ LET list == Head(jobs[n]).list IN
       list # <<>> => ~CanPush(db[n], Head(list).block)
    /\ inReply' = [inReply EXCEPT ![n] = FALSE]
    /\ link' = SendTo(link, n, Head(jobs[n]).peer, RequestMsg(db[n]))
    /\ jobs' = [jobs EXCEPT ![n] = Tail(@)]
    /\ running' = [running EXCEPT ![n] = FALSE]
    /\ UNCHANGED <<vars, out, up, breaks, syncing, waiting>>

\* A request of node n, or the reply to it, is on its way.
RequestUnderWay(n) ==
    \/ \E msg \in Elements(out[n]) : msg.type = "request"
    \/ \E m \in Node :
          \/ \E msg \in Elements(link[n][m]) : msg.type = "request"
          \/ \E job \in Elements(jobs[m]) : job.kind = "serve" /\ job.peer = n
          \/ \E msg \in Elements(link[m][n]) : msg.type = "reply"

\* Faulty forms of SyncLoop: no request; no turn while a sync is under way.
SyncLoopSilent(n) ==
    /\ n \in Asking /\ Idle(n)
    /\ syncing' = [syncing EXCEPT ![n] = FALSE]
    /\ inReply' = [inReply EXCEPT ![n] = FALSE]
    /\ UNCHANGED <<vars, net, waiting, jobs, running>>
SyncLoopUnlessSyncing(n) ==
    /\ n \in Asking /\ Idle(n) /\ ~syncing[n]
    /\ ~RequestUnderWay(n) /\ Len(jobs[n]) <= MaxTasks
    /\ inReply' = [inReply EXCEPT ![n] = FALSE]
    /\ out' = [out EXCEPT ![n] = Append(@, RequestMsg(db[n]))]
    /\ UNCHANGED <<vars, link, up, breaks, syncing, waiting, jobs, running>>

\* sync_loop, when sync_counter has reached SYNC_INTERVAL.
SyncLoop(n) ==
    /\ n \in Asking /\ Idle(n)
    /\ ~RequestUnderWay(n) /\ Len(jobs[n]) <= MaxTasks
    /\ syncing' = [syncing EXCEPT ![n] = FALSE]
    /\ inReply' = [inReply EXCEPT ![n] = FALSE]
    /\ out' = [out EXCEPT ![n] = Append(@, RequestMsg(db[n]))]
    /\ UNCHANGED <<vars, link, up, breaks, waiting, jobs, running>>

-----------------------------------------------------------------------------
SyncInit ==
    /\ Init
    /\ out = [n \in Node |-> <<>>]
    /\ link = [n \in Node |-> [m \in Node |-> <<>>]]
    /\ up = Peers
    /\ breaks = 0
    /\ syncing = [n \in Node |-> FALSE]
    /\ inReply = [n \in Node |-> FALSE]
    /\ waiting = [n \in Node |-> {}]
    /\ jobs = [n \in Node |-> <<>>]
    /\ running = [n \in Node |-> FALSE]

\* reschedule_delegate_loop, as in BlockDag.
Reschedule(n) == Idle(n) /\ RescheduleDelegateLoop(n) /\ UNCHANGED <<net, client>>

HandleMessage(n, m) ==
    \/ DropMessage(n, m)
    \/ AcceptBlock(n, m)
    \/ AskSender(n, m)
    \/ RequestSent(n, m)
    \/ OnSyncRequest(n, m)
    \/ OnSyncReply(n, m)

Task(n) == ServeTask(n) \/ PushTask(n) \/ PushTaskDone(n)

SyncNext ==
    \/ \E n \in Node :
          AdvertiseLoop(n) \/ DelegateLoop(n) \/ Task(n) \/ SyncLoop(n) \/ Reschedule(n)
    \/ \E n, m \in Node : HandleMessage(n, m) \/ Disconnect(n, m) \/ Connect(n, m)

\* WF_syncVars(Task(n)): a task can run exactly when there is one.
TaskFairness(n) == <>[](jobs[n] # <<>>) => []<><<Task(n)>>_syncVars

\* The threads keep running, peers are connected again, and a delegate loop
\* finishes the pair of empty blocks it began.
SyncFairness ==
    /\ \A n \in Node :
          /\ WF_syncVars(AdvertiseLoop(n))
          /\ TaskFairness(n)
          /\ WF_syncVars(SyncLoop(n))
          /\ WF_syncVars(second[n] # NoBlock /\ DelegateLoop(n))
    /\ \A n, m \in Node :
          WF_syncVars(HandleMessage(n, m)) /\ WF_syncVars(Connect(n, m))

SyncSpec == SyncInit /\ [][SyncNext]_syncVars /\ SyncFairness

-----------------------------------------------------------------------------
(* Properties.                                                             *)

\* Every step of the network and the client is a step of BlockDag or leaves
\* its state alone: the sync protocol pushes nothing that on_new_block could
\* not have pushed.
ImplementsDag == Spec

\* No node skips a block: all numbers up to a producer's last one lead to
\* stored blocks.  Sync requests start after the last number, so a block that
\* is skipped is never asked for again.
NoGap ==
    \A n, m \in Node : \A k \in 1 .. db[n].last[m] : HasBlock(db[n], m, k)

\* A reply lists parents before children, or after the requester has them: the
\* merge by rank in get_sync_reply_blocks_v2 never makes the receiver stop.
ReplyInOrder ==
    \A n, m \in Node : \A i \in 1 .. Len(link[m][n]) :
        LET msg == link[m][n][i] IN
        msg.type = "reply" =>
            \A j \in 1 .. Len(msg.list) :
                hdr[msg.list[j].block].parents \subseteq
                    db[n].blocks \cup {msg.list[k].block : k \in 1 .. j - 1}

\* Once production stops, all replicas store the same blocks for good: what
\* broadcasts, broken connections and dropped messages lose, sync recovers.
Convergence == <>[](\A n, m \in Node : db[n].blocks = db[m].blocks)

\* Blocks are not ignored forever: in_process_sync_reply is reset even when
\* the task that should do it died of an exception.
ReplyEnds == \A n \in Node : inReply[n] ~> ~inReply[n]

-----------------------------------------------------------------------------
(* What the network carries: the invariant behind ImplementsDag.           *)

\* Child lists name children only, although they travel with sync replies to
\* nodes that do not have the children.
ChildsTrue ==
    \A n \in Node : \A p \in BlockId :
        db[n].childs[p] \subseteq {c \in made : p \in hdr[c].parents}

Numbers == [Node -> 0 .. MaxNumber]

\* What a sync reply may say of a block.
Item ==
    {e \in [block : BlockId, childs : SUBSET BlockId] :
        e.childs \subseteq {c \in made : e.block \in hdr[c].parents}}

Post == [type : {"block"}, block : BlockId] \cup [type : {"request"}, numbers : Numbers]

Message == Post \cup [type : {"reply"}, list : Seq(Item)]

Job ==
    [kind : {"serve"}, peer : Node, numbers : Numbers]
        \cup [kind : {"push"}, peer : Node, list : Seq(Item)]

NetTypeOK ==
    /\ out \in [Node -> Seq(Post)]
    /\ link \in [Node -> [Node -> Seq(Message)]]
    /\ up \subseteq Peers
    /\ breaks \in Nat
    /\ syncing \in [Node -> BOOLEAN] /\ inReply \in [Node -> BOOLEAN]
    /\ waiting \in [Node -> SUBSET Node]
    /\ jobs \in [Node -> Seq(Job)]
    /\ running \in [Node -> BOOLEAN]

\* Whatever order messages, tasks and broken connections come in, the lists in
\* replies and in the tasks that push them say nothing that is not so.
SyncInv == DagInv /\ NumbersTrue /\ ChildsTrue /\ NetTypeOK /\ served = {}

-----------------------------------------------------------------------------
(* The invariant behind NoGap and ReplyInOrder, with one producer that     *)
(* makes no pairs of empty blocks and fails less than MinChildren times.   *)

OneProducer ==
    (\E p : Producer = {p}) /\ EmptyBlocks = {} /\ MaxFaults < MinChildren

\* Only the producer makes blocks, and one at a time.
Production ==
    \A n \in Node : second[n] = NoBlock /\ (mode[n] = "looping" => n \in Producer)

\* A block of the producer follows its predecessor.
PredecessorLinked ==
    \A b \in sent :
        /\ hdr[b].node \in Producer
        /\ hdr[b].produced > 1 =>
              \E c \in hdr[b].parents : hdr[c].produced = hdr[b].produced - 1

\* The producer's last block has no children but those that were refused.
LastOpen ==
    \A m \in Producer : db[m].last[m] > 0 =>
        LET kids == db[m].childs[db[m].num[m][db[m].last[m]]] IN
        IsFiniteSet(kids) /\ Cardinality(kids) <= faults

ChainInv ==
    /\ DagInv /\ NumbersTrue
    /\ Production /\ StoredFound /\ PredecessorLinked /\ LastOpen /\ NoGap

\* Parents have smaller numbers.
ParentsBefore ==
    \A b \in sent : \A c \in hdr[b].parents :
        c \in sent /\ hdr[c].produced < hdr[b].produced

\* Node n had all the numbers that it said it had.
Had(n, numbers) == \A m \in Node : numbers[m] <= db[n].last[m]

RequestsHad ==
    \A n \in Node :
        /\ \A i \in 1 .. Len(out[n]) :
              out[n][i].type = "request" => Had(n, out[n][i].numbers)
        /\ \A m \in Node :
              /\ \A i \in 1 .. Len(link[n][m]) :
                    link[n][m][i].type = "request" => Had(n, link[n][m][i].numbers)
              /\ \A i \in 1 .. Len(jobs[m]) :
                    jobs[m][i].kind = "serve" /\ jobs[m][i].peer = n => Had(n, jobs[m][i].numbers)

\* A list of blocks with consecutive numbers, the first of which node n has or
\* lacks next.
Consecutive(n, list) ==
    \E f \in 0 .. MaxNumber :
        /\ \A m \in Producer : f <= db[n].last[m]
        /\ \A j \in 1 .. Len(list) :
              list[j].block \in sent /\ hdr[list[j].block].produced = f + j

RepliesConsecutive ==
    \A n, m \in Node : \A i \in 1 .. Len(link[m][n]) :
        link[m][n][i].type = "reply" => Consecutive(n, link[m][n][i].list)

\* A chain of one producer: no number is skipped, a request names numbers that
\* its sender has, and the reply goes on from there without a gap.
OrderInv == SyncInv /\ ChainInv /\ ParentsBefore /\ RequestsHad /\ RepliesConsecutive

=============================================================================
