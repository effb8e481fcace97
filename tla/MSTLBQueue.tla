----------------------------- MODULE MSTLBQueue -----------------------------
(***************************************************************************)
(* concurrent_queue_MSTLB: Michael and Scott's two-lock queue with the     *)
(* spinlock_TTAS_CAS locks, one step per shared memory access.             *)
(*                                                                         *)
(* The list always starts with a dummy node.  Enqueuers append behind tail *)
(* under t_lock, dequeuers (and empty) read from head under h_lock, and    *)
(* the two sides meet without a common lock in the next field of the last  *)
(* node.  Deleted nodes may be handed out again by new, with their old     *)
(* contents.                                                               *)
(***************************************************************************)
EXTENDS Naturals, Sequences

CONSTANTS
  Threads,   \* the threads, each using a handle of its own
  Nodes,     \* the addresses new node_t may return
  Items,     \* the item pointers a program may enqueue
  NoNode,    \* the null pointer
  NoItem     \* contents of a value field never written

Live == "live"        \* the cursor of a queue that is not being destroyed

ASSUME NodesAssumption ==
  /\ Nodes /= {}
  /\ NoNode \notin Nodes
  /\ Live \notin Nodes \cup {NoNode}
ASSUME ItemsAssumption == NoItem \notin Items

VARIABLES
  flag,      \* flag[l]: the flag of spinlock l, 0 or 1 when taken
  head, tail,
  value,     \* value[n] and next[n]: the fields of the node at address n,
  next,      \*   as the other threads see them
  allocated, \* the addresses of nodes that are new'ed and not yet deleted
  pc, op,    \* where each thread is, and in which call
  node,      \* its local variable node (enqueue and try_dequeue)
  newHead,   \* its local variable new_head or head_next
  item,      \* its parameter item
  buffered,  \* the threads whose initialisation of node may still be
             \*   invisible to the others
  cursor,    \* the destructor's n
  chain      \* auxiliary: the nodes linked from head, in order

mem    == <<value, next, allocated>>
locals == <<op, node, newHead, item>>
vars   == <<flag, head, tail, mem, pc, locals, buffered, cursor, chain>>

Locks == {"h_lock", "t_lock"}

PCs == {"idle",
        "t_test", "t_cas", "link", "set_tail", "t_unlock",
        "h_test", "h_cas", "read_head", "read_next",
        "set_head", "read_value", "h_unlock", "delete"}

\* Where a thread holds, and where it waits for, each lock.
Critical == [h_lock |-> {"read_head", "read_next", "set_head", "read_value",
                         "h_unlock"},
             t_lock |-> {"link", "set_tail", "t_unlock"}]
Waiting  == [h_lock |-> {"h_test", "h_cas"}, t_lock |-> {"t_test", "t_cas"}]

-----------------------------------------------------------------------------
\* The constructor: the dummy node's value is not initialised.
Init ==
  /\ flag = [l \in Locks |-> 0]
  /\ head \in Nodes
  /\ tail = head
  /\ value = [n \in Nodes |-> NoItem]
  /\ next = [n \in Nodes |-> NoNode]
  /\ allocated = {head}
  /\ pc = [t \in Threads |-> "idle"]
  /\ op = [t \in Threads |-> "none"]
  /\ node = [t \in Threads |-> NoNode]
  /\ newHead = [t \in Threads |-> NoNode]
  /\ item = [t \in Threads |-> NoItem]
  /\ buffered = {}
  /\ cursor = Live
  /\ chain = <<head>>

At(t, here) == pc[t] = here
Goto(t, there) == pc' = [pc EXCEPT ![t] = there]

\* The call is over and its locals are gone.
Return(t) ==
  /\ Goto(t, "idle")
  /\ op' = [op EXCEPT ![t] = "none"]
  /\ node' = [node EXCEPT ![t] = NoNode]
  /\ newHead' = [newHead EXCEPT ![t] = NoNode]
  /\ item' = [item EXCEPT ![t] = NoItem]

-----------------------------------------------------------------------------
\* spinlock_TTAS_CAS.  A thread that reads the flag as taken reads it again.
Test(t, l, here, cas) ==
  /\ At(t, here)
  /\ flag[l] = 0
  /\ Goto(t, cas)
  /\ UNCHANGED <<flag, head, tail, mem, locals, buffered, cursor, chain>>

\* Stores of thread t that are still buffered become visible to all.
Drain(t) ==
  IF t \in buffered
  THEN /\ value' = [value EXCEPT ![node[t]] = item[t]]
       /\ next' = [next EXCEPT ![node[t]] = NoNode]
       /\ buffered' = buffered \ {t}
  ELSE UNCHANGED <<value, next, buffered>>

\* Mutant: the flag is stored rather than compared and swapped.
CasLock_Store(t, l, here, retry, there) ==
  /\ At(t, here)
  /\ flag' = [flag EXCEPT ![l] = 1]
  /\ Goto(t, there)
  /\ Drain(t)
  /\ UNCHANGED <<head, tail, allocated, locals, cursor, chain>>

\* Mutant: taking the lock is not a write barrier.
CasLock_NoBarrier(t, l, here, retry, there) ==
  /\ At(t, here)
  /\ flag' = [flag EXCEPT ![l] = 1]
  /\ Goto(t, IF flag[l] = 0 THEN there ELSE retry)
  /\ UNCHANGED <<head, tail, mem, locals, buffered, cursor, chain>>

\* The compare-and-swap that takes the lock, a full memory barrier also
\* when it fails.
CasLock(t, l, here, retry, there) ==
  /\ At(t, here)
  /\ flag' = [flag EXCEPT ![l] = 1]
  /\ Goto(t, IF flag[l] = 0 THEN there ELSE retry)
  /\ Drain(t)
  /\ UNCHANGED <<head, tail, allocated, locals, cursor, chain>>

\* The compare-and-swap that releases the lock, a full memory barrier too.
Unlock(t, l) ==
  /\ flag' = [flag EXCEPT ![l] = 0]
  /\ Drain(t)

\* The processor makes the buffered stores visible of its own accord.
StoresDrain(t) ==
  /\ t \in buffered
  /\ Drain(t)
  /\ UNCHANGED <<flag, head, tail, allocated, pc, locals, cursor, chain>>

-----------------------------------------------------------------------------
\* enqueue(item): new node_t(item), whose stores need not be visible yet, so
\* that others would see whatever the address held before.
CallEnqueue(t) ==
  /\ At(t, "idle")
  /\ cursor = Live
  /\ \E i \in Items, n \in Nodes \ allocated :
       /\ item' = [item EXCEPT ![t] = i]
       /\ node' = [node EXCEPT ![t] = n]
       /\ allocated' = allocated \cup {n}
  /\ op' = [op EXCEPT ![t] = "enqueue"]
  /\ buffered' = buffered \cup {t}
  /\ Goto(t, "t_test")
  /\ UNCHANGED <<flag, head, tail, value, next, newHead, cursor, chain>>

TestTLock(t) == Test(t, "t_lock", "t_test", "t_cas")
CasTLock(t) == CasLock(t, "t_lock", "t_cas", "t_test", "link")

\* tail->next = node
Link(t) ==
  /\ At(t, "link")
  /\ next' = [next EXCEPT ![tail] = node[t]]
  /\ chain' = Append(chain, node[t])
  /\ Goto(t, "set_tail")
  /\ UNCHANGED <<flag, head, tail, value, allocated, locals, buffered, cursor>>

\* Mutant: tail stays behind.
SetTail_Forgotten(t) ==
  /\ At(t, "set_tail")
  /\ Goto(t, "t_unlock")
  /\ UNCHANGED <<flag, head, tail, mem, locals, buffered, cursor, chain>>

\* tail = node
SetTail(t) ==
  /\ At(t, "set_tail")
  /\ tail' = node[t]
  /\ Goto(t, "t_unlock")
  /\ UNCHANGED <<flag, head, mem, locals, buffered, cursor, chain>>

UnlockT(t) ==
  /\ At(t, "t_unlock")
  /\ Unlock(t, "t_lock")
  /\ Return(t)
  /\ UNCHANGED <<head, tail, allocated, cursor, chain>>

-----------------------------------------------------------------------------
\* try_dequeue(item) and empty(), which begin alike.
CallOnHead(t, c) ==
  /\ At(t, "idle")
  /\ cursor = Live
  /\ op' = [op EXCEPT ![t] = c]
  /\ Goto(t, "h_test")
  /\ UNCHANGED <<flag, head, tail, mem, node, newHead, item, buffered, cursor,
                 chain>>

CallTryDequeue(t) == CallOnHead(t, "try_dequeue")

\* Mutant: empty() reads the list without the lock.
CallEmpty_Unlocked(t) ==
  /\ At(t, "idle")
  /\ cursor = Live
  /\ op' = [op EXCEPT ![t] = "empty"]
  /\ Goto(t, "read_head")
  /\ UNCHANGED <<flag, head, tail, mem, node, newHead, item, buffered, cursor,
                 chain>>

CallEmpty(t) == CallOnHead(t, "empty")

TestHLock(t) == Test(t, "h_lock", "h_test", "h_cas")
CasHLock(t) == CasLock(t, "h_lock", "h_cas", "h_test", "read_head")

\* node = head
ReadHead(t) ==
  /\ At(t, "read_head")
  /\ node' = [node EXCEPT ![t] = head]
  /\ Goto(t, "read_next")
  /\ UNCHANGED <<flag, head, tail, mem, op, newHead, item, buffered, cursor,
                 chain>>

\* Mutant: the empty queue is not told apart.
ReadNext_NullIgnored(t) ==
  /\ At(t, "read_next")
  /\ newHead' = [newHead EXCEPT ![t] = next[node[t]]]
  /\ Goto(t, IF op[t] = "try_dequeue" THEN "set_head" ELSE "h_unlock")
  /\ UNCHANGED <<flag, head, tail, mem, op, node, item, buffered, cursor,
                 chain>>

\* Mutant: the early return forgets the lock.
ReadNext_NoUnlock(t) ==
  /\ At(t, "read_next")
  /\ IF next[node[t]] = NoNode
     THEN Return(t)
     ELSE /\ newHead' = [newHead EXCEPT ![t] = next[node[t]]]
          /\ Goto(t, IF op[t] = "try_dequeue" THEN "set_head" ELSE "h_unlock")
          /\ UNCHANGED <<op, node, item>>
  /\ UNCHANGED <<flag, head, tail, mem, buffered, cursor, chain>>

\* Mutant: try_dequeue waits for an item while it holds the lock.
ReadNext_Waits(t) ==
  /\ At(t, "read_next")
  /\ op[t] = "try_dequeue" => next[node[t]] /= NoNode
  /\ newHead' = [newHead EXCEPT ![t] = next[node[t]]]
  /\ Goto(t, IF op[t] = "try_dequeue" THEN "set_head" ELSE "h_unlock")
  /\ UNCHANGED <<flag, head, tail, mem, op, node, item, buffered, cursor,
                 chain>>

\* new_head = node->next, and the branch on it
ReadNext(t) ==
  /\ At(t, "read_next")
  /\ newHead' = [newHead EXCEPT ![t] = next[node[t]]]
  /\ Goto(t, IF op[t] = "try_dequeue" /\ next[node[t]] /= NoNode
             THEN "set_head" ELSE "h_unlock")
  /\ UNCHANGED <<flag, head, tail, mem, op, node, item, buffered, cursor,
                 chain>>

\* head = new_head
SetHead(t) ==
  /\ At(t, "set_head")
  /\ head' = newHead[t]
  /\ chain' = Tail(chain)
  /\ Goto(t, "read_value")
  /\ UNCHANGED <<flag, tail, mem, locals, buffered, cursor>>

\* item = new_head->value
ReadValue(t) ==
  /\ At(t, "read_value")
  /\ item' = [item EXCEPT ![t] = value[newHead[t]]]
  /\ Goto(t, "h_unlock")
  /\ UNCHANGED <<flag, head, tail, mem, op, node, newHead, buffered, cursor,
                 chain>>

\* Unlock, and return unless there is a node to delete.
UnlockH(t) ==
  /\ At(t, "h_unlock")
  /\ Unlock(t, "h_lock")
  /\ IF op[t] = "try_dequeue" /\ newHead[t] /= NoNode
     THEN Goto(t, "delete") /\ UNCHANGED locals
     ELSE Return(t)
  /\ UNCHANGED <<head, tail, allocated, cursor, chain>>

\* Mutant: the old dummy node is not deleted.
Delete_Dropped(t) ==
  /\ At(t, "delete")
  /\ Return(t)
  /\ UNCHANGED <<flag, head, tail, mem, buffered, cursor, chain>>

\* delete node; return true
Delete(t) ==
  /\ At(t, "delete")
  /\ allocated' = allocated \ {node[t]}
  /\ Return(t)
  /\ UNCHANGED <<flag, head, tail, value, next, buffered, cursor, chain>>

-----------------------------------------------------------------------------
\* ~concurrent_queue_MSTLB, which its owner runs when no call is under way.
Destroy ==
  /\ cursor = Live
  /\ \A t \in Threads : At(t, "idle")
  /\ cursor' = head
  /\ UNCHANGED <<flag, head, tail, mem, pc, locals, buffered, chain>>

DestroyNode ==
  /\ cursor \in Nodes
  /\ cursor' = next[cursor]
  /\ allocated' = allocated \ {cursor}
  /\ UNCHANGED <<flag, head, tail, value, next, pc, locals, buffered, chain>>

-----------------------------------------------------------------------------
\* The rest of a call, once it is made.
Run(t) ==
  \/ TestTLock(t) \/ CasTLock(t) \/ Link(t) \/ SetTail(t) \/ UnlockT(t)
  \/ TestHLock(t) \/ CasHLock(t) \/ ReadHead(t) \/ ReadNext(t) \/ SetHead(t)
  \/ ReadValue(t) \/ UnlockH(t) \/ Delete(t)

Next ==
  \/ \E t \in Threads :
       \/ CallEnqueue(t) \/ CallTryDequeue(t) \/ CallEmpty(t)
       \/ Run(t)
       \/ StoresDrain(t)
  \/ Destroy
  \/ DestroyNode

Spec == Init /\ [][Next]_vars

\* The operating system lets every thread run; nobody has to make a call.
FairSpec == Spec /\ \A t \in Threads : WF_vars(Run(t))

-----------------------------------------------------------------------------
TypeOK ==
  /\ flag \in [Locks -> {0, 1}]
  /\ head \in Nodes
  /\ tail \in Nodes
  /\ value \in [Nodes -> Items \cup {NoItem}]
  /\ next \in [Nodes -> Nodes \cup {NoNode}]
  /\ allocated \in SUBSET Nodes
  /\ pc \in [Threads -> PCs]
  /\ op \in [Threads -> {"none", "enqueue", "try_dequeue", "empty"}]
  /\ node \in [Threads -> Nodes \cup {NoNode}]
  /\ newHead \in [Threads -> Nodes \cup {NoNode}]
  /\ item \in [Threads -> Items \cup {NoItem}]
  /\ buffered \in SUBSET Threads
  /\ cursor \in Nodes \cup {NoNode, Live}
  /\ chain \in Seq(Nodes)

\* At most one thread is between lock() and unlock() of a lock, and its flag
\* is set while one is: what spinlock_TTAS_CAS is for.
MutualExclusion ==
  \A l \in Locks, t \in Threads :
    pc[t] \in Critical[l] =>
      /\ flag[l] = 1
      /\ \A u \in Threads : pc[u] \in Critical[l] => u = t

\* No thread follows or deletes a pointer to a node that was deleted, although
\* node, new_head and tail are kept across steps of other threads and an
\* address is handed out again at once.  (tail itself does point to a deleted
\* node when a dequeuer overtakes an enqueuer between its two stores.)
NoUseAfterFree ==
  /\ \A t \in Threads :
       /\ At(t, "link") => tail \in allocated
       /\ At(t, "read_next") => node[t] \in allocated
       /\ At(t, "read_value") => newHead[t] \in allocated
       /\ At(t, "delete") => node[t] \in allocated
  /\ cursor \in Nodes => cursor \in allocated

\* The nodes linked so far form one null-terminated list of distinct
\* live nodes from head, and tail is its last node except to the one enqueuer
\* that has linked a node and not yet moved tail: no enqueue is lost to a race
\* on tail->next, and no node is linked twice.
ListIntact ==
  cursor = Live =>
    /\ chain /= <<>> /\ head = chain[1]
    /\ \A i \in 1 .. Len(chain) : chain[i] \in allocated
    /\ \A i, j \in 1 .. Len(chain) : chain[i] = chain[j] => i = j
    /\ \A i \in 1 .. Len(chain) - 1 : next[chain[i]] = chain[i + 1]
    /\ next[chain[Len(chain)]] = NoNode
    /\ \/ tail = chain[Len(chain)]
       \/ \E t \in Threads : At(t, "set_tail") /\ node[t] = chain[Len(chain)]

\* The destructor gives back every node that no thread had deleted.
NoLeak == cursor = NoNode => allocated = {}

OnHead(t) == op[t] \in {"try_dequeue", "empty"}

\* Whether the call of t has taken effect, and what it returns if so.
TookEffect(t) ==
  \/ pc[t] \in {"set_tail", "t_unlock"}
  \/ OnHead(t) /\ pc[t] \in {"read_value", "h_unlock", "delete"}

Result(t) ==
  CASE op[t] = "none" -> "none"
    [] op[t] /= "none" /\ ~TookEffect(t) -> "pending"
    [] op[t] = "enqueue" /\ TookEffect(t) -> "true"
    [] op[t] = "try_dequeue" /\ TookEffect(t) ->
         IF newHead[t] = NoNode THEN "false" ELSE "true"
    [] op[t] = "empty" /\ TookEffect(t) ->
         IF newHead[t] = NoNode THEN "true" ELSE "false"

Abstract == INSTANCE AtomicQueue WITH
  queue <- [i \in 1 .. Len(chain) - 1 |-> value[chain[i + 1]]],
  call <- op,
  item <- [t \in Threads |-> IF At(t, "read_value")
                             THEN value[newHead[t]] ELSE item[t]],
  outcome <- [t \in Threads |-> Result(t)]

\* The queue is linearizable: an enqueue takes effect at tail->next = node, a
\* try_dequeue at head = new_head or where it reads a null next, and empty()
\* where it reads head->next.
Linearizable == Abstract!Spec

\* Whoever waits for a lock, someone gets it: the early returns release it too.
LockProgress ==
  \A l \in Locks :
    (\E t \in Threads : pc[t] \in Waiting[l])
      ~> (\E t \in Threads : pc[t] \in Critical[l])

\* Once it has its lock a call returns, whatever the others do.  (Waiting for
\* the lock may last forever: spinlock_TTAS_CAS is not fair.)
HolderReturns ==
  \A t \in Threads :
    (\E l \in Locks : pc[t] \in Critical[l]) ~> At(t, "idle")

=============================================================================
