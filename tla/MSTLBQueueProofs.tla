-------------------------- MODULE MSTLBQueueProofs --------------------------
(***************************************************************************)
(* The two-lock queue is safe and implements the atomic queue, for any     *)
(* threads, items and addresses.                                           *)
(***************************************************************************)
EXTENDS MSTLBQueue, SequenceTheorems, TLAPS

\* t holds a node nobody else can reach: the one it is about to link, or the
\* dummy node it has taken out of the list and is about to delete.
Owner(t) ==
  \/ pc[t] \in {"t_test", "t_cas", "link", "read_value", "delete"}
  \/ At(t, "h_unlock") /\ op[t] = "try_dequeue" /\ newHead[t] /= NoNode

Pos == 1 .. Len(chain)

List ==
  /\ chain \in Seq(Nodes)
  /\ Len(chain) >= 1
  /\ chain[1] = head
  /\ \A i, j \in Pos : chain[i] = chain[j] => i = j
  /\ \A i \in Pos : i + 1 \in Pos => next[chain[i]] = chain[i + 1]
  /\ next[chain[Len(chain)]] = NoNode
  /\ \/ tail = chain[Len(chain)]
     \/ \E t \in Threads : At(t, "set_tail") /\ node[t] = chain[Len(chain)]

Locals ==
  \A t \in Threads :
    /\ t \in buffered => pc[t] \in {"t_test", "t_cas"}
    /\ pc[t] \in {"t_test", "t_cas", "link"} /\ t \notin buffered =>
         next[node[t]] = NoNode
    /\ At(t, "set_tail") => node[t] = chain[Len(chain)]
    /\ pc[t] \in {"read_next", "set_head"} => node[t] = head
    /\ At(t, "set_head") => /\ op[t] = "try_dequeue"
                            /\ newHead[t] = next[head]
                            /\ newHead[t] /= NoNode
    /\ At(t, "read_value") => op[t] = "try_dequeue" /\ newHead[t] = head

Ownership ==
  /\ \A t \in Threads : Owner(t) => 
       /\ node[t] \in Nodes
       /\ \A i \in Pos : chain[i] /= node[t]
  /\ \A t, u \in Threads :
       Owner(t) /\ Owner(u) /\ node[t] = node[u] => t = u

\* Exactly the listed and the owned nodes are allocated.
Allocation ==
  cursor = Live =>
    \A n \in Nodes :
      n \in allocated <=> \/ \E i \in Pos : chain[i] = n
                          \/ \E t \in Threads : Owner(t) /\ node[t] = n

\* The destructor has deleted the nodes before its cursor and no other.
Destruction ==
  cursor /= Live =>
    /\ \A t \in Threads : At(t, "idle")
    /\ \E k \in 1 .. Len(chain) + 1 :
         /\ allocated = {chain[i] : i \in k .. Len(chain)}
         /\ cursor = IF k \in Pos THEN chain[k] ELSE NoNode

IInv ==
  /\ TypeOK
  /\ MutualExclusion
  /\ List
  /\ Locals
  /\ Ownership
  /\ Allocation
  /\ Destruction

-----------------------------------------------------------------------------
\* What Append and Tail do to a sequence.
LEMMA AppendFacts ==
  ASSUME NEW S, NEW s \in Seq(S), NEW e \in S
  PROVE  /\ Append(s, e) \in Seq(S)
         /\ Len(Append(s, e)) = Len(s) + 1
         /\ \A i \in 1 .. Len(s) : Append(s, e)[i] = s[i]
         /\ Append(s, e)[Len(s) + 1] = e
         /\ Len(s) \in Nat
BY AppendProperties

\* What the tail of a non-empty sequence holds.
LEMMA TailFacts ==
  ASSUME NEW S, NEW s \in Seq(S), Len(s) >= 1
  PROVE  /\ Tail(s) \in Seq(S)
         /\ Len(Tail(s)) = Len(s) - 1
         /\ \A i \in 1 .. Len(s) - 1 : Tail(s)[i] = s[i + 1]
         /\ Len(s) \in Nat
BY s /= <<>>, HeadTailProperties, LenProperties

\* In a state of IInv the nodes that steps dereference are nodes.
LEMMA NodesOfSteps ==
  ASSUME TypeOK, List, Locals, NEW t \in Threads
  PROVE  /\ Len(chain) \in Nat /\ Len(chain) >= 1
         /\ \A i \in Pos : chain[i] \in Nodes
         /\ At(t, "set_tail") => node[t] \in Nodes
         /\ At(t, "read_next") => node[t] \in Nodes
         /\ At(t, "set_head") => newHead[t] \in Nodes
         /\ At(t, "read_value") => newHead[t] \in Nodes
<1>1. Len(chain) \in Nat /\ \A i \in Pos : chain[i] \in Nodes
  BY LenProperties, ElementOfSeq DEF List, Pos
<1> QED
  BY <1>1 DEF TypeOK, List, Locals, At, Pos

\* The constructor sets every variable to a value of its type.
LEMMA TypeOKInit == Init => TypeOK
BY NodesAssumption DEF Init, TypeOK, PCs

\* Every step keeps the types.
LEMMA TypeOKStep == IInv /\ [Next]_vars => TypeOK'
<1> SUFFICES ASSUME IInv, [Next]_vars PROVE TypeOK'
  OBVIOUS
<1> USE NodesAssumption DEF PCs, At, Goto, mem, locals
<1>1. ASSUME NEW t \in Threads, CallEnqueue(t) PROVE TypeOK'
  BY <1>1 DEF IInv, TypeOK, CallEnqueue
<1>2. ASSUME NEW t \in Threads, NEW c \in {"try_dequeue", "empty"},
             CallOnHead(t, c)
      PROVE TypeOK'
  BY <1>2 DEF IInv, TypeOK, CallOnHead
<1>3. ASSUME NEW t \in Threads, Drain(t)
      PROVE /\ value' \in [Nodes -> Items \cup {NoItem}]
            /\ next' \in [Nodes -> Nodes \cup {NoNode}]
            /\ buffered' \in SUBSET Threads
  BY <1>3 DEF IInv, TypeOK, Drain
<1>4. ASSUME NEW t \in Threads, TestTLock(t) \/ TestHLock(t) PROVE TypeOK'
  BY <1>4 DEF IInv, TypeOK, TestTLock, TestHLock, Test
<1>5. ASSUME NEW t \in Threads, CasTLock(t) \/ CasHLock(t) PROVE TypeOK'
  BY <1>5, <1>3 DEF IInv, TypeOK, CasTLock, CasHLock, CasLock, Locks
<1>6. ASSUME NEW t \in Threads, Link(t) PROVE TypeOK'
  <2>1. node[t] \in Nodes
    BY <1>6 DEF IInv, Link, Ownership, Owner
  <2>2. chain' \in Seq(Nodes)
    BY <1>6, <2>1, AppendFacts DEF IInv, TypeOK, Link
  <2> QED
    BY <1>6, <2>1, <2>2 DEF IInv, TypeOK, Link
<1>7. ASSUME NEW t \in Threads, SetTail(t) PROVE TypeOK'
  BY <1>7, NodesOfSteps DEF IInv, TypeOK, SetTail
<1>8. ASSUME NEW t \in Threads, UnlockT(t) PROVE TypeOK'
  BY <1>8, <1>3 DEF IInv, TypeOK, UnlockT, Unlock, Return
<1>9. ASSUME NEW t \in Threads, ReadHead(t) PROVE TypeOK'
  BY <1>9 DEF IInv, TypeOK, ReadHead
<1>10. ASSUME NEW t \in Threads, ReadNext(t) PROVE TypeOK'
  BY <1>10, NodesOfSteps DEF IInv, TypeOK, ReadNext
<1>11. ASSUME NEW t \in Threads, SetHead(t) PROVE TypeOK'
  <2>1. chain' \in Seq(Nodes)
    BY <1>11, TailFacts DEF IInv, List, SetHead
  <2> QED
    BY <1>11, <2>1, NodesOfSteps DEF IInv, TypeOK, SetHead
<1>12. ASSUME NEW t \in Threads, ReadValue(t) PROVE TypeOK'
  BY <1>12, NodesOfSteps DEF IInv, TypeOK, ReadValue
<1>13. ASSUME NEW t \in Threads, UnlockH(t) PROVE TypeOK'
  BY <1>13, <1>3, ZenonT(60) DEF IInv, TypeOK, UnlockH, Unlock, Return
<1>14. ASSUME NEW t \in Threads, Delete(t) PROVE TypeOK'
  BY <1>14 DEF IInv, TypeOK, Delete, Return
<1>15. ASSUME NEW t \in Threads, StoresDrain(t) PROVE TypeOK'
  BY <1>15, <1>3 DEF IInv, TypeOK, StoresDrain
<1>16. CASE Destroy
  BY <1>16 DEF IInv, TypeOK, Destroy
<1>17. CASE DestroyNode
  BY <1>17 DEF IInv, TypeOK, DestroyNode
<1>18. CASE UNCHANGED vars
  BY <1>18 DEF IInv, TypeOK, vars
<1> QED
  BY <1>1, <1>2, <1>4, <1>5, <1>6, <1>7, <1>8, <1>9, <1>10, <1>11, <1>12,
     <1>13, <1>14, <1>15, <1>16, <1>17, <1>18
  DEF Next, Run, CallTryDequeue, CallEmpty

-----------------------------------------------------------------------------
\* The two locks and the points between their lock and unlock.
LEMMA CriticalSections ==
  /\ Locks = {"h_lock", "t_lock"}
  /\ Critical["h_lock"] = {"read_head", "read_next", "set_head", "read_value",
                           "h_unlock"}
  /\ Critical["t_lock"] = {"link", "set_tail", "t_unlock"}
BY DEF Locks, Critical

\* At first no thread holds a lock.
LEMMA MutualExclusionInit == Init => MutualExclusion
BY CriticalSections DEF Init, MutualExclusion

\* A lock is taken only when nobody holds it, and released by its holder.
LEMMA MutualExclusionStep == IInv /\ [Next]_vars => MutualExclusion'
<1> SUFFICES ASSUME IInv, [Next]_vars,
                    NEW l \in Locks, NEW u \in Threads, NEW v \in Threads,
                    pc'[u] \in Critical[l], pc'[v] \in Critical[l]
             PROVE  flag'[l] = 1 /\ v = u
  BY DEF MutualExclusion
<1> USE CriticalSections DEF At, Goto, mem, locals
<1>0. /\ \A t \in Threads : pc[t] \in Critical[l] =>
           flag[l] = 1 /\ \A w \in Threads : pc[w] \in Critical[l] => w = t
      /\ pc \in [Threads -> PCs] /\ flag \in [Locks -> {0, 1}]
  BY DEF IInv, TypeOK, MutualExclusion
<1>1. ASSUME NEW t \in Threads, CallEnqueue(t) PROVE flag'[l] = 1 /\ v = u
  BY <1>0, <1>1 DEF CallEnqueue
<1>2. ASSUME NEW t \in Threads, NEW c \in {"try_dequeue", "empty"},
             CallOnHead(t, c)
      PROVE flag'[l] = 1 /\ v = u
  BY <1>0, <1>2 DEF CallOnHead
<1>3. ASSUME NEW t \in Threads, TestTLock(t) \/ TestHLock(t)
      PROVE flag'[l] = 1 /\ v = u
  BY <1>0, <1>3 DEF TestTLock, TestHLock, Test
<1>4. ASSUME NEW t \in Threads, CasTLock(t) \/ CasHLock(t)
      PROVE flag'[l] = 1 /\ v = u
  BY <1>0, <1>4 DEF CasTLock, CasHLock, CasLock
<1>5. ASSUME NEW t \in Threads, UnlockT(t) \/ UnlockH(t)
      PROVE flag'[l] = 1 /\ v = u
  BY <1>0, <1>5 DEF UnlockT, UnlockH, Unlock, Return
<1>6. ASSUME NEW t \in Threads,
             \/ Link(t) \/ SetTail(t) \/ ReadHead(t) \/ SetHead(t)
             \/ ReadValue(t)
      PROVE flag'[l] = 1 /\ v = u
  BY <1>0, <1>6 DEF Link, SetTail, ReadHead, SetHead, ReadValue
<1>7. ASSUME NEW t \in Threads, ReadNext(t)
      PROVE flag'[l] = 1 /\ v = u
  BY <1>0, <1>7 DEF ReadNext
<1>8. ASSUME NEW t \in Threads, Delete(t) \/ StoresDrain(t)
      PROVE flag'[l] = 1 /\ v = u
  BY <1>0, <1>8 DEF Delete, Return, StoresDrain
<1>9. CASE Destroy \/ DestroyNode \/ UNCHANGED vars
  BY <1>0, <1>9 DEF Destroy, DestroyNode, vars
<1> QED
  BY <1>1, <1>2, <1>3, <1>4, <1>5, <1>6, <1>7, <1>8, <1>9
  DEF Next, Run, CallTryDequeue, CallEmpty

-----------------------------------------------------------------------------
\* For the length of a list that is not the dummy node alone.
LEMMA NotOne == ASSUME NEW n \in Nat, n >= 1, n /= 1 PROVE n >= 2
OBVIOUS

\* What the other steps rely on in a state of IInv.
LEMMA InvariantFacts ==
  ASSUME IInv
  PROVE  /\ Len(chain) \in Nat /\ Len(chain) >= 1
         /\ \A i \in Pos : chain[i] \in Nodes
         /\ head = chain[1] /\ 1 \in Pos /\ Len(chain) \in Pos
         /\ \A t \in buffered : t \in Threads /\ Owner(t)
         /\ \A t \in Threads : At(t, "link") => tail = chain[Len(chain)]
         /\ \A t \in Threads : pc[t] /= "idle" => cursor = Live
         /\ \A t \in Threads :
              At(t, "set_head") => Len(chain) >= 2 /\ newHead[t] = chain[2]
<1>0. chain \in Seq(Nodes) /\ Len(chain) \in Nat /\ Len(chain) >= 1
  BY LenProperties DEF IInv, List
<1>1. \A i \in Pos : chain[i] \in Nodes
  BY ElementOfSeq DEF IInv, List, Pos
<1>2. head = chain[1] /\ 1 \in Pos /\ Len(chain) \in Pos
  BY <1>0 DEF IInv, List, Pos
<1>3. \A t \in buffered : t \in Threads /\ Owner(t)
  BY DEF IInv, TypeOK, Locals, Owner
<1>4. \A t \in Threads : At(t, "link") => tail = chain[Len(chain)]
  BY CriticalSections DEF IInv, List, MutualExclusion, At
<1>5. \A t \in Threads : pc[t] /= "idle" => cursor = Live
  BY DEF IInv, Destruction, At
<1>6. ASSUME NEW t \in Threads, At(t, "set_head")
      PROVE  Len(chain) >= 2 /\ newHead[t] = chain[2]
  <2>1. newHead[t] = next[chain[1]] /\ newHead[t] /= NoNode
    BY <1>2, <1>6 DEF IInv, Locals
  <2>2. Len(chain) /= 1
    BY <2>1 DEF IInv, List
  <2>3. Len(chain) >= 2
    BY <1>0, <2>2, NotOne, Zenon
  <2>4. 2 \in Pos
    BY <1>0, <2>3 DEF Pos
  <2>5. 1 + 1 \in Pos => next[chain[1]] = chain[1 + 1]
    BY <1>2 DEF IInv, List
  <2>6. 1 + 1 = 2
    OBVIOUS
  <2> QED
    BY <2>1, <2>3, <2>4, <2>5, <2>6
<1> QED
  BY <1>0, <1>1, <1>2, <1>3, <1>4, <1>5, <1>6

\* The two steps that change chain, position by position.
LEMMA LinkFacts ==
  ASSUME IInv, NEW t \in Threads, Link(t)
  PROVE  /\ chain' \in Seq(Nodes)
         /\ Len(chain') = Len(chain) + 1
         /\ \A i \in Pos : chain'[i] = chain[i]
         /\ chain'[Len(chain) + 1] = node[t]
         /\ Owner(t)
<1>1. Owner(t) /\ node[t] \in Nodes
  BY DEF IInv, Link, Ownership, Owner, At
<1> QED
  BY <1>1, AppendFacts DEF IInv, List, Link, Pos

\* Moving head takes the dummy node off the list.
LEMMA SetHeadFacts ==
  ASSUME IInv, NEW t \in Threads, SetHead(t)
  PROVE  /\ chain' \in Seq(Nodes)
         /\ Len(chain') = Len(chain) - 1
         /\ Len(chain) >= 2
         /\ \A i \in 1 .. Len(chain) - 1 : chain'[i] = chain[i + 1]
         /\ head' = chain[2]
         /\ node[t] = chain[1]
<1>1. Len(chain) >= 2 /\ newHead[t] = chain[2] /\ node[t] = chain[1]
  BY InvariantFacts DEF SetHead, IInv, Locals, At
<1> QED
  BY <1>1, TailFacts DEF IInv, List, SetHead

\* Draining a thread's stores writes its own node only.
LEMMA DrainFacts ==
  ASSUME IInv, NEW t \in Threads, Drain(t)
  PROVE  /\ t \notin buffered'
         /\ buffered' \subseteq buffered
         /\ \A u \in Threads : u /= t => (u \in buffered' <=> u \in buffered)
         /\ t \in buffered => next'[node[t]] = NoNode
         /\ t \notin buffered => next' = next
         /\ \A n \in Nodes : n /= node[t] => next'[n] = next[n]
         /\ \A i \in Pos : next'[chain[i]] = next[chain[i]]
<1>1. t \in buffered =>
        node[t] \in Nodes /\ \A i \in Pos : chain[i] /= node[t]
  BY InvariantFacts DEF IInv, Ownership
<1> QED
  BY <1>1, InvariantFacts DEF IInv, TypeOK, Drain

-----------------------------------------------------------------------------
\* The constructed list is the dummy node.
LEMMA ListInit == Init => List
<1> SUFFICES ASSUME Init PROVE List
  OBVIOUS
<1>1. chain \in Seq(Nodes) /\ Len(chain) = 1 /\ chain[1] = head
  BY DEF Init
<1> QED
  BY <1>1 DEF Init, List, Pos

\* Linking, moving tail and moving head keep the list; no other step changes it.
LEMMA ListStep == IInv /\ [Next]_vars => List'
<1> SUFFICES ASSUME IInv, [Next]_vars PROVE List'
  OBVIOUS
<1> USE CriticalSections DEF At, Goto, mem, locals
<1>0. /\ List /\ pc \in [Threads -> PCs]
      /\ node \in [Threads -> Nodes \cup {NoNode}]
      /\ next \in [Nodes -> Nodes \cup {NoNode}]
  BY DEF IInv, TypeOK
<1> USE <1>0, InvariantFacts
\* A step that leaves the list alone, and no enqueuer before tail = node.
<1>1. ASSUME UNCHANGED <<chain, head, tail>>,
             \A i \in Pos : next'[chain[i]] = next[chain[i]],
             \A u \in Threads : pc[u] = "set_tail" =>
               pc'[u] = "set_tail" /\ node'[u] = node[u]
      PROVE List'
  <2>1. chain' \in Seq(Nodes) /\ Len(chain') = Len(chain) /\ Pos' = Pos
    BY <1>1 DEF List, Pos
  <2>2. \A i, j \in Pos : chain'[i] = chain'[j] => i = j
    BY <1>1 DEF List
  <2>3. \A i \in Pos : i + 1 \in Pos => next'[chain[i]] = chain[i + 1]
    BY <1>1 DEF List
  <2>4. next'[chain[Len(chain)]] = NoNode
    BY <1>1 DEF List
  <2>5. \/ tail' = chain[Len(chain)]
        \/ \E u \in Threads : pc'[u] = "set_tail" /\ node'[u] = chain[Len(chain)]
    BY <1>1 DEF List
  <2> QED
    BY <1>1, <2>1, <2>2, <2>3, <2>4, <2>5 DEF List
<1>2. ASSUME NEW t \in Threads,
             \/ CallEnqueue(t) \/ TestTLock(t) \/ TestHLock(t) \/ ReadHead(t)
             \/ ReadNext(t) \/ ReadValue(t) \/ Delete(t)
      PROVE List'
  BY <1>1, <1>2 DEF CallEnqueue, TestTLock, TestHLock, Test, ReadHead,
     ReadNext, ReadValue, Delete, Return
<1>3. ASSUME NEW t \in Threads, NEW c \in {"try_dequeue", "empty"},
             CallOnHead(t, c)
      PROVE List'
  BY <1>1, <1>3 DEF CallOnHead
<1>4. ASSUME NEW t \in Threads, CasTLock(t) \/ CasHLock(t) \/ StoresDrain(t)
      PROVE List'
  BY <1>1, <1>4, DrainFacts DEF CasTLock, CasHLock, CasLock, StoresDrain
<1>5. ASSUME NEW t \in Threads, UnlockT(t) \/ UnlockH(t) PROVE List'
  BY <1>1, <1>5, DrainFacts DEF UnlockT, UnlockH, Unlock, Return
<1>6. ASSUME NEW t \in Threads, Link(t) PROVE List'
  <2>1. /\ chain' \in Seq(Nodes)
        /\ Len(chain') = Len(chain) + 1
        /\ \A i \in Pos : chain'[i] = chain[i]
        /\ chain'[Len(chain) + 1] = node[t]
        /\ node[t] \in Nodes
        /\ \A i \in Pos : chain[i] /= node[t]
    BY <1>6, LinkFacts DEF IInv, Ownership
  <2>2. /\ next' = [next EXCEPT ![chain[Len(chain)]] = node[t]]
        /\ next[node[t]] = NoNode
    BY <1>6 DEF Link, IInv, Locals
  <2>3. Pos' = Pos \cup {Len(chain) + 1} /\ Len(chain) + 1 \notin Pos
    BY <2>1 DEF Pos
  <2>4. \A i, j \in Pos' : chain'[i] = chain'[j] => i = j
    BY <2>1, <2>3 DEF List
  <2>5. \A i \in Pos' : i + 1 \in Pos' => next'[chain'[i]] = chain'[i + 1]
    <3> SUFFICES ASSUME NEW i \in Pos', i + 1 \in Pos'
                 PROVE  next'[chain'[i]] = chain'[i + 1]
      OBVIOUS
    <3>1. i \in Pos
      BY <2>1, <2>3 DEF Pos
    <3>2. CASE i = Len(chain)
      BY <2>1, <2>2, <3>1, <3>2
    <3>3. CASE i /= Len(chain)
      <4>1. i + 1 \in Pos /\ next[chain[i]] = chain[i + 1]
        BY <2>3, <3>1, <3>3 DEF List, Pos
      <4>2. chain[i] /= chain[Len(chain)]
        BY <3>1, <3>3 DEF List
      <4> QED
        BY <2>1, <2>2, <3>1, <4>1, <4>2
    <3> QED
      BY <3>2, <3>3
  <2>6. next'[node[t]] = NoNode
    BY <2>1, <2>2
  <2>7. pc'[t] = "set_tail" /\ node'[t] = node[t] /\ head' = head
    BY <1>6 DEF Link
  <2>8. chain'[1] = head' /\ Len(chain') >= 1
    BY <2>1, <2>7
  <2>9. \E u \in Threads : pc'[u] = "set_tail" /\ node'[u] = chain'[Len(chain')]
    BY <2>1, <2>7
  <2> QED
    BY <2>1, <2>4, <2>5, <2>6, <2>8, <2>9 DEF List
<1>7. ASSUME NEW t \in Threads, SetTail(t) PROVE List'
  <2>1. tail' = chain[Len(chain)] /\ UNCHANGED <<chain, head, next>>
    BY <1>7 DEF SetTail, IInv, Locals
  <2> QED
    BY <2>1 DEF List, Pos
<1>8. ASSUME NEW t \in Threads, SetHead(t) PROVE List'
  <2>1. /\ chain' \in Seq(Nodes)
        /\ Len(chain') = Len(chain) - 1
        /\ Len(chain) >= 2
        /\ \A i \in 1 .. Len(chain) - 1 : chain'[i] = chain[i + 1]
        /\ head' = chain[2]
    BY <1>8, SetHeadFacts
  <2>2. Pos' = 1 .. Len(chain) - 1 /\ \A i \in Pos' : i + 1 \in Pos
    BY <2>1 DEF Pos
  <2>3. UNCHANGED <<tail, next, node>>
        /\ \A u \in Threads : pc[u] = "set_tail" => pc'[u] = "set_tail"
    BY <1>8 DEF SetHead
  <2>4. \A i, j \in Pos' : chain'[i] = chain'[j] => i = j
    <3> SUFFICES ASSUME NEW i \in Pos', NEW j \in Pos', chain'[i] = chain'[j]
                 PROVE  i = j
      OBVIOUS
    <3>1. i \in 1 .. Len(chain) - 1 /\ j \in 1 .. Len(chain) - 1
      BY <2>2
    <3>2. chain[i + 1] = chain[j + 1] /\ i + 1 \in Pos /\ j + 1 \in Pos
      BY <2>1, <2>2, <3>1
    <3>3. i + 1 = j + 1
      BY <3>2 DEF List
    <3> QED
      BY <3>1, <3>3
  <2>5. \A i \in Pos' : i + 1 \in Pos' => next'[chain'[i]] = chain'[i + 1]
    <3> SUFFICES ASSUME NEW i \in Pos', i + 1 \in Pos'
                 PROVE  next'[chain'[i]] = chain'[i + 1]
      OBVIOUS
    <3>1. i \in 1 .. Len(chain) - 1 /\ i + 1 \in 1 .. Len(chain) - 1
      BY <2>2
    <3>2. chain'[i] = chain[i + 1] /\ chain'[i + 1] = chain[i + 1 + 1]
      BY <2>1, <3>1
    <3>3. next[chain[i + 1]] = chain[i + 1 + 1]
      BY <2>2 DEF List
    <3> QED
      BY <2>3, <3>2, <3>3
  <2>6. chain'[Len(chain')] = chain[Len(chain)]
    BY <2>1
  <2>7. chain'[1] = head' /\ Len(chain') >= 1
    BY <2>1
  <2> QED
    BY <2>1, <2>3, <2>4, <2>5, <2>6, <2>7 DEF List
<1>9. CASE Destroy \/ DestroyNode \/ UNCHANGED vars
  BY <1>1, <1>9 DEF Destroy, DestroyNode, vars
<1> QED
  BY <1>2, <1>3, <1>4, <1>5, <1>6, <1>7, <1>8, <1>9
  DEF Next, Run, CallTryDequeue, CallEmpty

-----------------------------------------------------------------------------
\* At first no register says anything.
LEMMA LocalsInit == Init => Locals
BY DEF Init, Locals, At

\* What registers say about the list stays true under the steps of others, by
\* mutual exclusion on each side.
LEMMA LocalsStep == IInv /\ [Next]_vars => Locals'
<1> SUFFICES ASSUME IInv, [Next]_vars PROVE Locals'
  OBVIOUS
<1> USE CriticalSections DEF At, Goto, mem, locals
<1>0. /\ Locals /\ pc \in [Threads -> PCs]
      /\ op \in [Threads -> {"none", "enqueue", "try_dequeue", "empty"}]
      /\ node \in [Threads -> Nodes \cup {NoNode}]
      /\ newHead \in [Threads -> Nodes \cup {NoNode}]
      /\ next \in [Nodes -> Nodes \cup {NoNode}]
  BY DEF IInv, TypeOK
<1>a. \A l \in Locks, t, u \in Threads :
        pc[t] \in Critical[l] /\ pc[u] \in Critical[l] => u = t
  BY DEF IInv, MutualExclusion
<1>b. head \in Nodes /\ \A i \in Pos : chain[i] \in Nodes
  BY InvariantFacts DEF IInv, TypeOK
<1>c. \A t, u \in Threads :
        Owner(t) /\ Owner(u) /\ node[t] = node[u] => t = u
  BY DEF IInv, Ownership
<1>1. ASSUME NEW t \in Threads, CallEnqueue(t) PROVE Locals'
  BY <1>0, <1>1 DEF CallEnqueue, Locals
<1>2. ASSUME NEW t \in Threads, NEW c \in {"try_dequeue", "empty"},
             CallOnHead(t, c)
      PROVE Locals'
  BY <1>0, <1>2 DEF CallOnHead, Locals
<1>3. ASSUME NEW t \in Threads, TestTLock(t) \/ TestHLock(t) PROVE Locals'
  BY <1>0, <1>3 DEF TestTLock, TestHLock, Test, Locals
\* Steps that may drain the stores of t into its node.
<1>4. ASSUME NEW t \in Threads, Drain(t)
      PROVE  /\ next'[head] = next[head]
             /\ \A u \in Threads :
                  /\ u \in buffered' => u \in buffered
                  /\ /\ pc[u] \in {"t_test", "t_cas", "link"}
                     /\ u \notin buffered'
                     => next'[node[u]] = NoNode
  <2>1. next'[head] = next[head]
    BY <1>4, DrainFacts, InvariantFacts
  <2>2. ASSUME NEW u \in Threads, pc[u] \in {"t_test", "t_cas", "link"},
               u \notin buffered'
        PROVE  next'[node[u]] = NoNode
    <3>1. Owner(u) /\ node[u] \in Nodes
      BY <2>2 DEF Owner, IInv, Ownership
    <3>2. CASE u = t
      BY <1>0, <1>4, <2>2, <3>2, DrainFacts DEF Locals
    <3>3. CASE u /= t
      <4>1. u \notin buffered /\ next[node[u]] = NoNode
        BY <1>0, <1>4, <2>2, <3>3, DrainFacts DEF Locals
      <4>2. CASE t \in buffered
        <5>1. Owner(t)
          BY <4>2, InvariantFacts
        <5>2. node[u] /= node[t]
          BY <1>c, <3>1, <3>3, <5>1
        <5> QED
          BY <1>4, <3>1, <4>1, <5>2, DrainFacts
      <4>3. CASE t \notin buffered
        BY <1>4, <4>1, <4>3, DrainFacts
      <4> QED
        BY <4>2, <4>3
    <3> QED
      BY <3>2, <3>3
  <2> QED
    BY <1>4, <2>1, <2>2, DrainFacts
<1>5. ASSUME NEW t \in Threads, CasTLock(t) \/ CasHLock(t) PROVE Locals'
  <2>1. Drain(t) /\ t \notin buffered'
    BY <1>5, DrainFacts DEF CasTLock, CasHLock, CasLock
  <2> QED
    BY <1>0, <1>4, <1>5, <2>1 DEF CasTLock, CasHLock, CasLock, Locals
<1>6. ASSUME NEW t \in Threads, StoresDrain(t) PROVE Locals'
  BY <1>0, <1>4, <1>6 DEF StoresDrain, Locals
<1>7. ASSUME NEW t \in Threads, UnlockT(t) \/ UnlockH(t) PROVE Locals'
  <2>1. Drain(t) /\ t \notin buffered
    BY <1>0, <1>7 DEF UnlockT, UnlockH, Unlock, Locals
  <2>2. UNCHANGED <<next, buffered>>
    BY <2>1 DEF Drain
  <2> QED
    BY <1>0, <1>7, <2>2 DEF UnlockT, UnlockH, Return, Locals
<1>8. ASSUME NEW t \in Threads, Link(t) PROVE Locals'
  <2>1. /\ Len(chain') = Len(chain) + 1
        /\ chain'[Len(chain) + 1] = node[t]
        /\ UNCHANGED <<node, op, newHead, buffered, head>>
    BY <1>8, LinkFacts DEF Link
  <2>2. next' = [next EXCEPT ![chain[Len(chain)]] = node[t]]
    BY <1>8, InvariantFacts DEF Link
  <2>3. next[chain[Len(chain)]] = NoNode
    BY DEF IInv, List
  <2>4. \A u \in Threads : pc[u] = "set_tail" => u = t
    BY <1>8, <1>a DEF Link
  <2>5. ASSUME NEW u \in Threads, pc[u] = "set_head"
        PROVE  next'[head] = next[head]
    BY <1>0, <1>b, <2>2, <2>3, <2>5 DEF Locals
  <2>6. ASSUME NEW u \in Threads, pc[u] \in {"t_test", "t_cas", "link"},
               u \notin buffered
        PROVE  next'[node[u]] = NoNode
    <3>1. Owner(u) /\ node[u] \in Nodes /\ chain[Len(chain)] /= node[u]
      BY <2>6, InvariantFacts DEF Owner, IInv, Ownership
    <3> QED
      BY <1>0, <2>2, <2>6, <3>1 DEF Locals
  <2> QED
    BY <1>0, <1>8, <2>1, <2>4, <2>5, <2>6 DEF Link, Locals
<1>9. ASSUME NEW t \in Threads, SetTail(t) PROVE Locals'
  BY <1>0, <1>9 DEF SetTail, Locals
<1>10. ASSUME NEW t \in Threads, ReadHead(t) \/ ReadNext(t) \/ ReadValue(t)
       PROVE Locals'
  BY <1>0, <1>10 DEF ReadHead, ReadNext, ReadValue, Locals
<1>11. ASSUME NEW t \in Threads, SetHead(t) PROVE Locals'
  <2>1. /\ chain'[Len(chain')] = chain[Len(chain)]
        /\ UNCHANGED <<node, op, newHead, buffered, next>>
        /\ head' = newHead[t]
    <3>1. /\ Len(chain') = Len(chain) - 1
          /\ Len(chain) - 1 \in 1 .. Len(chain) - 1
          /\ \A i \in 1 .. Len(chain) - 1 : chain'[i] = chain[i + 1]
          /\ Len(chain) - 1 + 1 = Len(chain)
      BY <1>11, SetHeadFacts, InvariantFacts
    <3> QED
      BY <1>11, <3>1 DEF SetHead
  <2>2. \A u \in Threads : pc[u] \in Critical["h_lock"] => u = t
    BY <1>11, <1>a DEF SetHead
  <2> QED
    BY <1>0, <1>11, <2>1, <2>2, ZenonT(60) DEF SetHead, Locals
<1>12. ASSUME NEW t \in Threads, Delete(t) PROVE Locals'
  BY <1>0, <1>12 DEF Delete, Return, Locals
<1>13. CASE Destroy \/ DestroyNode \/ UNCHANGED vars
  BY <1>0, <1>13 DEF Destroy, DestroyNode, vars, Locals
<1> QED
  BY <1>1, <1>2, <1>3, <1>5, <1>6, <1>7, <1>8, <1>9, <1>10, <1>11, <1>12,
     <1>13
  DEF Next, Run, CallTryDequeue, CallEmpty

-----------------------------------------------------------------------------
\* At first no thread owns a node.
LEMMA OwnershipInit == Init => Ownership
BY DEF Init, Ownership, Owner, At

\* A step after which nobody owns a node he did not own before.
LEMMA OwnershipKept ==
  ASSUME IInv, UNCHANGED chain,
         \A u \in Threads : Owner(u)' => Owner(u) /\ node'[u] = node[u]
  PROVE  Ownership'
BY DEF IInv, Ownership, Pos

\* A node outside the list passes from one owner to none, or from the list to
\* one owner.
LEMMA OwnershipStep == IInv /\ [Next]_vars => Ownership'
<1> SUFFICES ASSUME IInv, [Next]_vars PROVE Ownership'
  OBVIOUS
<1> USE DEF At, Goto, mem, locals
<1>0. /\ pc \in [Threads -> PCs] /\ allocated \in SUBSET Nodes
      /\ op \in [Threads -> {"none", "enqueue", "try_dequeue", "empty"}]
      /\ node \in [Threads -> Nodes \cup {NoNode}]
      /\ newHead \in [Threads -> Nodes \cup {NoNode}]
  BY DEF IInv, TypeOK
<1>1. ASSUME NEW t \in Threads, CallEnqueue(t) PROVE Ownership'
  <2>1. PICK n \in Nodes \ allocated : node' = [node EXCEPT ![t] = n]
    BY <1>1 DEF CallEnqueue
  <2>2. /\ \A i \in Pos : chain[i] /= n
        /\ \A u \in Threads : Owner(u) => node[u] /= n
    BY <1>1 DEF CallEnqueue, IInv, Allocation
  <2>3. \A u \in Threads : u /= t => (Owner(u)' <=> Owner(u))
    BY <1>0, <1>1 DEF CallEnqueue, Owner
  <2>4. node'[t] = n /\ \A u \in Threads : u /= t => node'[u] = node[u]
    BY <1>0, <2>1
  <2>5. chain' = chain /\ Pos' = Pos
    BY <1>1 DEF CallEnqueue, Pos
  <2> QED
    BY <2>2, <2>3, <2>4, <2>5 DEF IInv, Ownership
<1>2. ASSUME NEW t \in Threads, NEW c \in {"try_dequeue", "empty"},
             CallOnHead(t, c)
      PROVE Ownership'
  BY <1>0, <1>2, OwnershipKept DEF CallOnHead, Owner
<1>3. ASSUME NEW t \in Threads,
             TestTLock(t) \/ TestHLock(t) \/ CasTLock(t) \/ CasHLock(t)
      PROVE Ownership'
  BY <1>0, <1>3, OwnershipKept
  DEF TestTLock, TestHLock, Test, CasTLock, CasHLock, CasLock, Owner
<1>4. ASSUME NEW t \in Threads,
             SetTail(t) \/ UnlockT(t) \/ Delete(t) \/ StoresDrain(t)
      PROVE Ownership'
  BY <1>0, <1>4, OwnershipKept
  DEF SetTail, UnlockT, Unlock, Delete, StoresDrain, Return, Owner
<1>5. ASSUME NEW t \in Threads, ReadHead(t) \/ ReadNext(t) PROVE Ownership'
  BY <1>0, <1>5, OwnershipKept DEF ReadHead, ReadNext, Owner
<1>6. ASSUME NEW t \in Threads, ReadValue(t) \/ UnlockH(t) PROVE Ownership'
  BY <1>0, <1>6, OwnershipKept DEF ReadValue, UnlockH, Return, Owner
<1>7. ASSUME NEW t \in Threads, Link(t) PROVE Ownership'
  <2>1. /\ chain'[Len(chain) + 1] = node[t] /\ Owner(t)
        /\ \A i \in Pos : chain'[i] = chain[i]
        /\ Pos' = Pos \cup {Len(chain) + 1}
    BY <1>7, LinkFacts, InvariantFacts DEF Pos
  <2>2. \A u \in Threads : Owner(u)' => u /= t /\ Owner(u)
    BY <1>0, <1>7 DEF Link, Owner
  <2>3. node' = node
    BY <1>7 DEF Link
  <2>4. \A u \in Threads : Owner(u)' => node[u] /= node[t]
    BY <2>1, <2>2 DEF IInv, Ownership
  <2>5. ASSUME NEW u \in Threads, Owner(u)'
        PROVE  node'[u] \in Nodes /\ \A i \in Pos' : chain'[i] /= node'[u]
    BY <2>1, <2>2, <2>3, <2>4, <2>5 DEF IInv, Ownership
  <2>6. \A u, v \in Threads :
          Owner(u)' /\ Owner(v)' /\ node'[u] = node'[v] => u = v
    BY <2>2, <2>3 DEF IInv, Ownership
  <2> QED
    BY <2>5, <2>6 DEF Ownership
<1>8. ASSUME NEW t \in Threads, SetHead(t) PROVE Ownership'
  <2>1. /\ Pos' = 1 .. Len(chain) - 1
        /\ \A i \in Pos' : /\ chain'[i] = chain[i + 1]
                           /\ i + 1 \in Pos /\ i + 1 /= 1
        /\ node[t] = chain[1] /\ 1 \in Pos /\ chain[1] \in Nodes
    BY <1>8, SetHeadFacts, InvariantFacts DEF Pos
  <2>2. \A u \in Threads : Owner(u)' => u = t \/ Owner(u)
    BY <1>0, <1>8 DEF SetHead, Owner
  <2>3. node' = node
    BY <1>8 DEF SetHead
  <2>4. \A i \in Pos' : chain'[i] /= node[t]
    BY <2>1 DEF IInv, List
  <2>5. ASSUME NEW u \in Threads, Owner(u)'
        PROVE  node'[u] \in Nodes /\ \A i \in Pos' : chain'[i] /= node'[u]
    BY <2>1, <2>2, <2>3, <2>4, <2>5 DEF IInv, Ownership
  <2>6. \A u, v \in Threads :
          Owner(u)' /\ Owner(v)' /\ node'[u] = node'[v] => u = v
    BY <2>1, <2>2, <2>3 DEF IInv, Ownership
  <2> QED
    BY <2>5, <2>6 DEF Ownership
<1>9. CASE Destroy \/ DestroyNode \/ UNCHANGED vars
  BY <1>9, OwnershipKept DEF Destroy, DestroyNode, vars, Owner
<1> QED
  BY <1>1, <1>2, <1>3, <1>4, <1>5, <1>6, <1>7, <1>8, <1>9
  DEF Next, Run, CallTryDequeue, CallEmpty

-----------------------------------------------------------------------------
\* At first the dummy node alone is allocated.
LEMMA AllocationInit == Init => Allocation
<1> SUFFICES ASSUME Init PROVE Allocation
  OBVIOUS
<1>1. Pos = {1} /\ chain[1] = head /\ allocated = {head}
  BY DEF Init, Pos
<1> QED
  BY <1>1 DEF Init, Allocation, Owner, At

\* A step that neither links, unlinks, allocates nor deletes.
LEMMA AllocationKept ==
  ASSUME IInv, UNCHANGED <<chain, allocated, cursor>>,
         \A u \in Threads : /\ Owner(u)' <=> Owner(u)
                            /\ Owner(u) => node'[u] = node[u]
  PROVE  Allocation'
BY DEF IInv, Allocation, Pos

\* A node is allocated from new until delete: owned, listed, owned.
LEMMA AllocationStep == IInv /\ [Next]_vars => Allocation'
<1> SUFFICES ASSUME IInv, [Next]_vars PROVE Allocation'
  OBVIOUS
<1> USE DEF At, Goto, mem, locals
<1>0. /\ pc \in [Threads -> PCs] /\ allocated \in SUBSET Nodes
      /\ op \in [Threads -> {"none", "enqueue", "try_dequeue", "empty"}]
      /\ node \in [Threads -> Nodes \cup {NoNode}]
      /\ newHead \in [Threads -> Nodes \cup {NoNode}]
  BY DEF IInv, TypeOK
<1>1. ASSUME NEW t \in Threads, CallEnqueue(t) PROVE Allocation'
  <2>1. PICK n \in Nodes \ allocated :
          node' = [node EXCEPT ![t] = n] /\ allocated' = allocated \cup {n}
    BY <1>1 DEF CallEnqueue
  <2>2. /\ ~Owner(t) /\ Owner(t)'
        /\ \A u \in Threads : u /= t => (Owner(u)' <=> Owner(u))
    BY <1>0, <1>1 DEF CallEnqueue, Owner
  <2>3. node'[t] = n /\ \A u \in Threads : u /= t => node'[u] = node[u]
    BY <1>0, <2>1
  <2>4. chain' = chain /\ Pos' = Pos /\ cursor = Live
    BY <1>1 DEF CallEnqueue, Pos
  <2> QED
    BY <2>1, <2>2, <2>3, <2>4 DEF IInv, Allocation
<1>2. ASSUME NEW t \in Threads, NEW c \in {"try_dequeue", "empty"},
             CallOnHead(t, c)
      PROVE Allocation'
  BY <1>0, <1>2, AllocationKept DEF CallOnHead, Owner
<1>3. ASSUME NEW t \in Threads,
             TestTLock(t) \/ TestHLock(t) \/ CasTLock(t) \/ CasHLock(t)
      PROVE Allocation'
  BY <1>0, <1>3, AllocationKept
  DEF TestTLock, TestHLock, Test, CasTLock, CasHLock, CasLock, Owner
<1>4. ASSUME NEW t \in Threads, SetTail(t) \/ UnlockT(t) \/ StoresDrain(t)
      PROVE Allocation'
  BY <1>0, <1>4, AllocationKept
  DEF SetTail, UnlockT, Unlock, StoresDrain, Return, Owner
<1>5. ASSUME NEW t \in Threads, ReadHead(t) \/ ReadNext(t) PROVE Allocation'
  BY <1>0, <1>5, AllocationKept DEF ReadHead, ReadNext, Owner
<1>6. ASSUME NEW t \in Threads, ReadValue(t) \/ UnlockH(t) PROVE Allocation'
  <2>1. pc[t] = "read_value" => op[t] = "try_dequeue" /\ newHead[t] /= NoNode
    BY InvariantFacts, NodesAssumption DEF IInv, Locals
  <2> QED
    BY <1>0, <1>6, <2>1, AllocationKept DEF ReadValue, UnlockH, Return, Owner
<1>7. ASSUME NEW t \in Threads, Link(t) PROVE Allocation'
  <2>1. /\ chain'[Len(chain) + 1] = node[t] /\ Owner(t)
        /\ \A i \in Pos : chain'[i] = chain[i]
        /\ Pos' = Pos \cup {Len(chain) + 1}
    BY <1>7, LinkFacts, InvariantFacts DEF Pos
  <2>2. ~Owner(t)' /\ \A u \in Threads : u /= t => (Owner(u)' <=> Owner(u))
    BY <1>0, <1>7 DEF Link, Owner
  <2>3. UNCHANGED <<node, allocated, cursor>>
    BY <1>7 DEF Link
  <2>4. \A n \in Nodes : (\E i \in Pos' : chain'[i] = n) <=>
                           (n = node[t] \/ \E i \in Pos : chain[i] = n)
    BY <2>1
  <2> QED
    BY <2>1, <2>2, <2>3, <2>4 DEF IInv, Allocation
<1>8. ASSUME NEW t \in Threads, SetHead(t) PROVE Allocation'
  <2>1. /\ Pos' = 1 .. Len(chain) - 1
        /\ Len(chain) \in Nat
        /\ \A i \in Pos' : chain'[i] = chain[i + 1]
        /\ node[t] = chain[1] /\ 1 \in Pos
    BY <1>8, SetHeadFacts, InvariantFacts DEF Pos
  <2>2. /\ Owner(t)'
        /\ ~Owner(t)
        /\ \A u \in Threads : u /= t => (Owner(u)' <=> Owner(u))
    BY <1>0, <1>8 DEF SetHead, Owner
  <2>3. UNCHANGED <<node, allocated, cursor>>
    BY <1>8 DEF SetHead
  <2>4. ASSUME NEW n \in Nodes
        PROVE  (\E i \in Pos : chain[i] = n) <=>
                 (n = node[t] \/ \E i \in Pos' : chain'[i] = n)
    <3>1. ASSUME NEW i \in Pos, chain[i] = n, i /= 1
          PROVE  \E j \in Pos' : chain'[j] = n
      <4>1. i - 1 \in Pos' /\ i - 1 + 1 = i
        BY <2>1, <3>1 DEF Pos
      <4> QED
        BY <2>1, <3>1, <4>1
    <3>2. ASSUME NEW j \in Pos' PROVE j + 1 \in Pos
      BY <2>1 DEF Pos
    <3> QED
      BY <2>1, <3>1, <3>2
  <2> QED
    BY <2>2, <2>3, <2>4 DEF IInv, Allocation
<1>9. ASSUME NEW t \in Threads, Delete(t) PROVE Allocation'
  <2>1. /\ allocated' = allocated \ {node[t]}
        /\ UNCHANGED <<chain, cursor>>
        /\ Pos' = Pos
        /\ Owner(t) /\ ~Owner(t)'
        /\ \A u \in Threads :
             u /= t => (Owner(u)' <=> Owner(u)) /\ node'[u] = node[u]
    BY <1>0, <1>9 DEF Delete, Return, Owner, Pos
  <2> QED
    BY <2>1 DEF IInv, Allocation, Ownership
<1>10. CASE Destroy \/ DestroyNode
  BY <1>10, InvariantFacts, NodesAssumption
  DEF Destroy, DestroyNode, Allocation, IInv, TypeOK
<1>11. CASE UNCHANGED vars
  BY <1>11, AllocationKept DEF vars, Owner
<1> QED
  BY <1>1, <1>2, <1>3, <1>4, <1>5, <1>6, <1>7, <1>8, <1>9, <1>10, <1>11
  DEF Next, Run, CallTryDequeue, CallEmpty

-----------------------------------------------------------------------------
\* At first the destructor has not begun.
LEMMA DestructionInit == Init => Destruction
BY DEF Init, Destruction

\* The destructor begins when all calls have returned and frees the list in order.
LEMMA DestructionStep == IInv /\ [Next]_vars => Destruction'
<1> SUFFICES ASSUME IInv, [Next]_vars PROVE Destruction'
  OBVIOUS
<1> USE DEF At, Goto, mem, locals
<1>0. /\ Destruction /\ Len(chain) \in Nat
      /\ \A t \in Threads : pc[t] /= "idle" => cursor = Live
      /\ \A i \in Pos : chain[i] \in Nodes
      /\ \A t \in buffered : t \in Threads /\ pc[t] /= "idle"
  BY InvariantFacts DEF IInv, TypeOK, Locals
<1>1. ASSUME NEW t \in Threads,
             \/ CallEnqueue(t) \/ CallTryDequeue(t) \/ CallEmpty(t)
             \/ Run(t) \/ StoresDrain(t)
      PROVE Destruction'
  <2>1. cursor = Live
    BY <1>0, <1>1
    DEF CallEnqueue, CallTryDequeue, CallEmpty, CallOnHead, Run, TestTLock,
        TestHLock, Test, CasTLock, CasHLock, CasLock, Link, SetTail, UnlockT,
        ReadHead, ReadNext, SetHead, ReadValue, UnlockH, Delete, StoresDrain
  <2>2. cursor' = cursor
    BY <1>1
    DEF CallEnqueue, CallTryDequeue, CallEmpty, CallOnHead, Run, TestTLock,
        TestHLock, Test, CasTLock, CasHLock, CasLock, Link, SetTail, UnlockT,
        ReadHead, ReadNext, SetHead, ReadValue, UnlockH, Delete, StoresDrain
  <2> QED
    BY <2>1, <2>2 DEF Destruction
<1>2. CASE Destroy
  <2>1. /\ \A t \in Threads : ~Owner(t)
        /\ cursor = Live /\ allocated \in SUBSET Nodes
    BY <1>2 DEF Destroy, Owner, IInv, TypeOK
  <2>2. allocated = {chain[i] : i \in 1 .. Len(chain)}
    BY <1>0, <2>1 DEF IInv, Allocation, Pos
  <2>3. cursor' = chain[1] /\ UNCHANGED <<allocated, chain, pc>>
    BY <1>2, InvariantFacts DEF Destroy
  <2>4. 1 \in 1 .. Len(chain) + 1 /\ 1 \in Pos'
    BY <1>0, <2>3, InvariantFacts DEF Pos
  <2> QED
    BY <1>2, <2>2, <2>3, <2>4 DEF Destroy, Destruction
<1>3. CASE DestroyNode
  <2>1. cursor /= Live /\ cursor /= NoNode
    BY <1>3, NodesAssumption DEF DestroyNode
  <2>2. PICK k \in 1 .. Len(chain) + 1 :
          /\ allocated = {chain[i] : i \in k .. Len(chain)}
          /\ cursor = IF k \in Pos THEN chain[k] ELSE NoNode
    BY <1>0, <2>1 DEF Destruction
  <2>3. k \in Pos /\ cursor = chain[k]
    BY <2>1, <2>2
  <2>4. /\ cursor' = next[chain[k]]
        /\ allocated' = allocated \ {chain[k]}
        /\ UNCHANGED <<chain, pc>>
    BY <1>3, <2>3 DEF DestroyNode
  <2>5. cursor' = IF k + 1 \in Pos THEN chain[k + 1] ELSE NoNode
    <3>1. k + 1 \notin Pos => k = Len(chain)
      BY <1>0, <2>3 DEF Pos
    <3> QED
      BY <2>3, <2>4, <3>1 DEF IInv, List
  <2>6. allocated' = {chain[i] : i \in k + 1 .. Len(chain)}
    <3>1. \A i \in k .. Len(chain) :
            /\ i \in Pos
            /\ i = k \/ i \in k + 1 .. Len(chain)
      BY <1>0, <2>3 DEF Pos
    <3>2. \A i \in k + 1 .. Len(chain) :
            i \in Pos /\ i \in k .. Len(chain) /\ i /= k
      BY <1>0, <2>3 DEF Pos
    <3>3. \A i \in k + 1 .. Len(chain) : chain[i] /= chain[k]
      BY <2>3, <3>2 DEF IInv, List
    <3> QED
      BY <2>2, <2>4, <3>1, <3>2, <3>3
  <2>7. k + 1 \in 1 .. Len(chain) + 1
    BY <1>0, <2>3 DEF Pos
  <2> QED
    BY <1>0, <2>1, <2>4, <2>5, <2>6, <2>7 DEF Destruction, Pos
<1>4. CASE UNCHANGED vars
  BY <1>0, <1>4 DEF vars, Destruction, Pos
<1> QED
  BY <1>1, <1>2, <1>3, <1>4 DEF Next

-----------------------------------------------------------------------------
\* IInv is inductive.  MutualExclusion needs nothing else; the rest is proved
\* together, as each part keeps the others: two threads on one side would
\* break List, and a node both listed and owned would be deleted under it.
THEOREM Invariance == Spec => []IInv
<1>1. Init => IInv
  BY TypeOKInit, MutualExclusionInit, ListInit, LocalsInit, OwnershipInit,
     AllocationInit, DestructionInit DEF IInv
<1>2. IInv /\ [Next]_vars => IInv'
  BY TypeOKStep, MutualExclusionStep, ListStep, LocalsStep, OwnershipStep,
     AllocationStep, DestructionStep DEF IInv
<1> QED
  BY <1>1, <1>2, PTL DEF Spec

\* Every variable keeps its type.
THEOREM TypeCorrect == Spec => []TypeOK
<1>1. IInv => TypeOK
  BY DEF IInv
<1> QED
  BY <1>1, Invariance, PTL

\* spinlock_TTAS_CAS excludes: at most one thread between lock and unlock of
\* each of the two locks, for any number of threads.
THEOREM LocksExclude == Spec => []MutualExclusion
<1>1. IInv => MutualExclusion
  BY DEF IInv
<1> QED
  BY <1>1, Invariance, PTL

\* No pointer to a deleted node is followed or deleted, with any number of
\* threads and any allocator that reuses addresses.
THEOREM MemorySafe == Spec => []NoUseAfterFree
<1>1. IInv => NoUseAfterFree
  <2> SUFFICES ASSUME IInv PROVE NoUseAfterFree
    OBVIOUS
  <2> USE DEF At
  <2>1. ASSUME NEW t \in Threads, NEW i \in Pos, pc[t] /= "idle"
        PROVE  chain[i] \in allocated
    BY <2>1, InvariantFacts DEF IInv, Allocation
  <2>2. \A t \in Threads : pc[t] = "link" => tail \in allocated
    BY <2>1, InvariantFacts
  <2>3. \A t \in Threads : pc[t] = "read_next" => node[t] \in allocated
    BY <2>1, InvariantFacts DEF IInv, Locals
  <2>4. \A t \in Threads : pc[t] = "read_value" => newHead[t] \in allocated
    BY <2>1, InvariantFacts DEF IInv, Locals
  <2>5. ASSUME NEW t \in Threads, pc[t] = "delete"
        PROVE  node[t] \in allocated
    BY <2>5, InvariantFacts DEF IInv, Ownership, Allocation, Owner
  <2>6. cursor \in Nodes => cursor \in allocated
    <3> SUFFICES ASSUME cursor \in Nodes PROVE cursor \in allocated
      OBVIOUS
    <3>1. cursor /= Live /\ cursor /= NoNode
      BY NodesAssumption
    <3>2. PICK k \in 1 .. Len(chain) + 1 :
            /\ allocated = {chain[i] : i \in k .. Len(chain)}
            /\ cursor = IF k \in Pos THEN chain[k] ELSE NoNode
      BY <3>1 DEF IInv, Destruction
    <3>3. cursor = chain[k] /\ k \in k .. Len(chain)
      BY <3>1, <3>2, InvariantFacts DEF Pos
    <3> QED
      BY <3>2, <3>3
  <2> QED
    BY <2>2, <2>3, <2>4, <2>5, <2>6 DEF NoUseAfterFree
<1> QED
  BY <1>1, Invariance, PTL

\* The linked nodes stay one null-terminated list of distinct live nodes.
THEOREM ListStaysIntact == Spec => []ListIntact
<1>1. IInv => ListIntact
  <2> SUFFICES ASSUME IInv, cursor = Live PROVE ListIntact
    BY DEF ListIntact
  <2>1. \A i \in 1 .. Len(chain) : chain[i] \in allocated
    BY InvariantFacts DEF IInv, Allocation, Pos
  <2>2. \A i \in 1 .. Len(chain) - 1 : i \in Pos /\ i + 1 \in Pos
    BY InvariantFacts DEF Pos
  <2>3. \A i \in 1 .. Len(chain) - 1 : next[chain[i]] = chain[i + 1]
    BY <2>2 DEF IInv, List
  <2>4. chain /= <<>>
    BY DEF IInv, List
  <2> QED
    BY <2>1, <2>3, <2>4 DEF IInv, List, Pos, ListIntact
<1> QED
  BY <1>1, Invariance, PTL

\* The destructor leaves no node allocated.
THEOREM DestructorFreesAll == Spec => []NoLeak
<1>1. IInv => NoLeak
  <2> SUFFICES ASSUME IInv, cursor = NoNode PROVE allocated = {}
    BY DEF NoLeak
  <2>1. PICK k \in 1 .. Len(chain) + 1 :
          /\ allocated = {chain[i] : i \in k .. Len(chain)}
          /\ cursor = IF k \in Pos THEN chain[k] ELSE NoNode
    BY NodesAssumption DEF IInv, Destruction
  <2>2. k \notin Pos
    BY <2>1, NodesAssumption, InvariantFacts
  <2>3. k .. Len(chain) = {}
    BY <2>1, <2>2, InvariantFacts DEF Pos
  <2> QED
    BY <2>1, <2>3
<1> QED
  BY <1>1, Invariance, PTL
-----------------------------------------------------------------------------
\* Which call a thread is in at each point, and that the locals of the last
\* one are gone when it is in none.
Calls ==
  \A t \in Threads :
    /\ pc[t] = "idle" => op[t] = "none" /\ item[t] = NoItem
    /\ pc[t] \in {"t_test", "t_cas", "link", "set_tail", "t_unlock"} =>
         op[t] = "enqueue"
    /\ pc[t] \in {"h_test", "h_cas", "read_head", "read_next", "set_head",
                  "read_value", "h_unlock"} => op[t] \in {"try_dequeue", "empty"}
    /\ pc[t] \in {"h_test", "h_cas", "read_head", "read_next"} => item[t] = NoItem
    /\ pc[t] = "delete" => op[t] = "try_dequeue" /\ newHead[t] /= NoNode

\* The node that an enqueuer is about to link has its item, once it can be seen.
Contents ==
  \A t \in Threads :
    pc[t] \in {"t_test", "t_cas", "link"} /\ t \notin buffered =>
      value[node[t]] = item[t]

RInv == IInv /\ Calls /\ Contents

-----------------------------------------------------------------------------
\* At first no thread is in a call.
LEMMA CallsInit == Init => Calls
  BY DEF Init, Calls

\* Every step keeps the threads in the calls their points belong to.
LEMMA CallsStep == IInv /\ Calls /\ [Next]_vars => Calls'
<1> SUFFICES ASSUME IInv, Calls, [Next]_vars PROVE Calls'
  OBVIOUS
<1> USE DEF At, Goto, mem, locals, Calls
<1>0. /\ pc \in [Threads -> PCs]
      /\ op \in [Threads -> {"none", "enqueue", "try_dequeue", "empty"}]
      /\ newHead \in [Threads -> Nodes \cup {NoNode}]
      /\ item \in [Threads -> Items \cup {NoItem}]
  BY DEF IInv, TypeOK
<1> USE <1>0
<1>1. ASSUME NEW t \in Threads, CallEnqueue(t) PROVE Calls'
  BY <1>1 DEF CallEnqueue
<1>2. ASSUME NEW t \in Threads, NEW c \in {"try_dequeue", "empty"},
             CallOnHead(t, c)
      PROVE  Calls'
  BY <1>2 DEF CallOnHead
<1>3. ASSUME NEW t \in Threads, TestTLock(t) \/ TestHLock(t) PROVE Calls'
  BY <1>3 DEF TestTLock, TestHLock, Test
<1>4. ASSUME NEW t \in Threads, CasTLock(t) \/ CasHLock(t) PROVE Calls'
  BY <1>4 DEF CasTLock, CasHLock, CasLock
<1>5. ASSUME NEW t \in Threads, Link(t) \/ SetTail(t) PROVE Calls'
  BY <1>5 DEF Link, SetTail
<1>6. ASSUME NEW t \in Threads, UnlockT(t) PROVE Calls'
  BY <1>6 DEF UnlockT, Return
<1>7. ASSUME NEW t \in Threads, ReadHead(t) \/ ReadNext(t) PROVE Calls'
  BY <1>7 DEF ReadHead, ReadNext
<1>8. ASSUME NEW t \in Threads, SetHead(t) \/ ReadValue(t) PROVE Calls'
  BY <1>8 DEF SetHead, ReadValue
<1>9. ASSUME NEW t \in Threads, UnlockH(t) PROVE Calls'
  BY <1>9 DEF UnlockH, Return
<1>10. ASSUME NEW t \in Threads, Delete(t) PROVE Calls'
  BY <1>10 DEF Delete, Return
<1>11. ASSUME NEW t \in Threads, StoresDrain(t) PROVE Calls'
  BY <1>11 DEF StoresDrain
<1>12. CASE Destroy \/ DestroyNode \/ UNCHANGED vars
  BY <1>12 DEF Destroy, DestroyNode, vars
<1> QED
  BY <1>1, <1>2, <1>3, <1>4, <1>5, <1>6, <1>7, <1>8, <1>9, <1>10, <1>11, <1>12
     DEF Next, Run, CallTryDequeue, CallEmpty

-----------------------------------------------------------------------------
\* What draining a thread's stores does to the values.
LEMMA DrainValues ==
  ASSUME IInv, NEW t \in Threads, Drain(t)
  PROVE  /\ t \in buffered => value'[node[t]] = item[t]
         /\ t \notin buffered => value' = value
         /\ \A n \in Nodes : n /= node[t] => value'[n] = value[n]
         /\ \A i \in Pos : value'[chain[i]] = value[chain[i]]
         /\ \A u \in Threads : Owner(u) /\ u /= t => value'[node[u]] = value[node[u]]
<1>1. t \in buffered => Owner(t) /\ node[t] \in Nodes
  BY InvariantFacts DEF IInv, Ownership
<1>2. \A n \in Nodes : n /= node[t] => value'[n] = value[n]
  BY DEF IInv, TypeOK, Drain
<1>3. t \in buffered => \A i \in Pos : chain[i] /= node[t]
  BY <1>1 DEF IInv, Ownership
<1>4. \A u \in Threads :
        Owner(u) /\ u /= t /\ t \in buffered => node[u] /= node[t] /\ node[u] \in Nodes
  BY <1>1 DEF IInv, Ownership
<1>5. t \notin buffered => value' = value
  BY DEF Drain
<1>6. t \in buffered => value'[node[t]] = item[t]
  BY <1>1 DEF IInv, TypeOK, Drain
<1> QED
  BY <1>2, <1>3, <1>4, <1>5, <1>6, InvariantFacts

\* At first no thread is about to link a node.
LEMMA ContentsInit == Init => Contents
  BY DEF Init, Contents

\* Nobody overwrites the value of a node that an enqueuer is about to link.
LEMMA ContentsStep == IInv /\ Contents /\ [Next]_vars => Contents'
<1> SUFFICES ASSUME IInv, Contents, [Next]_vars PROVE Contents'
  OBVIOUS
<1> USE DEF At, Goto, mem, locals, Contents
<1>0. pc \in [Threads -> PCs]
  BY DEF IInv, TypeOK
<1> USE <1>0
\* A step of t that does not bring it closer to Link.
<1>1. ASSUME NEW t \in Threads,
             \A u \in Threads \ {t} :
               pc'[u] = pc[u] /\ node'[u] = node[u] /\ item'[u] = item[u],
             Drain(t),
             pc'[t] \in {"t_test", "t_cas", "link"} =>
               /\ pc[t] \in {"t_test", "t_cas", "link"}
               /\ node'[t] = node[t] /\ item'[t] = item[t]
      PROVE  Contents'
  <2> SUFFICES ASSUME NEW u \in Threads,
                      pc'[u] \in {"t_test", "t_cas", "link"}, u \notin buffered'
               PROVE  value'[node'[u]] = item'[u]
    OBVIOUS
  <2>1. CASE u = t
    BY <1>1, <2>1, DrainValues
  <2>2. CASE u /= t
    <3>1. pc[u] \in {"t_test", "t_cas", "link"} /\ u \notin buffered
      BY <1>1, <2>2, DrainFacts
    <3>2. Owner(u)
      BY <3>1 DEF Owner
    <3> QED
      BY <1>1, <2>2, <3>1, <3>2, DrainValues
  <2> QED
    BY <2>1, <2>2
\* One that leaves values and buffers alone.
<1>2. ASSUME NEW t \in Threads,
             \A u \in Threads \ {t} :
               pc'[u] = pc[u] /\ node'[u] = node[u] /\ item'[u] = item[u],
             UNCHANGED <<value, buffered>>,
             pc'[t] \in {"t_test", "t_cas", "link"} =>
               /\ pc[t] \in {"t_test", "t_cas", "link"}
               /\ node'[t] = node[t] /\ item'[t] = item[t]
      PROVE  Contents'
  BY <1>2
<1>t. /\ op \in [Threads -> {"none", "enqueue", "try_dequeue", "empty"}]
      /\ node \in [Threads -> Nodes \cup {NoNode}]
      /\ item \in [Threads -> Items \cup {NoItem}]
  BY DEF IInv, TypeOK
<1>3. ASSUME NEW t \in Threads, CallEnqueue(t) PROVE Contents'
  BY <1>3, <1>t DEF CallEnqueue
<1>4. ASSUME NEW t \in Threads, NEW c \in {"try_dequeue", "empty"},
             CallOnHead(t, c)
      PROVE  Contents'
  BY <1>2, <1>4 DEF CallOnHead
<1>5. ASSUME NEW t \in Threads,
             TestTLock(t) \/ TestHLock(t) \/ Link(t) \/ SetTail(t)
      PROVE  Contents'
  BY <1>2, <1>5 DEF TestTLock, TestHLock, Test, Link, SetTail
<1>6. ASSUME NEW t \in Threads, CasTLock(t) \/ CasHLock(t) PROVE Contents'
  BY <1>1, <1>6 DEF CasTLock, CasHLock, CasLock
<1>7. ASSUME NEW t \in Threads, UnlockT(t) \/ UnlockH(t) PROVE Contents'
  BY <1>1, <1>7, <1>t DEF UnlockT, UnlockH, Unlock, Return
<1>8. ASSUME NEW t \in Threads, ReadHead(t) \/ ReadNext(t) \/ SetHead(t)
      PROVE  Contents'
  BY <1>2, <1>8, <1>t DEF ReadHead, ReadNext, SetHead
<1>9. ASSUME NEW t \in Threads, ReadValue(t) PROVE Contents'
  BY <1>2, <1>9, <1>t DEF ReadValue
<1>10. ASSUME NEW t \in Threads, Delete(t) PROVE Contents'
  BY <1>2, <1>10, <1>t DEF Delete, Return
<1>11. ASSUME NEW t \in Threads, StoresDrain(t) PROVE Contents'
  BY <1>1, <1>11 DEF StoresDrain
<1>12. CASE Destroy \/ DestroyNode \/ UNCHANGED vars
  BY <1>12 DEF Destroy, DestroyNode, vars
<1> QED
  BY <1>3, <1>4, <1>5, <1>6, <1>7, <1>8, <1>9, <1>10, <1>11, <1>12
     DEF Next, Run, CallTryDequeue, CallEmpty

\* The invariant under which every step of the queue implements one of the
\* atomic queue, or none.
LEMMA RefinementInvariance == Spec => []RInv
<1>1. Init => Calls /\ Contents
  BY CallsInit, ContentsInit
<1>2. IInv /\ Calls /\ Contents /\ [Next]_vars => (Calls /\ Contents)'
  BY CallsStep, ContentsStep
<1> QED
  BY <1>1, <1>2, Invariance, PTL DEF Spec, RInv

-----------------------------------------------------------------------------
\* The variables of the atomic queue under the mapping of Abstract.
Queue == [i \in 1 .. Len(chain) - 1 |-> value[chain[i + 1]]]
ItemOf(t) == IF At(t, "read_value") THEN value[newHead[t]] ELSE item[t]
Outcome == [t \in Threads |-> Result(t)]
AbstractItem == [t \in Threads |-> ItemOf(t)]

\* A step of t that leaves the values of listed nodes alone changes the item
\* and the outcome of t only.
LEMMA Frame ==
  ASSUME RInv, NEW t \in Threads,
         \A u \in Threads \ {t} :
           /\ pc'[u] = pc[u] /\ op'[u] = op[u]
           /\ newHead'[u] = newHead[u] /\ item'[u] = item[u],
         \A i \in Pos : value'[chain[i]] = value[chain[i]]
  PROVE  /\ AbstractItem' = [AbstractItem EXCEPT ![t] = ItemOf(t)']
         /\ Outcome' = [Outcome EXCEPT ![t] = Result(t)']
<1>1. \A u \in Threads \ {t} : ItemOf(u)' = ItemOf(u)
  <2> SUFFICES ASSUME NEW u \in Threads \ {t} PROVE ItemOf(u)' = ItemOf(u)
    OBVIOUS
  <2>1. CASE At(u, "read_value")
    <3>1. newHead[u] = chain[1] /\ 1 \in Pos
      BY <2>1, InvariantFacts DEF RInv, IInv, Locals
    <3> QED
      BY <2>1, <3>1 DEF ItemOf, At
  <2>2. CASE ~At(u, "read_value")
    BY <2>2 DEF ItemOf, At
  <2> QED
    BY <2>1, <2>2
<1>2. \A u \in Threads \ {t} : Result(u)' = Result(u)
  BY DEF Result, TookEffect, OnHead
<1> QED
  BY <1>1, <1>2 DEF AbstractItem, Outcome

\* The queue does not change while the list and its values do not.
LEMMA QueueKept ==
  ASSUME RInv, UNCHANGED chain,
         \A i \in Pos : value'[chain[i]] = value[chain[i]]
  PROVE  Queue' = Queue
<1>1. \A i \in 1 .. Len(chain) - 1 : i + 1 \in Pos
  BY InvariantFacts DEF RInv, Pos
<1> QED
  BY <1>1 DEF Queue

\* The abstract queue is a sequence of items.
LEMMA QueueIsSeq ==
  ASSUME RInv
  PROVE  /\ Queue \in Seq(Items \cup {NoItem})
         /\ Len(Queue) = Len(chain) - 1
         /\ \A i \in 1 .. Len(chain) - 1 : Queue[i] = value[chain[i + 1]]
<1>1. Len(chain) - 1 \in Nat
  BY InvariantFacts DEF RInv
<1>2. \A i \in 1 .. Len(chain) - 1 : i + 1 \in Pos
  BY <1>1, InvariantFacts DEF RInv, Pos
<1>3. Queue \in [1 .. Len(chain) - 1 -> Items \cup {NoItem}]
  BY <1>2, InvariantFacts DEF RInv, IInv, TypeOK, Queue
<1>4. Queue \in Seq(Items \cup {NoItem})
  BY <1>1, <1>3, SeqDef
<1>5. DOMAIN Queue = 1 .. Len(chain) - 1 /\ DOMAIN Queue = 1 .. Len(Queue)
  BY <1>3, <1>4, LenProperties
<1>6. Len(Queue) = Len(chain) - 1
  BY <1>1, <1>4, <1>5, LenProperties
<1> QED
  BY <1>4, <1>6 DEF Queue

\* The atomic queue is empty just when the dummy node has no successor.
LEMMA QueueEmpty == ASSUME RInv PROVE Queue = <<>> <=> next[head] = NoNode
<1>1. Len(chain) \in Nat /\ Len(chain) >= 1
  BY InvariantFacts DEF RInv
<1>2. CASE Len(chain) = 1
  <2>1. Len(Queue) = 0
    BY <1>2, QueueIsSeq
  <2>2. Queue = <<>>
    BY <2>1, QueueIsSeq, EmptySeq
  <2> QED
    BY <1>2, <2>2, InvariantFacts DEF RInv, IInv, List
<1>3. CASE Len(chain) /= 1
  <2>1. 1 \in Pos /\ 1 + 1 \in Pos
    BY <1>1, <1>3 DEF Pos
  <2>2. next[head] = chain[1 + 1] /\ chain[1 + 1] \in Nodes
    BY <2>1, InvariantFacts DEF RInv, IInv, List
  <2>3. Len(Queue) /= 0
    BY <1>1, <1>3, QueueIsSeq
  <2>4. Queue /= <<>>
    BY <2>3, EmptySeq
  <2> QED
    BY <2>2, <2>4, NodesAssumption
<1> QED
  BY <1>2, <1>3

-----------------------------------------------------------------------------
\* What remains to be shown of a step.
Implements == Abstract!Next \/ UNCHANGED <<Queue, op, AbstractItem, Outcome>>

\* The first step of a call is its invocation.
LEMMA InvokeImplements ==
  ASSUME RInv, NEW t \in Threads, NEW c \in {"enqueue", "try_dequeue", "empty"},
         NEW i, c = "enqueue" => i \in Items, c /= "enqueue" => i = NoItem,
         op[t] = "none", op' = [op EXCEPT ![t] = c],
         AbstractItem' = [AbstractItem EXCEPT ![t] = i],
         Outcome' = [Outcome EXCEPT ![t] = "pending"],
         Queue' = Queue
  PROVE  Abstract!Next
<1>1. Abstract!Invoke(t, c, i)
  BY DEF Abstract!Invoke, AbstractItem, ItemOf, Outcome, Queue
<1> QED
  BY <1>1 DEF Abstract!Next

\* A step that moves t without effect on any of that stutters.
LEMMA StutterImplements ==
  ASSUME RInv, NEW t \in Threads,
         \A u \in Threads \ {t} :
           /\ pc'[u] = pc[u] /\ newHead'[u] = newHead[u] /\ item'[u] = item[u],
         \A i \in Pos : value'[chain[i]] = value[chain[i]],
         UNCHANGED <<chain, op>>, ItemOf(t)' = ItemOf(t), Result(t)' = Result(t)
  PROVE  Implements
<1>1. Queue' = Queue
  BY QueueKept
<1>2. /\ AbstractItem' = [AbstractItem EXCEPT ![t] = ItemOf(t)]
      /\ Outcome' = [Outcome EXCEPT ![t] = Result(t)]
  BY Frame
<1>3. AbstractItem' = AbstractItem /\ Outcome' = Outcome
  BY <1>2 DEF AbstractItem, Outcome
<1> QED
  BY <1>1, <1>3 DEF Implements

\* The end of a call.
LEMMA ReturnImplements ==
  ASSUME RInv, NEW t \in Threads, Return(t), UNCHANGED chain,
         \A i \in Pos : value'[chain[i]] = value[chain[i]],
         Result(t) \in {"true", "false"}
  PROVE  Implements
<1>0. /\ pc \in [Threads -> PCs]
      /\ op \in [Threads -> {"none", "enqueue", "try_dequeue", "empty"}]
      /\ newHead \in [Threads -> Nodes \cup {NoNode}]
      /\ item \in [Threads -> Items \cup {NoItem}]
  BY DEF RInv, IInv, TypeOK
<1>1. Queue' = Queue
  BY QueueKept
<1>2. ItemOf(t)' = NoItem /\ Result(t)' = "none"
  BY <1>0 DEF Return, Goto, ItemOf, Result, At
<1>3. /\ AbstractItem' = [AbstractItem EXCEPT ![t] = NoItem]
      /\ Outcome' = [Outcome EXCEPT ![t] = "none"]
  BY <1>0, <1>2, Frame DEF Return, Goto
<1>4. Outcome[t] \in {"true", "false"}
  BY DEF Outcome
<1>5. Abstract!Return(t)
  BY <1>1, <1>3, <1>4
     DEF Abstract!Return, Return, AbstractItem, ItemOf, Outcome, Queue
<1> QED
  BY <1>5 DEF Implements, Abstract!Next

\* An enqueue takes effect when it links its node (concurrent_queue_MSTLB:66).
LEMMA LinkImplements ==
  ASSUME RInv, NEW t \in Threads, Link(t)
  PROVE  Implements
<1> USE DEF At, Goto
<1>0. /\ pc \in [Threads -> PCs] /\ pc[t] = "link" /\ op[t] = "enqueue"
      /\ UNCHANGED <<value, op, newHead, item>>
      /\ pc' = [pc EXCEPT ![t] = "set_tail"]
  BY DEF RInv, IInv, TypeOK, Calls, Link, mem, locals
<1>1. t \notin buffered
  BY <1>0 DEF RInv, IInv, Locals
<1>2. value[node[t]] = item[t] /\ item[t] \in Items \cup {NoItem}
  BY <1>0, <1>1 DEF RInv, Contents, IInv, TypeOK
<1>3. ItemOf(t) = item[t] /\ ItemOf(t)' = item[t]
  BY <1>0 DEF ItemOf
<1>4. Result(t) = "pending" /\ Result(t)' = "true"
  BY <1>0 DEF Result, TookEffect, OnHead
<1>5. /\ AbstractItem' = [AbstractItem EXCEPT ![t] = item[t]]
      /\ Outcome' = [Outcome EXCEPT ![t] = "true"]
  BY <1>0, <1>3, <1>4, Frame
<1>6. AbstractItem' = AbstractItem /\ AbstractItem[t] = item[t]
  BY <1>3, <1>5 DEF AbstractItem
<1>7. Queue' = Append(Queue, item[t])
  <2> DEFINE S == Items \cup {NoItem}
             n == Len(chain)
  <2>1. n \in Nat /\ n >= 1
    BY InvariantFacts DEF RInv
  <2>2. /\ Len(chain') = n + 1
        /\ \A i \in Pos : chain'[i] = chain[i]
        /\ chain'[n + 1] = node[t]
    BY LinkFacts DEF RInv
  <2>3. Queue' = [i \in 1 .. n |-> value[chain'[i + 1]]]
    BY <1>0, <2>1, <2>2 DEF Queue
  <2>4. /\ Append(Queue, item[t]) \in Seq(S)
        /\ Len(Append(Queue, item[t])) = n
        /\ \A i \in 1 .. n - 1 : Append(Queue, item[t])[i] = Queue[i]
        /\ Append(Queue, item[t])[n] = item[t]
    BY <1>2, <2>1, QueueIsSeq, AppendFacts
  <2>5. Append(Queue, item[t]) \in [1 .. n -> S]
    BY <2>4, LenProperties
  <2>6. ASSUME NEW i \in 1 .. n
        PROVE  value[chain'[i + 1]] = Append(Queue, item[t])[i]
    <3>1. CASE i = n
      BY <1>2, <2>2, <2>4, <3>1
    <3>2. CASE i /= n
      <4>1. i \in 1 .. n - 1 /\ i + 1 \in Pos
        BY <2>1, <3>2 DEF Pos
      <4> QED
        BY <2>2, <2>4, <4>1, QueueIsSeq
    <3> QED
      BY <3>1, <3>2
  <2> QED
    BY <2>3, <2>5, <2>6
<1>8. Abstract!Enqueue(t)
  BY <1>0, <1>4, <1>5, <1>6, <1>7 DEF Abstract!Enqueue, Abstract!TakesEffect,
     AbstractItem, ItemOf, Outcome, Queue
<1> QED
  BY <1>8 DEF Implements, Abstract!Next

\* A dequeue takes effect when it moves head.
LEMMA SetHeadImplements ==
  ASSUME RInv, NEW t \in Threads, SetHead(t)
  PROVE  Implements
<1> USE DEF At, Goto
<1>0. /\ pc \in [Threads -> PCs] /\ pc[t] = "set_head"
      /\ op[t] = "try_dequeue"
      /\ UNCHANGED <<value, op, newHead, item>>
      /\ pc' = [pc EXCEPT ![t] = "read_value"]
  BY DEF RInv, IInv, TypeOK, Locals, SetHead, mem, locals
<1>1. /\ Len(chain) \in Nat /\ Len(chain) >= 2
      /\ newHead[t] = chain[2] /\ chain[2] \in Nodes
  <2>1. Len(chain) \in Nat /\ Len(chain) >= 2 /\ newHead[t] = chain[2]
    BY <1>0, InvariantFacts DEF RInv
  <2>2. 2 \in Pos
    BY <2>1 DEF Pos
  <2> QED
    BY <2>1, <2>2, InvariantFacts DEF RInv
<1>2. Queue /= <<>> /\ Head(Queue) = value[chain[2]]
  <2>1. Len(Queue) >= 1 /\ Queue[1] = value[chain[1 + 1]]
    BY <1>1, QueueIsSeq
  <2>2. Queue /= <<>>
    BY <2>1, EmptySeq
  <2>3. Head(Queue) = Queue[1]
    BY <2>2, QueueIsSeq
  <2> QED
    BY <2>1, <2>2, <2>3
<1>3. ItemOf(t)' = value[chain[2]]
  BY <1>0, <1>1 DEF ItemOf
<1>4. Result(t) = "pending" /\ Result(t)' = "true"
  BY <1>0, <1>1, NodesAssumption DEF Result, TookEffect, OnHead
<1>5. /\ AbstractItem' = [AbstractItem EXCEPT ![t] = Head(Queue)]
      /\ Outcome' = [Outcome EXCEPT ![t] = "true"]
  BY <1>0, <1>2, <1>3, <1>4, Frame
<1>6. Queue' = Tail(Queue)
  <2> DEFINE S == Items \cup {NoItem}
             n == Len(chain)
  <2>1. /\ Len(chain') = n - 1
        /\ \A i \in 1 .. n - 1 : chain'[i] = chain[i + 1]
    BY SetHeadFacts DEF RInv
  <2>2. Queue' = [i \in 1 .. n - 2 |-> value[chain'[i + 1]]]
    BY <1>0, <1>1, <2>1 DEF Queue
  <2>3. /\ Tail(Queue) \in Seq(S)
        /\ Len(Tail(Queue)) = n - 2
        /\ \A i \in 1 .. n - 2 : Tail(Queue)[i] = Queue[i + 1]
    BY <1>1, QueueIsSeq, TailFacts
  <2>4. Tail(Queue) \in [1 .. n - 2 -> S]
    BY <2>3, LenProperties
  <2>5. ASSUME NEW i \in 1 .. n - 2
        PROVE  value[chain'[i + 1]] = Tail(Queue)[i]
    <3>1. i + 1 \in 1 .. n - 1
      BY <1>1
    <3> QED
      BY <2>1, <2>3, <3>1, QueueIsSeq
  <2> QED
    BY <2>2, <2>4, <2>5
<1>7. Abstract!Dequeue(t)
  BY <1>0, <1>2, <1>4, <1>5, <1>6 DEF Abstract!Dequeue, Abstract!TakesEffect,
     AbstractItem, ItemOf, Outcome, Queue
<1> QED
  BY <1>7 DEF Implements, Abstract!Next

\* A call on the head side that finds no node takes effect when it reads next.
LEMMA ReadNextImplements ==
  ASSUME RInv, NEW t \in Threads, ReadNext(t)
  PROVE  Implements
<1> USE DEF At, Goto
<1>0. /\ pc \in [Threads -> PCs] /\ pc[t] = "read_next"
      /\ newHead \in [Threads -> Nodes \cup {NoNode}]
      /\ op[t] \in {"try_dequeue", "empty"}
      /\ UNCHANGED <<chain, value, op, item>>
      /\ node[t] = head
      /\ newHead' = [newHead EXCEPT ![t] = next[head]]
      /\ pc' = [pc EXCEPT ![t] = IF op[t] = "try_dequeue" /\ next[head] /= NoNode
                                 THEN "set_head" ELSE "h_unlock"]
  BY DEF RInv, IInv, TypeOK, Locals, Calls, ReadNext, mem
<1>1. ItemOf(t) = item[t] /\ ItemOf(t)' = item[t] /\ Result(t) = "pending"
  BY <1>0 DEF ItemOf, Result, TookEffect, OnHead
<1>2. Queue' = Queue
  BY <1>0, QueueKept
<1>3. /\ AbstractItem' = [AbstractItem EXCEPT ![t] = item[t]]
      /\ Outcome' = [Outcome EXCEPT ![t] = Result(t)']
  BY <1>0, <1>1, Frame
<1>4. AbstractItem' = AbstractItem /\ Outcome[t] = "pending"
  BY <1>1, <1>3 DEF AbstractItem, Outcome
<1>5. CASE op[t] = "try_dequeue" /\ next[head] /= NoNode
  <2>1. Result(t)' = Result(t)
    BY <1>0, <1>5 DEF Result, TookEffect, OnHead
  <2> QED
    BY <1>0, <1>1, <2>1, StutterImplements
<1>6. CASE op[t] = "try_dequeue" /\ next[head] = NoNode
  <2>1. Result(t)' = "false"
    BY <1>0, <1>6 DEF Result, TookEffect, OnHead
  <2>2. Abstract!DequeueNone(t)
    BY <1>0, <1>2, <1>3, <1>4, <1>6, <2>1, QueueEmpty
       DEF Abstract!DequeueNone, Abstract!TakesEffect, AbstractItem, ItemOf,
           Outcome, Queue
  <2> QED
    BY <2>2 DEF Implements, Abstract!Next
<1>7. CASE op[t] = "empty"
  <2>1. Result(t)' = IF next[head] = NoNode THEN "true" ELSE "false"
    BY <1>0, <1>7 DEF Result, TookEffect, OnHead
  <2>2. Result(t)' = IF Queue = <<>> THEN "true" ELSE "false"
    BY <2>1, QueueEmpty
  <2>3. Abstract!Empty(t)
    BY <1>0, <1>2, <1>3, <1>4, <1>7, <2>2
       DEF Abstract!Empty, Abstract!TakesEffect, AbstractItem, ItemOf,
           Outcome, Queue
  <2> QED
    BY <2>3 DEF Implements, Abstract!Next
<1> QED
  BY <1>0, <1>5, <1>6, <1>7

\* Beginning any of the three calls invokes it.
LEMMA CallImplements ==
  ASSUME RInv, NEW t \in Threads,
         CallEnqueue(t) \/ CallTryDequeue(t) \/ CallEmpty(t)
  PROVE  Implements
<1> USE DEF At, Goto
<1>0. /\ pc \in [Threads -> PCs] /\ pc[t] = "idle"
      /\ op \in [Threads -> {"none", "enqueue", "try_dequeue", "empty"}]
      /\ item \in [Threads -> Items \cup {NoItem}]
      /\ op[t] = "none" /\ item[t] = NoItem
      /\ UNCHANGED <<chain, value, newHead>>
  BY DEF RInv, IInv, TypeOK, Calls, CallEnqueue, CallTryDequeue, CallEmpty,
     CallOnHead, mem
<1>1. Queue' = Queue
  BY <1>0, QueueKept
<1>2. CASE CallEnqueue(t)
  <2>1. PICK i \in Items : item' = [item EXCEPT ![t] = i]
    BY <1>2 DEF CallEnqueue
  <2>2. ItemOf(t)' = i /\ Result(t)' = "pending"
    BY <1>0, <1>2, <2>1 DEF CallEnqueue, ItemOf, Result, TookEffect, OnHead
  <2>3. /\ AbstractItem' = [AbstractItem EXCEPT ![t] = i]
        /\ Outcome' = [Outcome EXCEPT ![t] = "pending"]
    BY <1>0, <1>2, <2>1, <2>2, Frame DEF CallEnqueue
  <2> QED
    BY <1>0, <1>1, <1>2, <2>3, InvokeImplements DEF CallEnqueue, Implements
<1>3. ASSUME NEW c \in {"try_dequeue", "empty"}, CallOnHead(t, c)
      PROVE  Implements
  <2>1. ItemOf(t)' = NoItem /\ Result(t)' = "pending"
    BY <1>0, <1>3 DEF CallOnHead, ItemOf, Result, TookEffect, OnHead
  <2>2. /\ AbstractItem' = [AbstractItem EXCEPT ![t] = NoItem]
        /\ Outcome' = [Outcome EXCEPT ![t] = "pending"]
    BY <1>0, <1>3, <2>1, Frame DEF CallOnHead
  <2> QED
    BY <1>0, <1>1, <1>3, <2>2, InvokeImplements DEF CallOnHead, Implements
<1> QED
  BY <1>2, <1>3 DEF CallTryDequeue, CallEmpty

\* The other steps of a call.
LEMMA RunImplements ==
  ASSUME RInv, NEW t \in Threads, Run(t) \/ StoresDrain(t)
  PROVE  Implements
<1> USE DEF At, Goto, mem, locals
<1>0. /\ pc \in [Threads -> PCs]
      /\ op \in [Threads -> {"none", "enqueue", "try_dequeue", "empty"}]
      /\ node \in [Threads -> Nodes \cup {NoNode}]
      /\ newHead \in [Threads -> Nodes \cup {NoNode}]
      /\ item \in [Threads -> Items \cup {NoItem}]
      /\ IInv /\ Calls
  BY DEF RInv, IInv, TypeOK
<1> USE <1>0
<1> DEFINE Unmoved ==
             /\ ItemOf(t)' = ItemOf(t)
             /\ Result(t)' = Result(t)
<1>1. CASE TestTLock(t) \/ TestHLock(t)
  <2>1. Unmoved
    BY <1>1 DEF TestTLock, TestHLock, Test, ItemOf, Result, TookEffect, OnHead, Calls
  <2> QED
    BY <1>1, <2>1, StutterImplements DEF TestTLock, TestHLock, Test
<1>2. CASE CasTLock(t) \/ CasHLock(t)
  <2>1. Unmoved
    BY <1>2 DEF CasTLock, CasHLock, CasLock, ItemOf, Result, TookEffect, OnHead, Calls
  <2> QED
    BY <1>2, <2>1, StutterImplements, DrainValues DEF CasTLock, CasHLock, CasLock
<1>3. CASE SetTail(t)
  <2>1. Unmoved
    BY <1>3 DEF SetTail, ItemOf, Result, TookEffect, OnHead
  <2> QED
    BY <1>3, <2>1, StutterImplements DEF SetTail
<1>4. CASE ReadHead(t)
  <2>1. Unmoved
    BY <1>4 DEF ReadHead, ItemOf, Result, TookEffect, OnHead
  <2> QED
    BY <1>4, <2>1, StutterImplements DEF ReadHead
<1>5. CASE ReadValue(t)
  <2>1. Unmoved
    BY <1>5 DEF ReadValue, ItemOf, Result, TookEffect, OnHead
  <2> QED
    BY <1>5, <2>1, StutterImplements DEF ReadValue
<1>6. CASE StoresDrain(t)
  <2>1. pc[t] \in {"t_test", "t_cas"}
    BY <1>6 DEF StoresDrain, IInv, Locals
  <2>2. Unmoved
    BY <1>6, <2>1 DEF StoresDrain, ItemOf, Result, TookEffect, OnHead
  <2> QED
    BY <1>6, <2>2, StutterImplements, DrainValues DEF StoresDrain
<1>7. CASE UnlockT(t)
  <2>1. Result(t) = "true"
    BY <1>7 DEF UnlockT, Result, TookEffect, Calls
  <2> QED
    BY <1>7, <2>1, ReturnImplements, DrainValues DEF UnlockT, Unlock
<1>8. CASE UnlockH(t)
  <2>1. op[t] \in {"try_dequeue", "empty"} /\ pc[t] = "h_unlock"
    BY <1>8 DEF UnlockH, Calls
  <2>2. Result(t) \in {"true", "false"}
    BY <2>1 DEF Result, TookEffect, OnHead
  <2>3. CASE Return(t)
    BY <1>8, <2>2, <2>3, ReturnImplements, DrainValues DEF UnlockH, Unlock
  <2>4. CASE Goto(t, "delete") /\ UNCHANGED locals
    <3>1. Unmoved
      BY <2>1, <2>4 DEF ItemOf, Result, TookEffect, OnHead
    <3> QED
      BY <1>8, <2>4, <3>1, StutterImplements, DrainValues DEF UnlockH, Unlock
  <2> QED
    BY <1>8, <2>3, <2>4 DEF UnlockH
<1>9. CASE Delete(t)
  <2>1. Result(t) = "true"
    BY <1>9 DEF Delete, Result, TookEffect, OnHead, Calls
  <2> QED
    BY <1>9, <2>1, ReturnImplements DEF Delete
<1> QED
  BY <1>1, <1>2, <1>3, <1>4, <1>5, <1>6, <1>7, <1>8, <1>9,
     LinkImplements, SetHeadImplements, ReadNextImplements DEF Run

-----------------------------------------------------------------------------
\* The constructed queue is the empty atomic queue.
LEMMA InitImplements == Init => Abstract!Init
<1> SUFFICES ASSUME Init PROVE Abstract!Init
  OBVIOUS
<1>1. Len(chain) = 1
  BY DEF Init
<1>2. Queue = <<>>
  BY <1>1 DEF Queue
<1>3. \A t \in Threads : ItemOf(t) = NoItem /\ Result(t) = "none"
  BY DEF Init, ItemOf, Result, At
<1> QED
  BY <1>2, <1>3 DEF Init, Abstract!Init, Queue, ItemOf

\* Every step of the queue is a step of the atomic queue or a stutter.
LEMMA StepImplements == RInv /\ [Next]_vars => [Abstract!Next]_(Abstract!vars)
<1> SUFFICES ASSUME RInv, [Next]_vars PROVE Implements
  BY DEF Implements, Abstract!vars, Queue, AbstractItem, ItemOf, Outcome
<1>1. CASE Destroy \/ DestroyNode \/ UNCHANGED vars
  <2>1. UNCHANGED <<value, chain, pc, op, newHead, item>>
    BY <1>1 DEF Destroy, DestroyNode, vars, mem, locals
  <2>2. UNCHANGED <<Queue, op, AbstractItem, Outcome>>
    BY <2>1 DEF Queue, AbstractItem, ItemOf, Outcome, Result, TookEffect,
       OnHead, At
  <2> QED
    BY <2>2 DEF Implements
<1> QED
  BY <1>1, CallImplements, RunImplements DEF Next

\* The queue is linearizable, for any number of threads, items and addresses:
\* what enqueue, try_dequeue and empty (concurrent_queue_MSTLB:58-106) do is
\* what an atomic queue may do.
THEOREM QueueIsLinearizable == Spec => Linearizable
<1>1. Init => Abstract!Init
  BY InitImplements
<1>2. RInv /\ [Next]_vars => [Abstract!Next]_(Abstract!vars)
  BY StepImplements
<1> QED
  BY <1>1, <1>2, RefinementInvariance, PTL DEF Spec, Linearizable, Abstract!Spec
=============================================================================
