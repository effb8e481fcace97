---------------------------- MODULE AtomicQueue ----------------------------
(***************************************************************************)
(* What concurrent_queue<T> promises: a FIFO queue whose enqueue,          *)
(* try_dequeue and empty each take effect at one instant between their     *)
(* call and their return, whatever the other threads do.                   *)
(***************************************************************************)
EXTENDS Sequences

CONSTANTS
  Threads,   \* the threads, each using a handle of its own
  Items,     \* the item pointers a program may enqueue
  NoItem     \* no item: the out parameter of a call that returns none

VARIABLES
  queue,     \* the items in the queue, oldest first
  call,      \* the call each thread is in
  item,      \* its argument, or what it returned through its out parameter
  outcome    \* what it returns, "pending" until it has taken effect

vars == <<queue, call, item, outcome>>

Calls == {"enqueue", "try_dequeue", "empty"}

TypeOK ==
  /\ queue \in Seq(Items)
  /\ call \in [Threads -> Calls \cup {"none"}]
  /\ item \in [Threads -> Items \cup {NoItem}]
  /\ outcome \in [Threads -> {"none", "pending", "true", "false"}]

Init ==
  /\ queue = <<>>
  /\ call = [t \in Threads |-> "none"]
  /\ item = [t \in Threads |-> NoItem]
  /\ outcome = [t \in Threads |-> "none"]

Invoke(t, c, i) ==
  /\ call[t] = "none"
  /\ call' = [call EXCEPT ![t] = c]
  /\ item' = [item EXCEPT ![t] = i]
  /\ outcome' = [outcome EXCEPT ![t] = "pending"]
  /\ UNCHANGED queue

TakesEffect(t, c, result) ==
  /\ call[t] = c
  /\ outcome[t] = "pending"
  /\ outcome' = [outcome EXCEPT ![t] = result]
  /\ UNCHANGED call

Enqueue(t) ==
  /\ TakesEffect(t, "enqueue", "true")
  /\ queue' = Append(queue, item[t])
  /\ UNCHANGED item

Dequeue(t) ==
  /\ queue /= <<>>
  /\ TakesEffect(t, "try_dequeue", "true")
  /\ queue' = Tail(queue)
  /\ item' = [item EXCEPT ![t] = Head(queue)]

DequeueNone(t) ==
  /\ queue = <<>>
  /\ TakesEffect(t, "try_dequeue", "false")
  /\ UNCHANGED <<queue, item>>

Empty(t) ==
  /\ TakesEffect(t, "empty", IF queue = <<>> THEN "true" ELSE "false")
  /\ UNCHANGED <<queue, item>>

Return(t) ==
  /\ outcome[t] \in {"true", "false"}
  /\ call' = [call EXCEPT ![t] = "none"]
  /\ item' = [item EXCEPT ![t] = NoItem]
  /\ outcome' = [outcome EXCEPT ![t] = "none"]
  /\ UNCHANGED queue

Next ==
  \E t \in Threads :
    \/ \E i \in Items : Invoke(t, "enqueue", i)
    \/ \E c \in {"try_dequeue", "empty"} : Invoke(t, c, NoItem)
    \/ Enqueue(t)
    \/ Dequeue(t)
    \/ DequeueNone(t)
    \/ Empty(t)
    \/ Return(t)

Spec == Init /\ [][Next]_vars
=============================================================================
