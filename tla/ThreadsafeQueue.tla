--------------------------- MODULE ThreadsafeQueue ---------------------------
(***************************************************************************)
(* threadsafe_queue: a std::queue of JSON objects behind one mutex and one *)
(* condition variable.  The io_context threads and the destructors push,   *)
(* the updates_processor threads pop.  Every step a thread takes inside    *)
(* the critical section is an action of its own, so that what the mutex    *)
(* and the condition variable contribute is checked rather than assumed.   *)
(***************************************************************************)
EXTENDS Naturals, Sequences

CONSTANTS
  Producers,   \* threads that call push(array), push(object) or push_stop_obj
  Consumers,   \* threads that call wait_and_pop in a loop
  Objects,     \* the objects pushed
  Batches,     \* the arguments of push; push(object) has a batch of length one
  NoThread,    \* the owner of a free mutex
  MaxPushes,   \* bound: calls of push over all producers
  MaxSpurious  \* bound: spurious wakeups of the condition variable

ASSUME QueueAssumption ==
  /\ Producers \cap Consumers = {}
  /\ NoThread \notin Producers \cup Consumers
  /\ Batches \subseteq Seq(Objects)
  /\ MaxPushes \in Nat
  /\ MaxSpurious \in Nat

VARIABLES
  q,           \* q_
  owner,       \* the thread that holds m_
  pc,          \* where each thread is
  todo,        \* todo[p]: what p's push still has to append
  taken,       \* taken[c]: what wait_and_pop has returned to c, in order
  pushes,      \* calls of push so far
  wakeups      \* spurious wakeups so far

queueVars == <<q, owner, pc, todo, taken, pushes, wakeups>>

Threads == Producers \cup Consumers

\* The places at which a thread holds the mutex.
Critical == {"push", "check", "unlock"}

QueueTypeOK ==
  /\ q \in Seq(Objects)
  /\ owner \in Threads \cup {NoThread}
  /\ pc \in [Threads -> Critical \cup {"idle", "waiting", "woken"}]
  /\ todo \in [Producers -> Seq(Objects)]
  /\ taken \in [Consumers -> Seq(Objects)]
  /\ pushes \in 0..MaxPushes
  /\ wakeups \in 0..MaxSpurious
  /\ \A p \in Producers :
       /\ pc[p] \in {"idle", "push", "unlock"}
       /\ todo[p] # <<>> => pc[p] = "push"
  /\ \A c \in Consumers : pc[c] # "push"

QueueInit ==
  /\ q = <<>>
  /\ owner = NoThread
  /\ pc = [t \in Threads |-> "idle"]
  /\ todo = [p \in Producers |-> <<>>]
  /\ taken = [c \in Consumers |-> <<>>]
  /\ pushes = 0
  /\ wakeups = 0

Go(t, place) == pc' = [pc EXCEPT ![t] = place]

------------------------------------------------------------------------------
(* The three pushes: lock_guard, the loop over the array, notify_all.      *)

push(p, batch) ==
  /\ pc[p] = "idle"
  /\ pushes < MaxPushes
  /\ owner = NoThread
  /\ owner' = p
  /\ Go(p, "push")
  /\ todo' = [todo EXCEPT ![p] = batch]
  /\ pushes' = pushes + 1
  /\ UNCHANGED <<q, taken, wakeups>>

append_element(p) ==
  /\ pc[p] = "push"
  /\ todo[p] # <<>>
  /\ q' = Append(q, Head(todo[p]))
  /\ todo' = [todo EXCEPT ![p] = Tail(@)]
  /\ UNCHANGED <<owner, pc, taken, pushes, wakeups>>

\* Variant with a fault: the call of notify_all is missing.
notify_nobody(p) ==
  /\ pc[p] = "push"
  /\ todo[p] = <<>>
  /\ Go(p, "unlock")
  /\ UNCHANGED <<q, owner, todo, taken, pushes, wakeups>>

\* Variant with a fault: notify_one, which wakes one consumer per array.
notify_one(p) ==
  /\ pc[p] = "push"
  /\ todo[p] = <<>>
  /\ LET asleep == {c \in Consumers : pc[c] = "waiting"}
     IN  IF asleep = {}
         THEN Go(p, "unlock")
         ELSE \E c \in asleep : pc' = [pc EXCEPT ![p] = "unlock", ![c] = "woken"]
  /\ UNCHANGED <<q, owner, todo, taken, pushes, wakeups>>

\* Variant with a fault: the call leaves the loop after any element.
notify_in_loop(p) ==
  /\ pc[p] = "push"
  /\ pc' = [t \in Threads |-> IF t = p THEN "unlock"
                              ELSE IF pc[t] = "waiting" THEN "woken" ELSE pc[t]]
  /\ UNCHANGED <<q, owner, todo, taken, pushes, wakeups>>

notify_all(p) ==
  /\ pc[p] = "push"
  /\ todo[p] = <<>>
  /\ pc' = [t \in Threads |-> IF t = p THEN "unlock"
                              ELSE IF pc[t] = "waiting" THEN "woken" ELSE pc[t]]
  /\ UNCHANGED <<q, owner, todo, taken, pushes, wakeups>>

\* The destructor of lock_guard or unique_lock at the end of the call.
unlock(t) ==
  /\ pc[t] = "unlock"
  /\ owner' = NoThread
  /\ Go(t, "idle")
  /\ UNCHANGED <<q, todo, taken, pushes, wakeups>>

------------------------------------------------------------------------------
(* wait_and_pop: unique_lock, cv_.wait with the predicate, front and pop.  *)

\* Variant with a fault: wait_and_pop without its unique_lock.
lock_ignored(c) ==
  /\ pc[c] \in {"idle", "woken"}
  /\ owner' = c
  /\ Go(c, "check")
  /\ UNCHANGED <<q, todo, taken, pushes, wakeups>>

\* The first acquisition, or the one cv_.wait makes before it returns.
lock(c) ==
  /\ pc[c] \in {"idle", "woken"}
  /\ owner = NoThread
  /\ owner' = c
  /\ Go(c, "check")
  /\ UNCHANGED <<q, todo, taken, pushes, wakeups>>

\* The predicate is false: release the mutex and sleep, in one step.
wait(c) ==
  /\ pc[c] = "check"
  /\ q = <<>>
  /\ owner' = NoThread
  /\ Go(c, "waiting")
  /\ UNCHANGED <<q, todo, taken, pushes, wakeups>>

pop(c) ==
  /\ pc[c] = "check"
  /\ q # <<>>
  /\ taken' = [taken EXCEPT ![c] = Append(@, Head(q))]
  /\ q' = Tail(q)
  /\ Go(c, "unlock")
  /\ UNCHANGED <<owner, todo, pushes, wakeups>>

\* A condition variable may wake a waiter nobody notified.
spurious_wakeup(c) ==
  /\ pc[c] = "waiting"
  /\ wakeups < MaxSpurious
  /\ wakeups' = wakeups + 1
  /\ Go(c, "woken")
  /\ UNCHANGED <<q, owner, todo, taken, pushes>>

------------------------------------------------------------------------------
wait_and_pop(c) == lock(c) \/ wait(c) \/ pop(c) \/ unlock(c)

QueueNext ==
  \/ \E p \in Producers :
       \/ \E batch \in Batches : push(p, batch)
       \/ append_element(p)
       \/ notify_all(p)
       \/ unlock(p)
  \/ \E c \in Consumers : wait_and_pop(c) \/ spurious_wakeup(c)

\* A thread that can move inside its call does.  Nothing obliges a producer
\* to call push, and nothing obliges the condition variable to wake anybody.
QueueFairness ==
  /\ \A p \in Producers : WF_queueVars(append_element(p) \/ notify_all(p) \/ unlock(p))
  /\ \A c \in Consumers : WF_queueVars(wait_and_pop(c))

QueueSpec == QueueInit /\ [][QueueNext]_queueVars /\ QueueFairness

------------------------------------------------------------------------------
\* No wakeup is lost: while a consumer sleeps in cv_.wait, the queue is empty
\* or the producer that filled it still holds the mutex and has yet to notify.
NoSleeperOnWork ==
  \A c \in Consumers :
    pc[c] = "waiting" => q = <<>> \/ \E p \in Producers : pc[p] = "push"

\* The queue as its callers see it: a push takes effect when it gets the mutex.
Fifo == INSTANCE FifoQueue WITH
  items <- IF owner \in Producers THEN q \o todo[owner] ELSE q

\* Element by element pushes, waits and pops implement the atomic FIFO queue:
\* arrays stay in one block, in order, and no object is lost or taken twice.
ImplementsFifoQueue == Fifo!Spec

\* What was pushed does not stay: with consumers that call wait_and_pop in a
\* loop, a nonempty queue is always emptied, whatever the order of the wakeups.
QueueIsDrained == q # <<>> ~> q = <<>>
==============================================================================
