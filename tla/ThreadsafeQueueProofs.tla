------------------------ MODULE ThreadsafeQueueProofs ------------------------
(***************************************************************************)
(* For any number of threads and any objects: the queue is well typed, its *)
(* critical sections exclude each other, no wakeup is lost, and every step *)
(* of the detailed queue is a step, or none, of the atomic FIFO queue.     *)
(***************************************************************************)
EXTENDS ThreadsafeQueue, SequenceTheorems, TLAPS

\* The mutex and the program counters say the same.
LockInv == \A t \in Threads : pc[t] \in Critical <=> owner = t

Inv == QueueTypeOK /\ LockInv

\* Every step keeps the types, whoever takes it.
LEMMA TypeStep == ASSUME QueueTypeOK, [QueueNext]_queueVars PROVE QueueTypeOK'
<1> USE QueueAssumption DEF QueueTypeOK, Threads, Critical, Go
<1>1. ASSUME NEW p \in Producers, NEW batch \in Batches, push(p, batch)
      PROVE QueueTypeOK'
  BY <1>1 DEF push
<1>2. ASSUME NEW p \in Producers, append_element(p) PROVE QueueTypeOK'
  BY <1>2 DEF append_element
<1>3. ASSUME NEW p \in Producers, notify_all(p) PROVE QueueTypeOK'
  BY <1>3 DEF notify_all
<1>4. ASSUME NEW t \in Threads, unlock(t) PROVE QueueTypeOK'
  BY <1>4 DEF unlock
<1>5. ASSUME NEW c \in Consumers, lock(c) PROVE QueueTypeOK'
  BY <1>5 DEF lock
<1>6. ASSUME NEW c \in Consumers, wait(c) PROVE QueueTypeOK'
  BY <1>6 DEF wait
<1>7. ASSUME NEW c \in Consumers, pop(c) PROVE QueueTypeOK'
  BY <1>7 DEF pop
<1>8. ASSUME NEW c \in Consumers, spurious_wakeup(c) PROVE QueueTypeOK'
  BY <1>8 DEF spurious_wakeup
<1>9. CASE UNCHANGED queueVars
  BY <1>9 DEF queueVars
<1> QED
  BY <1>1, <1>2, <1>3, <1>4, <1>5, <1>6, <1>7, <1>8, <1>9 DEF QueueNext, wait_and_pop

LEMMA InitInv == QueueInit => Inv
  BY QueueAssumption DEF QueueInit, Inv, QueueTypeOK, LockInv, Threads, Critical

LEMMA LockStep == ASSUME Inv, [QueueNext]_queueVars PROVE LockInv'
<1> USE QueueAssumption DEF Inv, QueueTypeOK, LockInv, Threads, Critical, Go
<1>1. ASSUME NEW p \in Producers, NEW batch \in Batches, push(p, batch)
      PROVE LockInv'
  BY <1>1 DEF push
<1>2. ASSUME NEW p \in Producers, append_element(p) PROVE LockInv'
  BY <1>2 DEF append_element
<1>3. ASSUME NEW p \in Producers, notify_all(p) PROVE LockInv'
  BY <1>3 DEF notify_all
<1>4. ASSUME NEW t \in Threads, unlock(t) PROVE LockInv'
  BY <1>4 DEF unlock
<1>5. ASSUME NEW c \in Consumers, lock(c) PROVE LockInv'
  BY <1>5 DEF lock
<1>6. ASSUME NEW c \in Consumers, wait(c) PROVE LockInv'
  BY <1>6 DEF wait
<1>7. ASSUME NEW c \in Consumers, pop(c) PROVE LockInv'
  BY <1>7 DEF pop
<1>8. ASSUME NEW c \in Consumers, spurious_wakeup(c) PROVE LockInv'
  BY <1>8 DEF spurious_wakeup
<1>9. CASE UNCHANGED queueVars
  BY <1>9 DEF queueVars
<1> QED
  BY <1>1, <1>2, <1>3, <1>4, <1>5, <1>6, <1>7, <1>8, <1>9 DEF QueueNext, wait_and_pop

\* The inductive invariant holds in every reachable state.
LEMMA Invariance == QueueSpec => []Inv
<1>1. Inv /\ [QueueNext]_queueVars => Inv'
  BY TypeStep, LockStep DEF Inv
<1> QED
  BY <1>1, InitInv, PTL DEF QueueSpec

\* threadsafe_queue's state stays what its declarations say.
THEOREM TypeCorrect == QueueSpec => []QueueTypeOK
<1>1. Inv => QueueTypeOK
  BY DEF Inv
<1> QED
  BY <1>1, Invariance, PTL

\* At most one thread is inside push, push_stop_obj or wait_and_pop's critical
\* section at any time.
THEOREM MutualExclusion ==
  QueueSpec => [](\A t, u \in Threads : pc[t] \in Critical /\ pc[u] \in Critical => t = u)
<1>1. Inv => \A t, u \in Threads : pc[t] \in Critical /\ pc[u] \in Critical => t = u
  BY DEF Inv, LockInv
<1> QED
  BY <1>1, Invariance, PTL

------------------------------------------------------------------------------
(* No wakeup is lost.                                                      *)

\* Who fills the queue holds the mutex until it has notified all, and who goes
\* to sleep has just seen the queue empty, with the mutex in its hands.
LEMMA WakeupStep ==
  ASSUME Inv, NoSleeperOnWork, [QueueNext]_queueVars PROVE NoSleeperOnWork'
<1> USE QueueAssumption DEF Inv, QueueTypeOK, LockInv, NoSleeperOnWork, Threads, Critical, Go
<1>1. ASSUME NEW p \in Producers, NEW batch \in Batches, push(p, batch)
      PROVE NoSleeperOnWork'
  BY <1>1 DEF push
<1>2. ASSUME NEW p \in Producers, append_element(p) PROVE NoSleeperOnWork'
  BY <1>2 DEF append_element
<1>3. ASSUME NEW p \in Producers, notify_all(p) PROVE NoSleeperOnWork'
  <2>1. \A c \in Consumers : pc'[c] # "waiting"
    BY <1>3 DEF notify_all
  <2> QED
    BY <2>1
<1>4. ASSUME NEW t \in Threads, unlock(t) PROVE NoSleeperOnWork'
  BY <1>4 DEF unlock
<1>5. ASSUME NEW c \in Consumers, lock(c) PROVE NoSleeperOnWork'
  BY <1>5 DEF lock
<1>6. ASSUME NEW c \in Consumers, wait(c) PROVE NoSleeperOnWork'
  BY <1>6 DEF wait
<1>7. ASSUME NEW c \in Consumers, pop(c) PROVE NoSleeperOnWork'
  <2>1. \A p \in Producers : pc[p] # "push"
    BY <1>7 DEF pop
  <2>2. \A d \in Consumers : pc[d] # "waiting"
    BY <1>7, <2>1 DEF pop
  <2> QED
    BY <1>7, <2>2 DEF pop
<1>8. ASSUME NEW c \in Consumers, spurious_wakeup(c) PROVE NoSleeperOnWork'
  BY <1>8 DEF spurious_wakeup
<1>9. CASE UNCHANGED queueVars
  BY <1>9 DEF queueVars
<1> QED
  BY <1>1, <1>2, <1>3, <1>4, <1>5, <1>6, <1>7, <1>8, <1>9 DEF QueueNext, wait_and_pop

\* A consumer never sleeps in cv_.wait on a queue that has been filled and
\* whose producer has already notified.
THEOREM NoLostWakeup == QueueSpec => []NoSleeperOnWork
<1>1. QueueInit => NoSleeperOnWork
  BY DEF QueueInit, NoSleeperOnWork, Threads
<1>2. Inv /\ NoSleeperOnWork /\ [QueueNext]_queueVars => NoSleeperOnWork'
  BY WakeupStep
<1> QED
  BY <1>1, <1>2, Invariance, PTL DEF QueueSpec

------------------------------------------------------------------------------
(* The detailed queue implements the atomic one.                           *)

\* Moving the first of the remaining elements over leaves the whole as it is.
LEMMA AppendHead ==
  ASSUME NEW S, NEW s \in Seq(S), NEW t \in Seq(S), t # <<>>
  PROVE  Append(s, Head(t)) \o Tail(t) = s \o t
<1> DEFINE left == Append(s, Head(t)) \o Tail(t)
           right == s \o t
<1>1. /\ Head(t) \in S /\ Tail(t) \in Seq(S)
      /\ Len(t) > 0 /\ Len(Tail(t)) = Len(t) - 1
  OBVIOUS
<1>2. left \in Seq(S) /\ right \in Seq(S) /\ Len(left) = Len(right)
  BY <1>1
<1>3. ASSUME NEW i \in 1..Len(right) PROVE left[i] = right[i]
  BY <1>1
<1> QED
  BY <1>2, <1>3, SeqEqual

\* Every step of the detailed queue is a Push, a Pop or a stutter.
LEMMA RefinementStep ==
  ASSUME Inv, [QueueNext]_queueVars PROVE [Fifo!Next]_(Fifo!vars)
<1> USE QueueAssumption DEF Inv, QueueTypeOK, LockInv, Threads, Critical, Go, Fifo!vars
<1>1. ASSUME NEW p \in Producers, NEW batch \in Batches, push(p, batch)
      PROVE Fifo!Push(batch)
  BY <1>1 DEF push, Fifo!Push
<1>2. ASSUME NEW p \in Producers, append_element(p) PROVE UNCHANGED Fifo!vars
  <2>1. owner = p /\ owner' = p /\ taken' = taken
    BY <1>2 DEF append_element
  <2>2. q \in Seq(Objects) /\ todo[p] \in Seq(Objects) /\ todo[p] # <<>>
    BY <1>2 DEF append_element
  <2>3. Append(q, Head(todo[p])) \o Tail(todo[p]) = q \o todo[p]
    BY ONLY <2>2, AppendHead
  <2>4. q' = Append(q, Head(todo[p])) /\ todo'[p] = Tail(todo[p])
    BY <1>2 DEF append_element
  <2> QED
    BY <2>1, <2>3, <2>4
<1>3. ASSUME NEW p \in Producers, notify_all(p) PROVE UNCHANGED Fifo!vars
  BY <1>3 DEF notify_all
<1>4. ASSUME NEW t \in Threads, unlock(t) PROVE UNCHANGED Fifo!vars
  <2>1. owner = t /\ q' = q /\ taken' = taken /\ owner' \notin Producers
    BY <1>4 DEF unlock
  <2>2. t \in Producers => todo[t] = <<>> /\ q \o todo[t] = q
    BY <1>4 DEF unlock
  <2> QED
    BY <2>1, <2>2
<1>5. ASSUME NEW c \in Consumers, lock(c) PROVE UNCHANGED Fifo!vars
  BY <1>5 DEF lock
<1>6. ASSUME NEW c \in Consumers, wait(c) PROVE UNCHANGED Fifo!vars
  BY <1>6 DEF wait
<1>7. ASSUME NEW c \in Consumers, pop(c) PROVE Fifo!Pop(c)
  BY <1>7 DEF pop, Fifo!Pop
<1>8. ASSUME NEW c \in Consumers, spurious_wakeup(c) PROVE UNCHANGED Fifo!vars
  BY <1>8 DEF spurious_wakeup
<1>9. CASE UNCHANGED queueVars
  BY <1>9 DEF queueVars
<1> QED
  BY <1>1, <1>2, <1>3, <1>4, <1>5, <1>6, <1>7, <1>8, <1>9
  DEF QueueNext, wait_and_pop, Fifo!Next

\* To its callers threadsafe_queue is an atomic FIFO queue: every array is
\* appended as one block and every object is handed to one consumer, in order.
THEOREM QueueRefinesFifo == QueueSpec => ImplementsFifoQueue
<1>1. QueueInit => Fifo!Init
  BY QueueAssumption DEF QueueInit, Fifo!Init
<1>2. Inv /\ [QueueNext]_queueVars => [Fifo!Next]_(Fifo!vars)
  BY RefinementStep
<1> QED
  BY <1>1, <1>2, Invariance, PTL DEF QueueSpec, ImplementsFifoQueue, Fifo!Spec
==============================================================================
