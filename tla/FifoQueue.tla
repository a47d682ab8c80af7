------------------------------ MODULE FifoQueue ------------------------------
(***************************************************************************)
(* What threadsafe_queue promises its callers: an unbounded FIFO queue     *)
(* whose operations are atomic.  An array is appended as one block, and an *)
(* object leaves the queue once, into the hands of one consumer.           *)
(***************************************************************************)
EXTENDS Sequences

CONSTANTS
  Consumers, \* the threads that call wait_and_pop
  Objects,   \* the JSON objects that travel through the queue
  Batches    \* the arrays pushed at once; one object is an array of length one

VARIABLES
  items,     \* the objects in the queue, oldest first
  taken      \* taken[c]: what consumer c has received, in order

vars == <<items, taken>>

Init ==
  /\ items = <<>>
  /\ taken = [c \in Consumers |-> <<>>]

Push(batch) ==
  /\ items' = items \o batch
  /\ UNCHANGED taken

Pop(c) ==
  /\ items # <<>>
  /\ items' = Tail(items)
  /\ taken' = [taken EXCEPT ![c] = Append(@, Head(items))]

Next ==
  \/ \E batch \in Batches : Push(batch)
  \/ \E c \in Consumers : Pop(c)

Spec == Init /\ [][Next]_vars
==============================================================================
