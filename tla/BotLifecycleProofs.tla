------------------------- MODULE BotLifecycleProofs --------------------------
(***************************************************************************)
(* For any number of processors, io threads and jobs: no thread outlives   *)
(* what it works on, and an orderly exit leaves no job behind; and with a  *)
(* single processor its stop object cannot go to anybody else.             *)
(***************************************************************************)
EXTENDS BotLifecycle, TLAPS

Joined == {"destroying", "joining", "exited"}
Ended == {"failed", "ended"}

\* Joined threads stay joined.
ThreadInv ==
  /\ main \in Joined => \A t \in IoThreads : io[t] = "returned"
  /\ \A p \in destroyed : proc[p] \in Ended
  /\ main = "exited" => destroyed = Processors

\* Stop objects come last, they come after the io threads, and who has taken
\* one leaves stop objects only.
StopInv ==
  /\ \A i, j \in 1..Len(q) : i < j /\ q[i] = "stop" => q[j] = "stop"
  /\ (\E i \in 1..Len(q) : q[i] = "stop") \/ (\E p \in Processors : proc[p] = "ended")
       => main \in Joined \cup {"terminated"}
  /\ (\E p \in Processors : proc[p] = "ended") => \A i \in 1..Len(q) : q[i] = "stop"

Inv == TypeOK /\ ThreadInv /\ StopInv

LEMMA InitInv == Init => Inv
<1> SUFFICES ASSUME Init PROVE Inv
  OBVIOUS
<1> USE LifecycleAssumption DEF Init
<1>1. TypeOK
  <2>1. q \in Seq({"job", "stop"}) /\ jobs \in 0..MaxJobs
    OBVIOUS
  <2>2. proc \in [Processors -> ProcStates]
    BY DEF ProcStates
  <2> QED
    BY <2>1, <2>2 DEF TypeOK
<1>2. ThreadInv
  BY DEF ThreadInv, Joined
<1>3. Len(q) = 0
  OBVIOUS
<1>4. StopInv
  BY <1>3 DEF StopInv
<1> QED
  BY <1>1, <1>2, <1>4 DEF Inv

------------------------------------------------------------------------------
LEMMA TypeStep == ASSUME TypeOK, [Next]_vars PROVE TypeOK'
<1> USE LifecycleAssumption DEF TypeOK, ProcStates
<1>1. CASE main_thread
  <2>1. ASSUME NEW p \in Processors, start_processor(p) PROVE TypeOK'
    BY <2>1 DEF start_processor
  <2>2. ASSUME NEW p \in Processors, push_stop_obj(p) PROVE TypeOK'
    <3>1. q' \in Seq({"job", "stop"})
      BY <2>2 DEF push_stop_obj
    <3> QED
      BY <2>2, <3>1 DEF push_stop_obj
  <2>3. ASSUME NEW t \in IoThreads, start_io_thread(t) PROVE TypeOK'
    BY <2>3 DEF start_io_thread
  <2>4. CASE start_receiver \/ return_from_main
    BY <2>4 DEF start_receiver, return_from_main
  <2>6. CASE join_io_threads \/ exit
    BY <2>6 DEF join_io_threads, exit
  <2>5. CASE join_processor
    BY <2>5 DEF join_processor
  <2> QED
    BY <1>1, <2>1, <2>2, <2>3, <2>4, <2>5, <2>6 DEF main_thread
<1>2. CASE sigint \/ throw
  BY <1>2 DEF sigint, throw
<1>3. ASSUME NEW t \in IoThreads, handle_signal(t) \/ io_thread(t) PROVE TypeOK'
  <2>1. CASE push_job(t)
    <3>1. q' \in Seq({"job", "stop"}) /\ jobs' \in 0..MaxJobs
      BY <2>1 DEF push_job
    <3> QED
      BY <2>1, <3>1 DEF push_job
  <2>2. CASE handle_signal(t) \/ begin_handler(t) \/ end_handler(t) \/ return_from_run(t)
    BY <2>2 DEF handle_signal, begin_handler, end_handler, return_from_run
  <2> QED
    BY <1>3, <2>1, <2>2 DEF io_thread
<1>4. ASSUME NEW p \in Processors, processor(p) PROVE TypeOK'
  BY <1>4 DEF processor, open, wait_and_pop, process
<1>5. CASE UNCHANGED vars
  BY <1>5 DEF vars
<1> QED
  BY <1>1, <1>2, <1>3, <1>4, <1>5 DEF Next

\* Once ~bot has joined them, the io threads do not come back.
LEMMA DestroyedStep ==
  ASSUME TypeOK, ThreadInv, [Next]_vars PROVE ThreadInv'
<1> USE DEF TypeOK, ThreadInv, Joined, Ended
<1>1. CASE main_thread
  BY <1>1 DEF main_thread, start_processor, push_stop_obj, start_receiver, start_io_thread,
              return_from_main, join_io_threads, join_processor, exit
<1>2. CASE sigint \/ throw
  BY <1>2 DEF sigint, throw
<1>3. ASSUME NEW t \in IoThreads, handle_signal(t) \/ io_thread(t)
      PROVE ThreadInv'
  BY <1>3 DEF handle_signal, io_thread, begin_handler, push_job, end_handler, return_from_run
<1>4. ASSUME NEW p \in Processors, processor(p) PROVE ThreadInv'
  BY <1>4 DEF processor, open, wait_and_pop, process
<1>5. CASE UNCHANGED vars
  BY <1>5 DEF vars
<1> QED
  BY <1>1, <1>2, <1>3, <1>4, <1>5 DEF Next

------------------------------------------------------------------------------
LEMMA StopStep == ASSUME Inv, [Next]_vars PROVE StopInv'
<1> USE DEF Inv, TypeOK, StopInv, Joined
<1>1. ASSUME NEW p \in Processors, start_processor(p) PROVE StopInv'
  BY <1>1 DEF start_processor
<1>2. ASSUME NEW p \in Processors, push_stop_obj(p) PROVE StopInv'
  BY <1>2 DEF push_stop_obj
<1>3. CASE \/ start_receiver \/ return_from_main \/ join_io_threads
           \/ join_processor \/ exit \/ sigint \/ throw
  BY <1>3 DEF start_receiver, return_from_main, join_io_threads, join_processor, exit,
              sigint, throw
<1>4. ASSUME NEW t \in IoThreads, push_job(t) PROVE StopInv'
  <2>1. main \notin Joined \cup {"terminated"}
    BY <1>4 DEF push_job, Alive, ThreadInv
  <2>2. /\ \A i \in 1..Len(q) : q[i] # "stop"
        /\ \A p \in Processors : proc[p] # "ended"
    BY <2>1
  <2>3. \A i \in 1..Len(q') : q'[i] # "stop"
    BY <1>4, <2>2 DEF push_job
  <2> QED
    BY <1>4, <2>2, <2>3 DEF push_job
<1>5. ASSUME NEW t \in IoThreads, start_io_thread(t) \/ handle_signal(t) \/ begin_handler(t)
               \/ end_handler(t) \/ return_from_run(t)
      PROVE StopInv'
  BY <1>5 DEF start_io_thread, handle_signal, begin_handler, end_handler, return_from_run
<1>6. ASSUME NEW p \in Processors, wait_and_pop(p) PROVE StopInv'
  <2>1. q # <<>> /\ q' = Tail(q) /\ main' = main
    BY <1>6 DEF wait_and_pop
  <2>2. Len(q') = Len(q) - 1 /\ \A i \in 1..Len(q') : q'[i] = q[i + 1]
    BY <2>1
  <2>3. CASE Head(q) = "stop"
    <3>1. \A i \in 1..Len(q) : q[i] = "stop"
      BY <2>1, <2>3
    <3>2. \A i \in 1..Len(q') : q'[i] = "stop"
      BY <2>2, <3>1
    <3>3. main \in Joined \cup {"terminated"}
      BY <2>1, <3>1
    <3> QED
      BY <2>1, <3>2, <3>3
  <2>4. CASE Head(q) # "stop"
    <3>1. \A r \in Processors : proc[r] # "ended" /\ proc'[r] # "ended"
      BY <1>6, <2>1, <2>4 DEF wait_and_pop
    <3> QED
      BY <2>1, <2>2, <3>1
  <2> QED
    BY <2>3, <2>4
<1>7. ASSUME NEW p \in Processors, open(p) \/ process(p) PROVE StopInv'
  BY <1>7 DEF open, process
<1>8. CASE UNCHANGED vars
  BY <1>8 DEF vars
<1> QED
  BY <1>1, <1>2, <1>3, <1>4, <1>5, <1>6, <1>7, <1>8
  DEF Next, main_thread, io_thread, processor

------------------------------------------------------------------------------
\* The inductive invariant holds in every reachable state.
LEMMA Invariance == Spec => []Inv
<1>1. Inv /\ [Next]_vars => Inv'
  BY TypeStep, DestroyedStep, StopStep DEF Inv
<1> QED
  BY <1>1, InitInv, PTL DEF Spec

\* The states of main, of the threads and of the queue are the listed ones.
THEOREM TypeCorrect == Spec => []TypeOK
<1>1. Inv => TypeOK
  BY DEF Inv
<1> QED
  BY <1>1, Invariance, PTL

\* No io thread runs a handler once members of the bot are being destroyed,
\* and no processor thread outlives its processor.
THEOREM ThreadsEndFirst == Spec => []NoThreadOnDestroyedObject
<1>1. Inv => NoThreadOnDestroyedObject
  BY DEF Inv, TypeOK, ThreadInv, NoThreadOnDestroyedObject, Joined, Ended
<1> QED
  BY <1>1, Invariance, PTL

\* At an orderly exit every job pushed before the shutdown has been taken.
THEOREM NoJobLeftBehind == Spec => []JobsDrainedAtExit
<1>1. Inv => JobsDrainedAtExit
  BY DEF Inv, StopInv, JobsDrainedAtExit
<1> QED
  BY <1>1, Invariance, PTL

------------------------------------------------------------------------------
(* A single processor, as in config.ini.                                   *)

LEMMA AwaitStep ==
  ASSUME \A p, r \in Processors : p = r,
         TypeOK, StopAwaitsItsProcessor, [Next]_vars
  PROVE  StopAwaitsItsProcessor'
<1> USE DEF TypeOK, StopAwaitsItsProcessor
<1>1. ASSUME NEW p \in Processors, push_stop_obj(p) PROVE StopAwaitsItsProcessor'
  <2>1. q'[Len(q')] = "stop" /\ Len(q') \in 1..Len(q')
    BY <1>1 DEF push_stop_obj
  <2> QED
    BY <2>1
<1>2. ASSUME NEW p \in Processors, wait_and_pop(p) PROVE StopAwaitsItsProcessor'
  <2>1. /\ q # <<>> /\ q' = Tail(q) /\ proc[p] = "waiting"
        /\ UNCHANGED <<main, target>>
        /\ Head(q) = "stop" => proc'[p] = "ended"
    BY <1>2 DEF wait_and_pop
  <2>2. main = "joining" => target = p
    BY LifecycleAssumption
  <2>3. ASSUME NEW i \in 1..Len(q), q[i] = "stop", Head(q) # "stop"
        PROVE  i - 1 \in 1..Len(q') /\ q'[i - 1] = "stop"
    BY <2>1, <2>3
  <2> QED
    BY <2>1, <2>2, <2>3
<1>3. ASSUME NEW t \in IoThreads, push_job(t) PROVE StopAwaitsItsProcessor'
  BY <1>3 DEF push_job
<1>4. ASSUME NEW p \in Processors, start_processor(p) \/ open(p) \/ process(p)
      PROVE StopAwaitsItsProcessor'
  BY <1>4 DEF start_processor, open, process
<1>5. CASE \/ start_receiver \/ return_from_main \/ join_io_threads
           \/ join_processor \/ exit \/ sigint \/ throw
  BY <1>5 DEF start_receiver, return_from_main, join_io_threads, join_processor, exit,
              sigint, throw
<1>6. ASSUME NEW t \in IoThreads, start_io_thread(t) \/ handle_signal(t) \/ begin_handler(t)
               \/ end_handler(t) \/ return_from_run(t)
      PROVE StopAwaitsItsProcessor'
  BY <1>6 DEF start_io_thread, handle_signal, begin_handler, end_handler, return_from_run
<1>7. CASE UNCHANGED vars
  BY <1>7 DEF vars
<1> QED
  BY <1>1, <1>2, <1>3, <1>4, <1>5, <1>6, <1>7
  DEF Next, main_thread, io_thread, processor

\* With a single processor the stop object that its destructor pushed waits
\* for the thread that the destructor joins, however many jobs come before it.
THEOREM SingleProcessorGetsItsStop ==
  ASSUME \A p, r \in Processors : p = r PROVE Spec => []StopAwaitsItsProcessor
<1>1. Init => StopAwaitsItsProcessor
  BY DEF Init, StopAwaitsItsProcessor
<1>2. TypeOK /\ StopAwaitsItsProcessor /\ [Next]_vars => StopAwaitsItsProcessor'
  BY AwaitStep
<1> QED
  BY <1>1, <1>2, TypeCorrect, PTL DEF Spec
==============================================================================
