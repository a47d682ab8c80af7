---------------------------- MODULE BotLifecycle -----------------------------
(***************************************************************************)
(* The life of the process: main constructs the bot and starts it, SIGINT  *)
(* stops the io_context, ~bot joins the io threads and the members' own    *)
(* destructors end the processors, one after the other, with a stop object *)
(* each.  The queue is the atomic one that ThreadsafeQueue implements;     *)
(* what a handler or a processor does with an object is left to the other  *)
(* modules, here it only may queue or start something.                     *)
(***************************************************************************)
EXTENDS Naturals, Sequences

CONSTANTS
  Processors,  \* updates_processors_, processing_threads_count of them
  IoThreads,   \* io_context_threads_, io_context_threads_count of them
  None,        \* no processor is being destroyed
  MaxJobs      \* bound: objects the handlers push into the queue

ASSUME LifecycleAssumption ==
  /\ None \notin Processors
  /\ MaxJobs \in Nat

VARIABLES
  main,        \* where the main thread is
  target,      \* the processor whose destructor is running
  destroyed,   \* the processors whose destructor has returned
  proc,        \* what the thread of each processor does
  io,          \* what each io_context thread does
  stopped,     \* the io_context has been stopped
  signal,      \* SIGINT: not raised, pending in signals_, or delivered
  q,           \* the queue of jobs and stop objects
  jobs         \* jobs pushed so far

vars == <<main, target, destroyed, proc, io, stopped, signal, q, jobs>>

ProcStates == {"unstarted", "opening", "waiting", "processing", "failed", "ended"}

TypeOK ==
  /\ main \in {"starting", "spawning", "joining_io", "destroying",
             "joining", "exited", "terminated"}
  /\ target \in Processors \cup {None}
  /\ main = "joining" <=> target # None
  /\ destroyed \subseteq Processors
  /\ proc \in [Processors -> ProcStates]
  /\ io \in [IoThreads -> {"unstarted", "running", "handling", "returned"}]
  /\ stopped \in BOOLEAN
  /\ signal \in {"none", "pending", "delivered"}
  /\ q \in Seq({"job", "stop"})
  /\ jobs \in 0..MaxJobs

Init ==
  /\ main = "starting"
  /\ target = None
  /\ destroyed = {}
  /\ proc = [p \in Processors |-> "unstarted"]
  /\ io = [t \in IoThreads |-> "unstarted"]
  /\ stopped = FALSE
  /\ signal = "none"
  /\ q = <<>>
  /\ jobs = 0

Alive == main # "terminated"

------------------------------------------------------------------------------
(* bot::start, in the main thread.                                         *)

start_processor(p) ==
  /\ main = "starting"
  /\ proc[p] = "unstarted"
  /\ proc' = [proc EXCEPT ![p] = "opening"]
  /\ UNCHANGED <<main, target, destroyed, io, stopped, signal, q, jobs>>

\* updates_receiver_.run and signals_.async_wait: both only hand operations to
\* the io_context, which runs nothing before it has a thread.
start_receiver ==
  /\ main = "starting"
  /\ \A p \in Processors : proc[p] # "unstarted"
  /\ main' = "spawning"
  /\ UNCHANGED <<target, destroyed, proc, io, stopped, signal, q, jobs>>

start_io_thread(t) ==
  /\ main = "spawning"
  /\ io[t] = "unstarted"
  /\ io' = [io EXCEPT ![t] = "running"]
  /\ UNCHANGED <<main, target, destroyed, proc, stopped, signal, q, jobs>>

\* start returns, main returns, and the destructor of the bot begins.
return_from_main ==
  /\ main = "spawning"
  /\ \A t \in IoThreads : io[t] # "unstarted"
  /\ main' = "joining_io"
  /\ UNCHANGED <<target, destroyed, proc, io, stopped, signal, q, jobs>>

------------------------------------------------------------------------------
(* The io_context threads: io_context_.run.                                *)

sigint ==
  /\ signal = "none"
  /\ main # "exited" /\ Alive
  /\ signal' = "pending"
  /\ UNCHANGED <<main, target, destroyed, proc, io, stopped, q, jobs>>

\* The handler of signals_: io_context_.stop.  Handlers that run in other
\* threads are not interrupted.
handle_signal(t) ==
  /\ io[t] = "running" /\ Alive
  /\ signal = "pending" /\ ~stopped
  /\ signal' = "delivered"
  /\ stopped' = TRUE
  /\ UNCHANGED <<main, target, destroyed, proc, io, q, jobs>>

begin_handler(t) ==
  /\ io[t] = "running" /\ Alive
  /\ ~stopped
  /\ io' = [io EXCEPT ![t] = "handling"]
  /\ UNCHANGED <<main, target, destroyed, proc, stopped, signal, q, jobs>>

\* A handler that pushes an update or the next action of a voice message.
push_job(t) ==
  /\ io[t] = "handling" /\ Alive
  /\ jobs < MaxJobs
  /\ q' = Append(q, "job")
  /\ jobs' = jobs + 1
  /\ UNCHANGED <<main, target, destroyed, proc, io, stopped, signal>>

end_handler(t) ==
  /\ io[t] = "handling" /\ Alive
  /\ io' = [io EXCEPT ![t] = "running"]
  /\ UNCHANGED <<main, target, destroyed, proc, stopped, signal, q, jobs>>

return_from_run(t) ==
  /\ io[t] = "running" /\ Alive
  /\ stopped
  /\ io' = [io EXCEPT ![t] = "returned"]
  /\ UNCHANGED <<main, target, destroyed, proc, stopped, signal, q, jobs>>

\* An exception leaves a handler or a processor: std::terminate.
throw ==
  /\ Alive
  /\ \/ \E t \in IoThreads : io[t] = "handling"
     \/ \E p \in Processors : proc[p] = "processing"
  /\ main' = "terminated"
  /\ target' = None
  /\ UNCHANGED <<destroyed, proc, io, stopped, signal, q, jobs>>

------------------------------------------------------------------------------
(* The thread of an updates_processor: updates_processor::run.             *)

\* chats_settings_.open; if it fails the thread ends without taking anything.
open(p) ==
  /\ proc[p] = "opening" /\ Alive
  /\ \E result \in {"waiting", "failed"} : proc' = [proc EXCEPT ![p] = result]
  /\ UNCHANGED <<main, target, destroyed, io, stopped, signal, q, jobs>>

\* Variant with a fault: the dispatch does not look for a stop object.
stop_ignored(p) ==
  /\ proc[p] = "waiting" /\ Alive
  /\ q # <<>>
  /\ q' = Tail(q)
  /\ proc' = [proc EXCEPT ![p] = "processing"]
  /\ UNCHANGED <<main, target, destroyed, io, stopped, signal, jobs>>

\* wait_and_pop and the dispatch on what it returns.
wait_and_pop(p) ==
  /\ proc[p] = "waiting" /\ Alive
  /\ q # <<>>
  /\ q' = Tail(q)
  /\ proc' = [proc EXCEPT ![p] = IF Head(q) = "stop" THEN "ended" ELSE "processing"]
  /\ UNCHANGED <<main, target, destroyed, io, stopped, signal, jobs>>

\* The job is done; at most it has started a session.
process(p) ==
  /\ proc[p] = "processing" /\ Alive
  /\ proc' = [proc EXCEPT ![p] = "waiting"]
  /\ UNCHANGED <<main, target, destroyed, io, stopped, signal, q, jobs>>

------------------------------------------------------------------------------
(* ~bot, then the destructors of its members, in the main thread.          *)

\* Variant with a fault: ~bot waits for the signal only.
join_nothing ==
  /\ main = "joining_io"
  /\ stopped
  /\ main' = "destroying"
  /\ UNCHANGED <<target, destroyed, proc, io, stopped, signal, q, jobs>>

\* The body of ~bot: join every io_context thread, log "successful exit".
join_io_threads ==
  /\ main = "joining_io"
  /\ \A t \in IoThreads : io[t] = "returned"
  /\ main' = "destroying"
  /\ UNCHANGED <<target, destroyed, proc, io, stopped, signal, q, jobs>>

\* Variant with a fault: the stop object is not pushed.
join_before_stop(p) ==
  /\ main = "destroying"
  /\ p \notin destroyed
  /\ target' = p
  /\ main' = "joining"
  /\ UNCHANGED <<destroyed, proc, io, stopped, signal, q, jobs>>

\* Variant with a fault: the stop object overtakes the jobs.
push_stop_first(p) ==
  /\ main = "destroying"
  /\ p \notin destroyed
  /\ q' = <<"stop">> \o q
  /\ target' = p
  /\ main' = "joining"
  /\ UNCHANGED <<destroyed, proc, io, stopped, signal, jobs>>

\* ~updates_processor, first statement.
push_stop_obj(p) ==
  /\ main = "destroying"
  /\ p \notin destroyed
  /\ q' = Append(q, "stop")
  /\ target' = p
  /\ main' = "joining"
  /\ UNCHANGED <<destroyed, proc, io, stopped, signal, jobs>>

\* ~updates_processor, second statement: thread_->join returns.
join_processor ==
  /\ main = "joining"
  /\ proc[target] \in {"failed", "ended"}
  /\ destroyed' = destroyed \cup {target}
  /\ target' = None
  /\ main' = "destroying"
  /\ UNCHANGED <<proc, io, stopped, signal, q, jobs>>

\* Variant with a fault: the destructor does not wait for its thread.
exit_while_joining ==
  /\ main \in {"destroying", "joining"}
  /\ main' = "exited"
  /\ UNCHANGED <<target, destroyed, proc, io, stopped, signal, q, jobs>>

\* The other members, then exit: the queue and the io_context are gone.
exit ==
  /\ main = "destroying"
  /\ destroyed = Processors
  /\ main' = "exited"
  /\ UNCHANGED <<target, destroyed, proc, io, stopped, signal, q, jobs>>

------------------------------------------------------------------------------
main_thread ==
  \/ \E p \in Processors : start_processor(p) \/ push_stop_obj(p)
  \/ start_receiver
  \/ \E t \in IoThreads : start_io_thread(t)
  \/ return_from_main
  \/ join_io_threads
  \/ join_processor
  \/ exit

io_thread(t) ==
  begin_handler(t) \/ push_job(t) \/ end_handler(t) \/ return_from_run(t)

processor(p) == open(p) \/ wait_and_pop(p) \/ process(p)

Next ==
  \/ main_thread
  \/ sigint
  \/ throw
  \/ \E t \in IoThreads : handle_signal(t) \/ io_thread(t)
  \/ \E p \in Processors : processor(p)

\* Threads run; a handler ends; the queue of ready handlers of the io_context
\* is served in order, so the pending signal gets a thread.  Nothing obliges
\* anybody to raise SIGINT.
Fairness ==
  /\ WF_vars(main_thread)
  /\ \A p \in Processors : WF_vars(processor(p))
  /\ \A t \in IoThreads : WF_vars(end_handler(t)) /\ WF_vars(return_from_run(t))
  /\ SF_vars(\E t \in IoThreads : handle_signal(t))

Spec == Init /\ [][Next]_vars /\ Fairness

------------------------------------------------------------------------------
\* No thread outlives what it works on.  The handlers use every member of the
\* bot: none can run once the destruction of the members has begun.  The thread
\* of a processor uses its processor, the queue and the io_context: it is over
\* before its processor is destroyed and before the others are.
NoThreadOnDestroyedObject ==
  /\ \A t \in IoThreads :
       io[t] \in {"running", "handling"} => main \notin {"destroying", "joining", "exited"}
  /\ \A p \in Processors :
       proc[p] \in {"opening", "waiting", "processing"} => p \notin destroyed /\ main # "exited"

\* An orderly exit abandons no job that a processor could still take: when
\* the process exits, the queue holds stop objects only, unless no processor
\* ever got its database open.
JobsDrainedAtExit ==
  main = "exited" /\ (\E p \in Processors : proc[p] = "ended")
    => \A i \in 1..Len(q) : q[i] = "stop"

\* While ~updates_processor waits for its thread, that thread has ended or the
\* stop object it needs is still in the queue: with a single processor nobody
\* else can take it.
StopAwaitsItsProcessor ==
  main = "joining" =>
    \/ proc[target] \in {"failed", "ended"}
    \/ \E i \in 1..Len(q) : q[i] = "stop"

\* SIGINT ends the process: the log promises a successful exit.
ShutdownCompletes == signal = "pending" ~> main \in {"exited", "terminated"}
==============================================================================
