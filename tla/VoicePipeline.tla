---------------------------- MODULE VoicePipeline ----------------------------
(***************************************************************************)
(* The way of a voice message through the bot: the update in the queue,    *)
(* getFile, the download into a file named after the sender and the second *)
(* of the message, speech recognition of that file, the reply.  Processors *)
(* take objects from the queue and start sessions; io_context threads run  *)
(* the callbacks of the sessions, which put the next object in the queue.  *)
(* The queue is the atomic one that ThreadsafeQueue implements.  A session *)
(* is one action: it calls its callback, or fails anywhere and is gone.    *)
(***************************************************************************)
EXTENDS Integers, Sequences

CONSTANTS
  Deliveries,  \* voice updates that reach the queue; a repeat is another one
  Voice,       \* [Deliveries -> recordings]
  Sender,      \* [Deliveries -> users]
  Date,        \* [Deliveries -> seconds]
  Duration,    \* [Deliveries -> seconds]
  Buffered,    \* deliveries so short that ofstream writes them when it is closed
  Processors,  \* threads of the updates_processors
  IoThreads,   \* io_context threads
  None,        \* no delivery, no date, no path
  Empty,       \* a file that has been created or truncated and not written
  Garbled,     \* a file two streams have written into
  TooLong, NotRecognized \* the two replies that are no transcript

Dates == {Date[d] : d \in Deliveries}
Voices == {Voice[d] : d \in Deliveries}
Paths == {Sender[d] : d \in Deliveries} \X Dates
Contents == Voices \cup {Empty, Garbled}
Texts == Voices \cup {TooLong, NotRecognized, None}

ASSUME PipelineAssumption ==
  /\ Duration \in [Deliveries -> Nat]
  /\ Buffered \subseteq Deliveries
  /\ None \notin Deliveries \cup Dates \cup Voices \cup Paths
  /\ {Empty, Garbled} \cap Voices = {}
  /\ {TooLong, NotRecognized} \cap Voices = {}

VARIABLES
  stage,     \* where each delivery is
  queue,     \* deliveries whose next object is in the queue, oldest first
  path,      \* voice_message_path of each delivery
  audio,     \* what the recognize request of each delivery contains
  text,      \* the text of the reply to each delivery
  files,     \* the voice messages on disk
  tm,        \* the static struct tm that gmtime fills and returns
  handler,   \* the download each io thread is storing, and how far it is
  worker,    \* the delivery each processor builds a recognize request for
  crashed    \* an exception has left a thread

vars == <<stage, queue, path, audio, text, files, tm, handler, worker, crashed>>

Queued == {"message", "download", "recognize", "transcript"}
InFlight == {"getFile", "downloading", "recognizing", "sending"}
Stages == Queued \cup InFlight \cup {"absent", "storing", "building", "answered", "dropped"}
HandlerSteps == {"gmtime", "put_time", "open", "write", "push", "close", "done"}

TypeOK ==
  /\ stage \in [Deliveries -> Stages]
  /\ queue \in Seq(Deliveries)
  /\ \A i \in 1..Len(queue) : stage[queue[i]] \in Queued
  /\ path \in [Deliveries -> Paths \cup {None}]
  /\ audio \in [Deliveries -> Contents \cup {None}]
  /\ text \in [Deliveries -> Texts]
  /\ DOMAIN files \subseteq Paths /\ \A f \in DOMAIN files : files[f] \in Contents
  /\ tm \in Dates \cup {None}
  /\ handler \in [IoThreads -> [d : Deliveries \cup {None}, pc : HandlerSteps]]
  /\ worker \in [Processors -> Deliveries \cup {None}]
  /\ crashed \in BOOLEAN

Init ==
  /\ stage = [d \in Deliveries |-> "absent"]
  /\ queue = <<>>
  /\ path = [d \in Deliveries |-> None]
  /\ audio = [d \in Deliveries |-> None]
  /\ text = [d \in Deliveries |-> None]
  /\ files = <<>>
  /\ tm = None
  /\ handler = [t \in IoThreads |-> [d |-> None, pc |-> "done"]]
  /\ worker = [p \in Processors |-> None]
  /\ crashed = FALSE

Enter(d, s) == stage' = [stage EXCEPT ![d] = s]

\* threadsafe_queue::push of the next object of a delivery.
Push(d, s) == Enter(d, s) /\ queue' = Append(queue, d)

------------------------------------------------------------------------------
(* The receiver: one update at a time, in any order.                       *)

receive(d) ==
  /\ stage[d] = "absent" /\ ~crashed
  /\ Push(d, "message")
  /\ UNCHANGED <<path, audio, text, files, tm, handler, worker, crashed>>

------------------------------------------------------------------------------
(* The processors: wait_and_pop, then one branch of updates_processor.     *)

\* Variant with a fault: front without pop.
front_only(p, s) ==
  /\ worker[p] = None /\ ~crashed
  /\ queue # <<>>
  /\ stage[Head(queue)] = s
  /\ UNCHANGED queue

\* Take the oldest object, one that stands for step s of its delivery.
wait_and_pop(p, s) ==
  /\ worker[p] = None /\ ~crashed
  /\ queue # <<>>
  /\ stage[Head(queue)] = s
  /\ queue' = Tail(queue)

Reply(d, t) == Enter(d, "sending") /\ text' = [text EXCEPT ![d] = t]

\* Not enabled, too long, or getFile.
process_voice_message(p) ==
  /\ wait_and_pop(p, "message")
  /\ LET d == Head(queue)
     IN  \/ Enter(d, "dropped") /\ UNCHANGED text
         \/ Duration[d] > 60 /\ Reply(d, TooLong)
         \/ Duration[d] <= 60 /\ Enter(d, "getFile") /\ UNCHANGED text
  /\ UNCHANGED <<path, audio, files, tm, handler, worker, crashed>>

\* The case download_voice_from_tg of process_action.
process_download(p) ==
  /\ wait_and_pop(p, "download")
  /\ Enter(Head(queue), "downloading")
  /\ UNCHANGED <<path, audio, text, files, tm, handler, worker, crashed>>

\* The case google_recognize: the token, the language and the sample rate come
\* first, then the file is read.
process_recognize(p) ==
  /\ wait_and_pop(p, "recognize")
  /\ Enter(Head(queue), "building")
  /\ worker' = [worker EXCEPT ![p] = Head(queue)]
  /\ UNCHANGED <<path, audio, text, files, tm, handler, crashed>>

\* The rest of get_google_recognize_req, and the session with its result.
read_file(p) ==
  /\ worker[p] # None /\ ~crashed
  /\ LET d == worker[p]
     IN  /\ audio' = [audio EXCEPT ![d] = files[path[d]]]
         /\ Enter(d, "recognizing")
  /\ worker' = [worker EXCEPT ![p] = None]
  /\ UNCHANGED <<queue, path, text, files, tm, handler, crashed>>

\* The output of mediainfo was cut off by the end of the child: parse throws.
throw(p) ==
  /\ worker[p] # None /\ ~crashed
  /\ crashed' = TRUE
  /\ UNCHANGED <<stage, queue, path, audio, text, files, tm, handler, worker>>

\* The case send_voice_transcript.
process_transcript(p) ==
  /\ wait_and_pop(p, "transcript")
  /\ Enter(Head(queue), "sending")
  /\ UNCHANGED <<path, audio, text, files, tm, handler, worker, crashed>>

------------------------------------------------------------------------------
(* The io_context threads: the end of a session, and its callback.         *)

Idle(t) == handler[t].pc = "done" /\ ~crashed

\* Variant with a fault: the next action is not queued.
prepare_without_push(t, d) ==
  /\ Idle(t)
  /\ stage[d] = "getFile"
  /\ Enter(d, "download")
  /\ UNCHANGED <<queue, path, audio, text, files, tm, handler, worker, crashed>>

\* A session failed, or getFile was refused: nothing is queued.
drop(t, d) ==
  /\ Idle(t)
  /\ stage[d] \in InFlight
  /\ Enter(d, "dropped")
  /\ UNCHANGED <<queue, path, audio, text, files, tm, handler, worker, crashed>>

prepare_voice_downloading_from_tg(t, d) ==
  /\ Idle(t)
  /\ stage[d] = "getFile"
  /\ Push(d, "download")
  /\ UNCHANGED <<path, audio, text, files, tm, handler, worker, crashed>>

\* The body is not the JSON that as_object and its kin expect.
throw_in_callback(t, d) ==
  /\ Idle(t)
  /\ stage[d] \in {"getFile", "recognizing"}
  /\ crashed' = TRUE
  /\ UNCHANGED <<stage, queue, path, audio, text, files, tm, handler, worker>>

\* The best transcript Google finds in what it was sent, or none.
google_recognize(t, d) ==
  /\ Idle(t)
  /\ stage[d] = "recognizing"
  /\ \E found \in (Voices \cap {audio[d]}) \cup {NotRecognized} :
       text' = [text EXCEPT ![d] = found]
  /\ Push(d, "transcript")
  /\ UNCHANGED <<path, audio, files, tm, handler, worker, crashed>>

\* sendMessage has no callback.
answer(t, d) ==
  /\ Idle(t)
  /\ stage[d] = "sending"
  /\ Enter(d, "answered")
  /\ UNCHANGED <<queue, path, audio, text, files, tm, handler, worker, crashed>>

------------------------------------------------------------------------------
(* download_voice_from_tg, statement by statement.                         *)

At(t, step) == handler[t].pc = step /\ ~crashed

Advance(t, step) == handler' = [handler EXCEPT ![t].pc = step]

begin_download(t, d) ==
  /\ Idle(t)
  /\ stage[d] = "downloading"
  /\ Enter(d, "storing")
  /\ handler' = [handler EXCEPT ![t] = [d |-> d, pc |-> "gmtime"]]
  /\ UNCHANGED <<queue, path, audio, text, files, tm, worker, crashed>>

gmtime(t) ==
  /\ At(t, "gmtime")
  /\ tm' = Date[handler[t].d]
  /\ Advance(t, "put_time")
  /\ UNCHANGED <<stage, queue, path, audio, text, files, worker, crashed>>

InTime(t) == handler[t].pc \in {"gmtime", "put_time"}

\* Variant with a fault: the date is not part of the name.
path_without_date(t) ==
  /\ At(t, "put_time")
  /\ path' = [path EXCEPT ![handler[t].d] = <<Sender[handler[t].d], CHOOSE date \in Dates : TRUE>>]
  /\ Advance(t, "open")
  /\ UNCHANGED <<stage, queue, audio, text, files, tm, worker, crashed>>

\* put_time reads the static buffer.  While another thread is in gmtime or
\* put_time the two race, and what is read may be a mixture.
put_time(t) ==
  /\ At(t, "put_time")
  /\ \E date \in IF \E u \in IoThreads \ {t} : InTime(u) THEN Dates ELSE {tm} :
       path' = [path EXCEPT ![handler[t].d] = <<Sender[handler[t].d], date>>]
  /\ Advance(t, "open")
  /\ UNCHANGED <<stage, queue, audio, text, files, tm, worker, crashed>>

\* The constructor of ofstream truncates the file if it exists.
open(t) ==
  /\ At(t, "open")
  /\ files' = [f \in DOMAIN files \cup {path[handler[t].d]} |->
                 IF f = path[handler[t].d] THEN Empty ELSE files[f]]
  /\ Advance(t, "write")
  /\ UNCHANGED <<stage, queue, path, audio, text, tm, worker, crashed>>

\* The data reach the file: over what another stream has put there, perhaps.
Store(d) ==
  \E content \in IF files[path[d]] \in {Empty, Voice[d]} THEN {Voice[d]} ELSE {Voice[d], Garbled} :
    files' = [files EXCEPT ![path[d]] = content]

\* Variant with a fault: every recording stays in the buffer until close.
write_when_closed(t) ==
  /\ At(t, "write")
  /\ Advance(t, "push")
  /\ UNCHANGED <<stage, queue, path, audio, text, files, tm, worker, crashed>>

\* operator<< writes at once what does not fit its buffer.
write(t) ==
  /\ At(t, "write")
  /\ IF handler[t].d \in Buffered THEN UNCHANGED files ELSE Store(handler[t].d)
  /\ Advance(t, "push")
  /\ UNCHANGED <<stage, queue, path, audio, text, tm, worker, crashed>>

push(t) ==
  /\ At(t, "push")
  /\ Push(handler[t].d, "recognize")
  /\ Advance(t, "close")
  /\ UNCHANGED <<path, audio, text, files, tm, worker, crashed>>

\* The destructor of ofstream flushes the buffer: after the push.
close(t) ==
  /\ At(t, "close")
  /\ IF handler[t].d \in Buffered THEN Store(handler[t].d) ELSE UNCHANGED files
  /\ Advance(t, "done")
  /\ UNCHANGED <<stage, queue, path, audio, text, tm, worker, crashed>>

------------------------------------------------------------------------------
processor(p) ==
  process_voice_message(p) \/ process_download(p) \/ process_recognize(p)
    \/ read_file(p) \/ throw(p) \/ process_transcript(p)

callback(t, d) ==
  prepare_voice_downloading_from_tg(t, d) \/ begin_download(t, d)
    \/ google_recognize(t, d) \/ answer(t, d) \/ throw_in_callback(t, d)

download_voice_from_tg(t) ==
  gmtime(t) \/ put_time(t) \/ open(t) \/ write(t) \/ push(t) \/ close(t)

Next ==
  \/ \E d \in Deliveries : receive(d)
  \/ \E p \in Processors : processor(p)
  \/ \E t \in IoThreads :
       \/ download_voice_from_tg(t)
       \/ \E d \in Deliveries : callback(t, d) \/ drop(t, d)

\* Threads run, and every operation of a session completes, with or without
\* an error: the code has no timeout, the network is trusted to have one.
Fairness ==
  /\ \A p \in Processors : WF_vars(processor(p))
  /\ \A t \in IoThreads : WF_vars(download_voice_from_tg(t))
  /\ \A d \in Deliveries : SF_vars(\E t \in IoThreads : callback(t, d) \/ drop(t, d))

Spec == Init /\ [][Next]_vars /\ Fairness

------------------------------------------------------------------------------
\* Nobody gets the words of another recording: what is sent in reply to a
\* voice message is its own transcript or one of the two fixed texts.
NoForeignTranscript ==
  \A d \in Deliveries : text[d] \in {Voice[d], TooLong, NotRecognized, None}

\* What Google is asked to recognize is the whole recording of the message,
\* not a file that is being written or has been overwritten.
CompleteVoiceRead ==
  \A d \in Deliveries : stage[d] = "recognizing" => audio[d] = Voice[d]

\* Every voice update comes to an end: it is answered or it is dropped, by a
\* failed session or because its sender is not enabled.
EveryDeliveryEnds ==
  \A d \in Deliveries :
    stage[d] = "message" ~> stage[d] \in {"answered", "dropped"} \/ crashed
==============================================================================
