------------------------ MODULE VoicePipelineProofs --------------------------
(***************************************************************************)
(* For any messages, processors and io threads the pipeline is well typed. *)
(* With one io thread, as in config.ini, and messages whose senders or     *)
(* seconds differ, nobody gets a foreign transcript; if no recording stays *)
(* in the stream's buffer, every recording is read whole.                  *)
(***************************************************************************)
EXTENDS VoicePipeline, SequenceTheorems, TLAPS

OneIoThread == \A t, u \in IoThreads : t = u

NamesDiffer ==
  \A d, e \in Deliveries : Sender[d] = Sender[e] /\ Date[d] = Date[e] => d = e

\* A delivery has one object in the queue at most.
QueueInv == \A i, j \in 1..Len(queue) : queue[i] = queue[j] => i = j

\* A processor that builds a request has the delivery for itself.
WorkerInv ==
  \A p \in Processors : worker[p] # None =>
    /\ stage[worker[p]] = "building"
    /\ \A r \in Processors : worker[r] = worker[p] => r = p

Storing == {"gmtime", "put_time", "open", "write", "push"}
Stored == {"recognize", "building"}
Late == Stored \cup {"recognizing", "transcript", "sending", "answered", "dropped"}

\* So has an io thread that stores a recording; when it closes the file the
\* delivery has gone on.
HandlerInv ==
  \A t \in IoThreads : LET h == handler[t] IN
    /\ h.pc # "done" => h.d \in Deliveries
    /\ h.pc \in Storing =>
         /\ stage[h.d] = "storing"
         /\ \A u \in IoThreads : handler[u].d = h.d /\ handler[u].pc \in Storing => u = t
    /\ h.pc = "put_time" => tm \in Dates
    /\ h.pc = "open" => path[h.d] \in Paths
    /\ h.pc \in {"write", "push", "close"} => path[h.d] \in DOMAIN files
    /\ h.pc = "close" => stage[h.d] \in Late

\* Who is to be recognized has a file.
FileInv == \A d \in Deliveries : stage[d] \in Stored => path[d] \in DOMAIN files

Inv == TypeOK /\ QueueInv /\ WorkerInv /\ HandlerInv /\ FileInv

Name(d) == <<Sender[d], Date[d]>>

\* Names, files and requests hold what belongs to the delivery, or nothing.
OwnInv ==
  /\ \A t \in IoThreads : handler[t].pc = "put_time" => tm = Date[handler[t].d]
  /\ \A d \in Deliveries :
       /\ path[d] \in {None, Name(d)}
       /\ Name(d) \in DOMAIN files => files[Name(d)] \in {Empty, Voice[d]}
       /\ audio[d] \in {None, Empty, Voice[d]}

\* What is stored stays, and is what Google gets.
WholeInv ==
  /\ \A t \in IoThreads :
       handler[t].pc = "push" => files[path[handler[t].d]] = Voice[handler[t].d]
  /\ \A d \in Deliveries : stage[d] \in Stored => files[path[d]] = Voice[d]

------------------------------------------------------------------------------
(* The queue and the stages.                                               *)

QueueOK ==
  /\ queue \in Seq(Deliveries)
  /\ \A i \in 1..Len(queue) : stage[queue[i]] \in Queued
  /\ QueueInv

\* A delivery that is pushed had no object in the queue.
LEMMA PushOK ==
  ASSUME QueueOK, stage \in [Deliveries -> Stages], NEW d \in Deliveries,
         NEW s \in Queued, stage[d] \notin Queued, Push(d, s)
  PROVE  QueueOK'
<1>1. \A i \in 1..Len(queue) : queue[i] # d
  BY DEF QueueOK
<1>2. queue' = Append(queue, d) /\ stage' = [stage EXCEPT ![d] = s]
  BY DEF Push, Enter
<1>3. Len(queue') = Len(queue) + 1 /\ Len(queue) \in Nat /\ queue' \in Seq(Deliveries)
  BY <1>2 DEF QueueOK
<1>4. \A i \in 1..Len(queue') : queue'[i] = IF i = Len(queue) + 1 THEN d ELSE queue[i]
  BY <1>2, <1>3 DEF QueueOK
<1>5. \A i \in 1..Len(queue') : i = Len(queue) + 1 \/ i \in 1..Len(queue)
  BY <1>3
<1>6. \A i \in 1..Len(queue) : queue[i] \in Deliveries
  BY DEF QueueOK
<1>7. \A i \in 1..Len(queue') : stage'[queue'[i]] \in Queued
  BY <1>1, <1>2, <1>4, <1>5, <1>6 DEF QueueOK
<1>8. QueueInv'
  BY <1>1, <1>4, <1>5 DEF QueueOK, QueueInv
<1> QED
  BY <1>3, <1>7, <1>8 DEF QueueOK

\* A delivery that is popped has no other object in the queue.
LEMMA PopOK ==
  ASSUME QueueOK, stage \in [Deliveries -> Stages], queue # <<>>, queue' = Tail(queue),
         NEW s, Enter(Head(queue), s)
  PROVE  QueueOK' /\ Head(queue) \in Deliveries /\ stage[Head(queue)] \in Queued
<1>1. Len(queue) \in Nat /\ Len(queue) >= 1 /\ Head(queue) = queue[1]
  BY DEF QueueOK
<1>2. Head(queue) \in Deliveries /\ stage[Head(queue)] \in Queued
  BY <1>1 DEF QueueOK
<1>3. /\ Len(queue') = Len(queue) - 1
      /\ queue' \in Seq(Deliveries)
      /\ \A i \in 1..Len(queue') : queue'[i] = queue[i + 1]
  BY <1>1 DEF QueueOK
<1>4. \A i \in 1..Len(queue') : i + 1 \in 1..Len(queue) /\ i + 1 # 1
  BY <1>1, <1>3
<1>5. \A i \in 1..Len(queue') : queue'[i] # Head(queue) /\ queue'[i] \in Deliveries
  BY <1>1, <1>3, <1>4 DEF QueueOK, QueueInv
<1>6. \A i \in 1..Len(queue') : stage'[queue'[i]] \in Queued
  BY <1>3, <1>4, <1>5 DEF QueueOK, Enter
<1>7. QueueInv'
  <2> SUFFICES ASSUME NEW i \in 1..Len(queue'), NEW j \in 1..Len(queue'),
                      queue'[i] = queue'[j]
               PROVE  i = j
    BY DEF QueueInv
  <2>1. i + 1 = j + 1
    BY <1>3, <1>4 DEF QueueOK, QueueInv
  <2> QED
    BY <2>1
<1> QED
  BY <1>2, <1>3, <1>6, <1>7 DEF QueueOK

\* A delivery that is not in the queue may change its stage.
LEMMA EnterOK ==
  ASSUME QueueOK, stage \in [Deliveries -> Stages], NEW d, NEW s,
         stage[d] \notin Queued, Enter(d, s), queue' = queue
  PROVE  QueueOK'
BY DEF QueueOK, Enter, QueueInv

------------------------------------------------------------------------------
(* The invariant of every step.                                            *)

LEMMA Split == TypeOK /\ QueueInv => QueueOK /\ stage \in [Deliveries -> Stages]
BY DEF TypeOK, QueueOK

\* The steps of the receiver and the processors.
LEMMA ProcessorStep ==
  ASSUME Inv, (\E d \in Deliveries : receive(d)) \/ (\E p \in Processors : processor(p))
  PROVE  Inv'
<1> USE Split, PipelineAssumption DEF Inv
<1>1. ASSUME NEW d \in Deliveries, receive(d) PROVE Inv'
  <2> USE <1>1 DEF receive
  <2>1. QueueOK'
    BY PushOK DEF Queued
  <2>2. TypeOK'
    BY <2>1 DEF TypeOK, QueueOK, Push, Enter, Queued, Stages
  <2>3. stage' = [stage EXCEPT ![d] = "message"]
    BY DEF Push, Enter
  <2>4. WorkerInv' /\ FileInv'
    BY <2>3 DEF TypeOK, WorkerInv, FileInv, Stored
  <2>5. HandlerInv'
    BY <2>3 DEF TypeOK, HandlerInv, Late, Stored
  <2> QED
    BY <2>1, <2>2, <2>4, <2>5 DEF QueueOK
<1>2. ASSUME NEW p \in Processors, process_voice_message(p) PROVE Inv'
  <2> DEFINE d == Head(queue)
  <2>1. PICK s \in {"dropped", "sending", "getFile"} : Enter(d, s)
    BY <1>2 DEF process_voice_message, Reply
  <2>2. QueueOK' /\ d \in Deliveries /\ stage[d] = "message"
    BY <1>2, <2>1, PopOK DEF process_voice_message, wait_and_pop
  <2>3. text' \in [Deliveries -> Texts]
    BY <1>2, <2>2 DEF TypeOK, process_voice_message, Reply, Texts
  <2>4. stage' = [stage EXCEPT ![d] = s]
    BY <2>1 DEF Enter
  <2>5. UNCHANGED <<path, audio, files, tm, handler, worker, crashed>>
    BY <1>2 DEF process_voice_message
  <2> HIDE DEF d
  <2>6. TypeOK'
    BY <2>2, <2>3, <2>4, <2>5 DEF TypeOK, QueueOK, Stages, InFlight
  <2>7. WorkerInv' /\ FileInv'
    BY <2>2, <2>4, <2>5 DEF TypeOK, WorkerInv, FileInv, Stored
  <2>8. HandlerInv'
    BY <2>2, <2>4, <2>5 DEF TypeOK, HandlerInv, Late, Stored
  <2> QED
    BY <2>2, <2>6, <2>7, <2>8 DEF QueueOK
<1>3. ASSUME NEW p \in Processors, process_download(p) PROVE Inv'
  <2> DEFINE d == Head(queue)
  <2>1. QueueOK' /\ d \in Deliveries /\ stage[d] = "download"
    BY <1>3, PopOK DEF process_download, wait_and_pop
  <2>2. /\ stage' = [stage EXCEPT ![d] = "downloading"]
        /\ UNCHANGED <<path, audio, text, files, tm, handler, worker, crashed>>
    BY <1>3 DEF process_download, Enter
  <2> HIDE DEF d
  <2>3. TypeOK'
    BY <2>1, <2>2 DEF TypeOK, QueueOK, Stages, InFlight
  <2>4. WorkerInv' /\ FileInv'
    BY <2>1, <2>2 DEF TypeOK, WorkerInv, FileInv, Stored
  <2>5. HandlerInv'
    BY <2>1, <2>2 DEF TypeOK, HandlerInv, Late, Stored
  <2> QED
    BY <2>1, <2>3, <2>4, <2>5 DEF QueueOK
<1>4. ASSUME NEW p \in Processors, process_recognize(p) PROVE Inv'
  <2> DEFINE d == Head(queue)
  <2>1. QueueOK' /\ d \in Deliveries /\ stage[d] = "recognize"
    BY <1>4, PopOK DEF process_recognize, wait_and_pop
  <2>2. /\ stage' = [stage EXCEPT ![d] = "building"]
        /\ worker' = [worker EXCEPT ![p] = d]
        /\ UNCHANGED <<path, audio, text, files, tm, handler, crashed>>
    BY <1>4 DEF process_recognize, Enter
  <2> HIDE DEF d
  <2>3. TypeOK'
    BY <2>1, <2>2 DEF TypeOK, QueueOK, Stages
  <2>4. WorkerInv' /\ FileInv'
    BY <2>1, <2>2 DEF TypeOK, WorkerInv, FileInv, Stored
  <2>5. HandlerInv'
    BY <2>1, <2>2 DEF TypeOK, HandlerInv, Late, Stored
  <2> QED
    BY <2>1, <2>3, <2>4, <2>5 DEF QueueOK
<1>5. ASSUME NEW p \in Processors, read_file(p) PROVE Inv'
  <2> DEFINE d == worker[p]
  <2>1. d \in Deliveries /\ stage[d] = "building" /\ path[d] \in DOMAIN files
    BY <1>5 DEF read_file, TypeOK, WorkerInv, FileInv, Stored
  <2>2. /\ stage' = [stage EXCEPT ![d] = "recognizing"]
        /\ worker' = [worker EXCEPT ![p] = None]
        /\ audio' = [audio EXCEPT ![d] = files[path[d]]]
        /\ UNCHANGED <<queue, path, text, files, tm, handler, crashed>>
    BY <1>5 DEF read_file, Enter
  <2>3. QueueOK'
    BY <1>5, <2>1, EnterOK DEF read_file, Queued
  <2>4. TypeOK'
    BY <2>1, <2>2, <2>3 DEF TypeOK, QueueOK, Stages, InFlight
  <2>5. WorkerInv' /\ FileInv'
    BY <2>1, <2>2 DEF TypeOK, WorkerInv, FileInv, Stored
  <2>6. HandlerInv'
    BY <2>1, <2>2 DEF TypeOK, HandlerInv, Late, Stored
  <2> QED
    BY <2>3, <2>4, <2>5, <2>6 DEF QueueOK
<1>6. ASSUME NEW p \in Processors, throw(p) PROVE Inv'
  BY <1>6 DEF throw, TypeOK, QueueInv, WorkerInv, HandlerInv, FileInv
<1>7. ASSUME NEW p \in Processors, process_transcript(p) PROVE Inv'
  <2> DEFINE d == Head(queue)
  <2>1. QueueOK' /\ d \in Deliveries /\ stage[d] = "transcript"
    BY <1>7, PopOK DEF process_transcript, wait_and_pop
  <2>2. /\ stage' = [stage EXCEPT ![d] = "sending"]
        /\ UNCHANGED <<path, audio, text, files, tm, handler, worker, crashed>>
    BY <1>7 DEF process_transcript, Enter
  <2> HIDE DEF d
  <2>3. TypeOK'
    BY <2>1, <2>2 DEF TypeOK, QueueOK, Stages, InFlight
  <2>4. WorkerInv' /\ FileInv'
    BY <2>1, <2>2 DEF TypeOK, WorkerInv, FileInv, Stored
  <2>5. HandlerInv'
    BY <2>1, <2>2 DEF TypeOK, HandlerInv, Late, Stored
  <2> QED
    BY <2>1, <2>3, <2>4, <2>5 DEF QueueOK
<1> QED
  BY <1>1, <1>2, <1>3, <1>4, <1>5, <1>6, <1>7 DEF processor

\* The steps of the io threads outside download_voice_from_tg.
LEMMA CallbackStep ==
  ASSUME Inv, NEW t \in IoThreads, NEW d \in Deliveries, callback(t, d) \/ drop(t, d)
  PROVE  Inv'
<1> USE Split, PipelineAssumption DEF Inv, Idle
<1>1. CASE prepare_voice_downloading_from_tg(t, d)
  <2> USE <1>1 DEF prepare_voice_downloading_from_tg
  <2>1. QueueOK'
    BY PushOK DEF Queued
  <2>2. TypeOK'
    BY <2>1 DEF TypeOK, QueueOK, Push, Enter, Queued, Stages
  <2>3. stage' = [stage EXCEPT ![d] = "download"]
    BY DEF Push, Enter
  <2>4. WorkerInv' /\ FileInv'
    BY <2>3 DEF TypeOK, WorkerInv, FileInv, Stored
  <2>5. HandlerInv'
    BY <2>3 DEF TypeOK, HandlerInv, Late, Stored
  <2> QED
    BY <2>1, <2>2, <2>4, <2>5 DEF QueueOK
<1>2. CASE begin_download(t, d)
  <2>1. /\ stage' = [stage EXCEPT ![d] = "storing"]
        /\ handler' = [handler EXCEPT ![t] = [d |-> d, pc |-> "gmtime"]]
        /\ UNCHANGED <<queue, path, audio, text, files, tm, worker, crashed>>
        /\ stage[d] = "downloading"
    BY <1>2 DEF begin_download, Enter
  <2>2. QueueOK'
    BY <1>2, EnterOK DEF begin_download, Queued
  <2>3. TypeOK'
    BY <2>1, <2>2 DEF TypeOK, QueueOK, Stages, HandlerSteps
  <2>4. WorkerInv' /\ FileInv'
    BY <2>1 DEF TypeOK, WorkerInv, FileInv, Stored
  <2>5. HandlerInv'
    BY <2>1 DEF TypeOK, HandlerInv, Late, Stored, Storing
  <2> QED
    BY <2>2, <2>3, <2>4, <2>5 DEF QueueOK
<1>3. CASE google_recognize(t, d)
  <2> USE <1>3 DEF google_recognize
  <2>1. QueueOK'
    BY PushOK DEF Queued
  <2>2. TypeOK'
    BY <2>1 DEF TypeOK, QueueOK, Push, Enter, Queued, Stages, Texts
  <2>3. stage' = [stage EXCEPT ![d] = "transcript"]
    BY DEF Push, Enter
  <2>4. WorkerInv' /\ FileInv'
    BY <2>3 DEF TypeOK, WorkerInv, FileInv, Stored
  <2>5. HandlerInv'
    BY <2>3 DEF TypeOK, HandlerInv, Late, Stored
  <2> QED
    BY <2>1, <2>2, <2>4, <2>5 DEF QueueOK
<1>4. CASE answer(t, d) \/ drop(t, d)
  <2>1. PICK s \in {"answered", "dropped"} : Enter(d, s)
    BY <1>4 DEF answer, drop
  <2>2. /\ stage' = [stage EXCEPT ![d] = s]
        /\ UNCHANGED <<queue, path, audio, text, files, tm, handler, worker, crashed>>
        /\ stage[d] \in InFlight
    BY <1>4, <2>1 DEF answer, drop, Enter, InFlight
  <2>3. QueueOK'
    BY <2>1, <2>2, EnterOK DEF Queued, InFlight
  <2>4. TypeOK'
    BY <2>2, <2>3 DEF TypeOK, QueueOK, Stages
  <2>5. WorkerInv' /\ FileInv'
    BY <2>2 DEF TypeOK, WorkerInv, FileInv, Stored, InFlight
  <2>6. HandlerInv'
    BY <2>2 DEF TypeOK, HandlerInv, Late, Stored, InFlight
  <2> QED
    BY <2>3, <2>4, <2>5, <2>6 DEF QueueOK
<1>5. CASE throw_in_callback(t, d)
  BY <1>5 DEF throw_in_callback, TypeOK, QueueInv, WorkerInv, HandlerInv, FileInv
<1> QED
  BY <1>1, <1>2, <1>3, <1>4, <1>5 DEF callback

\* What is stored is a recording or garbled, in a file that exists.
LEMMA StoreOK ==
  ASSUME TypeOK, NEW d \in Deliveries, path[d] \in DOMAIN files, Store(d)
  PROVE  /\ DOMAIN files' = DOMAIN files
         /\ \A f \in DOMAIN files : files'[f] \in Contents
         /\ files' = [files EXCEPT ![path[d]] = files'[path[d]]]
BY DEF TypeOK, Store, Contents, Voices

\* The steps of download_voice_from_tg.
LEMMA DownloadStep ==
  ASSUME Inv, NEW t \in IoThreads, download_voice_from_tg(t)
  PROVE  Inv'
<1> DEFINE d == handler[t].d
<1> USE Split, PipelineAssumption DEF Inv, At, Advance
<1>d. d \in Deliveries
  BY DEF download_voice_from_tg, gmtime, put_time, open, write, push, close, HandlerInv
<1>1. CASE gmtime(t)
  <2> USE <1>1 DEF gmtime
  <2>1. TypeOK'
    BY <1>d DEF TypeOK, Dates, HandlerSteps
  <2>2. QueueInv' /\ WorkerInv' /\ FileInv'
    BY DEF QueueInv, WorkerInv, FileInv
  <2>3. HandlerInv'
    BY <1>d DEF TypeOK, HandlerInv, Storing, Dates
  <2> QED
    BY <2>1, <2>2, <2>3
<1>2. CASE put_time(t)
  <2>1. PICK date \in Dates : path' = [path EXCEPT ![d] = <<Sender[d], date>>]
    BY <1>2 DEF put_time, HandlerInv
  <2>2. /\ handler' = [handler EXCEPT ![t].pc = "open"]
        /\ handler[t].pc = "put_time"
        /\ stage[d] = "storing"
        /\ UNCHANGED <<stage, queue, audio, text, files, tm, worker, crashed>>
    BY <1>2 DEF put_time, HandlerInv, Storing
  <2>3. <<Sender[d], date>> \in Paths
    BY <1>d DEF Paths
  <2>4. TypeOK'
    BY <1>d, <2>1, <2>2, <2>3 DEF TypeOK, HandlerSteps
  <2>5. QueueInv' /\ WorkerInv' /\ FileInv'
    BY <2>1, <2>2 DEF TypeOK, QueueInv, WorkerInv, FileInv, Stored
  <2>6. HandlerInv'
    BY <1>d, <2>1, <2>2, <2>3 DEF TypeOK, HandlerInv, Storing, Late, Stored
  <2> QED
    BY <2>4, <2>5, <2>6
<1>3. CASE open(t)
  <2>1. path[d] \in Paths
    BY <1>3 DEF open, HandlerInv
  <2>2. /\ handler' = [handler EXCEPT ![t].pc = "write"]
        /\ handler[t].pc = "open"
        /\ UNCHANGED <<stage, queue, path, audio, text, tm, worker, crashed>>
        /\ DOMAIN files' = DOMAIN files \cup {path[d]}
        /\ \A f \in DOMAIN files' : files'[f] = IF f = path[d] THEN Empty ELSE files[f]
    BY <1>3 DEF open
  <2>3. TypeOK'
    BY <2>1, <2>2 DEF TypeOK, HandlerSteps, Contents
  <2>4. QueueInv' /\ WorkerInv' /\ FileInv'
    BY <2>2 DEF QueueInv, WorkerInv, FileInv
  <2>5. HandlerInv'
    BY <2>2 DEF TypeOK, HandlerInv, Storing
  <2> QED
    BY <2>3, <2>4, <2>5
<1>4. CASE write(t)
  <2>1. /\ handler' = [handler EXCEPT ![t].pc = "push"]
        /\ handler[t].pc = "write"
        /\ path[d] \in DOMAIN files
        /\ UNCHANGED <<stage, queue, path, audio, text, tm, worker, crashed>>
    BY <1>4 DEF write, HandlerInv
  <2>2. DOMAIN files' = DOMAIN files /\ \A f \in DOMAIN files : files'[f] \in Contents
    BY <1>4, <1>d, <2>1, StoreOK DEF write, TypeOK
  <2>3. TypeOK'
    BY <2>1, <2>2 DEF TypeOK, HandlerSteps
  <2>4. QueueInv' /\ WorkerInv' /\ FileInv'
    BY <2>1, <2>2 DEF QueueInv, WorkerInv, FileInv
  <2>5. HandlerInv'
    BY <2>1, <2>2 DEF TypeOK, HandlerInv, Storing
  <2> QED
    BY <2>3, <2>4, <2>5
<1>5. CASE push(t)
  <2>1. /\ handler' = [handler EXCEPT ![t].pc = "close"]
        /\ handler[t].pc = "push"
        /\ path[d] \in DOMAIN files
        /\ stage[d] = "storing"
        /\ stage' = [stage EXCEPT ![d] = "recognize"]
        /\ UNCHANGED <<path, audio, text, files, tm, worker, crashed>>
    BY <1>5 DEF push, HandlerInv, Storing, Push, Enter
  <2>2. QueueOK'
    BY <1>5, <1>d, <2>1, PushOK DEF push, Queued
  <2>3. TypeOK'
    <3>1. handler' \in [IoThreads -> [d : Deliveries \cup {None}, pc : HandlerSteps]]
      BY <2>1 DEF TypeOK, HandlerSteps
    <3>2. stage' \in [Deliveries -> Stages]
      BY <1>d, <2>1 DEF TypeOK, Stages, Queued
    <3> QED
      BY <2>1, <2>2, <3>1, <3>2 DEF TypeOK, QueueOK
  <2>4. WorkerInv' /\ FileInv'
    BY <1>d, <2>1 DEF TypeOK, WorkerInv, FileInv, Stored
  <2>5. HandlerInv'
    BY <1>d, <2>1 DEF TypeOK, HandlerInv, Storing, Late, Stored
  <2> QED
    BY <2>2, <2>3, <2>4, <2>5 DEF QueueOK
<1>6. CASE close(t)
  <2>1. /\ handler' = [handler EXCEPT ![t].pc = "done"]
        /\ handler[t].pc = "close"
        /\ path[d] \in DOMAIN files
        /\ UNCHANGED <<stage, queue, path, audio, text, tm, worker, crashed>>
    BY <1>6 DEF close, HandlerInv
  <2>2. DOMAIN files' = DOMAIN files /\ \A f \in DOMAIN files : files'[f] \in Contents
    BY <1>6, <1>d, <2>1, StoreOK DEF close, TypeOK
  <2>3. TypeOK'
    BY <2>1, <2>2 DEF TypeOK, HandlerSteps
  <2>4. QueueInv' /\ WorkerInv' /\ FileInv'
    BY <2>1, <2>2 DEF QueueInv, WorkerInv, FileInv
  <2>5. HandlerInv'
    BY <2>1, <2>2 DEF TypeOK, HandlerInv, Storing
  <2> QED
    BY <2>3, <2>4, <2>5
<1> QED
  BY <1>1, <1>2, <1>3, <1>4, <1>5, <1>6 DEF download_voice_from_tg

LEMMA InvInit == Init => Inv
<1> SUFFICES ASSUME Init PROVE Inv
  OBVIOUS
<1> USE DEF Init
<1>1. queue \in Seq(Deliveries) /\ Len(queue) = 0
  OBVIOUS
<1>2. DOMAIN files = {}
  OBVIOUS
<1>3. TypeOK
  <2>1. \A i \in 1..Len(queue) : stage[queue[i]] \in Queued
    BY <1>1
  <2>2. stage \in [Deliveries -> Stages] /\ text \in [Deliveries -> Texts]
    BY DEF Stages, Texts
  <2>3. handler \in [IoThreads -> [d : Deliveries \cup {None}, pc : HandlerSteps]]
    BY DEF HandlerSteps
  <2>4. DOMAIN files \subseteq Paths /\ \A f \in DOMAIN files : files[f] \in Contents
    BY <1>2
  <2> QED
    BY <1>1, <2>1, <2>2, <2>3, <2>4 DEF TypeOK
<1>4. QueueInv /\ WorkerInv /\ FileInv
  BY <1>1 DEF QueueInv, WorkerInv, FileInv, Stored
<1>5. HandlerInv
  BY DEF HandlerInv, Storing
<1> QED
  BY <1>3, <1>4, <1>5 DEF Inv

LEMMA InvStep == ASSUME Inv, [Next]_vars PROVE Inv'
<1>1. CASE Next
  BY <1>1, ProcessorStep, CallbackStep, DownloadStep DEF Next
<1>2. CASE UNCHANGED vars
  BY <1>2 DEF vars, Inv, TypeOK, QueueInv, WorkerInv, HandlerInv, FileInv
<1> QED
  BY <1>1, <1>2

LEMMA Invariant == Spec => []Inv
BY InvInit, InvStep, PTL DEF Spec

\* Whatever the number of threads and the names, the pipeline is well typed:
\* in particular what a request contains has been read from a file that exists.
THEOREM TypeCorrect == Spec => []TypeOK
<1>1. Inv => TypeOK
  BY DEF Inv
<1> QED
  BY <1>1, Invariant, PTL

------------------------------------------------------------------------------
(* One io thread, and names that tell the recordings apart.                *)

OwnTexts == OwnInv /\ NoForeignTranscript

\* Only the file of the delivery is written, and with its recording.
LEMMA StoreOwn ==
  ASSUME NamesDiffer, TypeOK, OwnInv, NEW d \in Deliveries, path[d] \in DOMAIN files, Store(d)
  PROVE  /\ path[d] = Name(d)
         /\ files' = [files EXCEPT ![Name(d)] = Voice[d]]
         /\ \A e \in Deliveries :
              Name(e) \in DOMAIN files' => files'[Name(e)] \in {Empty, Voice[e]}
<1>1. path[d] = Name(d)
  BY PipelineAssumption DEF TypeOK, OwnInv
<1>2. files[Name(d)] \in {Empty, Voice[d]}
  BY <1>1 DEF OwnInv
<1>3. files' = [files EXCEPT ![Name(d)] = Voice[d]]
  BY <1>1, <1>2 DEF Store
<1>4. \A e \in Deliveries : Name(e) = Name(d) => e = d
  BY DEF Name, NamesDiffer
<1> QED
  BY <1>1, <1>3, <1>4 DEF OwnInv

LEMMA OwnStep ==
  ASSUME OneIoThread, NamesDiffer, Inv, OwnTexts, [Next]_vars
  PROVE  OwnTexts'
<1> USE DEF OwnTexts
<1>1. ASSUME UNCHANGED <<path, audio, text, files, tm, handler>> PROVE OwnTexts'
  BY <1>1 DEF OwnInv, NoForeignTranscript
<1>2. CASE UNCHANGED vars
  BY <1>1, <1>2 DEF vars
<1>3. ASSUME NEW d \in Deliveries, receive(d) PROVE OwnTexts'
  BY <1>1, <1>3 DEF receive
<1>4. ASSUME NEW p \in Processors, processor(p) PROVE OwnTexts'
  <2>1. CASE process_voice_message(p)
    <3>1. NoForeignTranscript'
      BY <2>1 DEF process_voice_message, Reply, NoForeignTranscript, Inv, TypeOK
    <3>2. OwnInv'
      BY <2>1 DEF process_voice_message, OwnInv
    <3> QED
      BY <3>1, <3>2
  <2>2. CASE read_file(p)
    <3> DEFINE d == worker[p]
    <3>1. d \in Deliveries /\ path[d] \in DOMAIN files
      BY <2>2 DEF read_file, Inv, TypeOK, WorkerInv, FileInv, Stored
    <3>2. path[d] = Name(d)
      BY <3>1, PipelineAssumption DEF OwnInv, Inv, TypeOK
    <3>3. files[path[d]] \in {Empty, Voice[d]}
      BY <3>1, <3>2 DEF OwnInv
    <3>4. /\ audio' = [audio EXCEPT ![d] = files[path[d]]]
          /\ UNCHANGED <<path, text, files, tm, handler>>
      BY <2>2 DEF read_file
    <3>5. OwnInv'
      BY <3>3, <3>4 DEF OwnInv, Inv, TypeOK
    <3> QED
      BY <3>4, <3>5 DEF NoForeignTranscript
  <2>3. CASE process_download(p) \/ process_recognize(p) \/ throw(p) \/ process_transcript(p)
    BY <1>1, <2>3 DEF process_download, process_recognize, throw, process_transcript
  <2> QED
    BY <1>4, <2>1, <2>2, <2>3 DEF processor
<1>5. ASSUME NEW t \in IoThreads, NEW d \in Deliveries, callback(t, d) \/ drop(t, d)
      PROVE  OwnTexts'
  <2>1. CASE google_recognize(t, d)
    <3>1. Voices \cap {audio[d]} \subseteq {Voice[d]}
      BY PipelineAssumption DEF OwnInv
    <3>2. NoForeignTranscript'
      BY <2>1, <3>1 DEF google_recognize, NoForeignTranscript, Inv, TypeOK
    <3>3. OwnInv'
      BY <2>1 DEF google_recognize, OwnInv
    <3> QED
      BY <3>2, <3>3
  <2>2. CASE begin_download(t, d)
    BY <2>2 DEF begin_download, OwnInv, NoForeignTranscript, Inv, TypeOK
  <2>3. CASE prepare_voice_downloading_from_tg(t, d) \/ answer(t, d)
               \/ throw_in_callback(t, d) \/ drop(t, d)
    BY <1>1, <2>3 DEF prepare_voice_downloading_from_tg, answer, throw_in_callback, drop
  <2> QED
    BY <1>5, <2>1, <2>2, <2>3 DEF callback
<1>6. ASSUME NEW t \in IoThreads, download_voice_from_tg(t) PROVE OwnTexts'
  <2> DEFINE d == handler[t].d
  <2>d. d \in Deliveries
    BY <1>6 DEF download_voice_from_tg, gmtime, put_time, open, write, push, close, At,
                Inv, HandlerInv
  <2>t. NoForeignTranscript'
    BY <1>6 DEF download_voice_from_tg, gmtime, put_time, open, write, push, close,
                NoForeignTranscript
  <2>1. CASE gmtime(t)
    BY <2>1, <2>t DEF gmtime, Advance, OwnInv, OneIoThread, Inv, TypeOK
  <2>2. CASE put_time(t)
    <3>1. tm = Date[d]
      BY <2>2 DEF put_time, At, OwnInv
    <3>2. path' = [path EXCEPT ![d] = Name(d)]
      BY <2>2, <3>1 DEF put_time, OneIoThread, Name
    <3>3. \A u \in IoThreads : handler'[u].pc # "put_time"
      BY <2>2 DEF put_time, Advance, OneIoThread, Inv, TypeOK
    <3>4. \A e \in Deliveries : path'[e] \in {None, Name(e)}
      BY <3>2 DEF OwnInv, Inv, TypeOK
    <3> QED
      BY <2>2, <2>t, <3>3, <3>4 DEF put_time, OwnInv
  <2>3. CASE open(t)
    <3>1. path[d] = Name(d)
      BY <2>d, <2>3, PipelineAssumption DEF open, At, OwnInv, Inv, HandlerInv
    <3>2. \A e \in Deliveries : Name(e) \in DOMAIN files' => files'[Name(e)] \in {Empty, Voice[e]}
      BY <2>3, <3>1 DEF open, OwnInv
    <3> QED
      BY <2>3, <2>t, <3>2 DEF open, Advance, OwnInv, Inv, TypeOK
  <2>4. CASE write(t) \/ close(t)
    <3>1. path[d] \in DOMAIN files
      BY <2>4 DEF write, close, At, Inv, HandlerInv
    <3>2. \A e \in Deliveries : Name(e) \in DOMAIN files' => files'[Name(e)] \in {Empty, Voice[e]}
      <4>1. UNCHANGED files \/ Store(d)
        BY <2>4 DEF write, close
      <4> QED
        BY <2>d, <3>1, <4>1, StoreOwn DEF OwnInv, Inv
    <3> QED
      BY <2>4, <2>t, <3>2 DEF write, close, Advance, OwnInv, Inv, TypeOK
  <2>5. CASE push(t)
    BY <2>5, <2>t DEF push, Advance, OwnInv, Inv, TypeOK
  <2> QED
    BY <1>6, <2>1, <2>2, <2>3, <2>4, <2>5 DEF download_voice_from_tg
<1> QED
  BY <1>2, <1>3, <1>4, <1>5, <1>6 DEF Next

\* With one io thread and names that differ nobody is sent the words of
\* another recording, whatever the number of processors, repeats and failures.
THEOREM OwnTranscripts ==
  ASSUME OneIoThread, NamesDiffer PROVE Spec => []NoForeignTranscript
<1>1. Init => OwnTexts
  BY DEF Init, OwnTexts, OwnInv, NoForeignTranscript
<1>2. Inv /\ OwnTexts /\ [Next]_vars => OwnTexts'
  BY OwnStep
<1>3. OwnTexts => NoForeignTranscript
  BY DEF OwnTexts
<1> QED
  BY <1>1, <1>2, <1>3, Invariant, PTL DEF Spec

------------------------------------------------------------------------------
(* And no recording that stays in the buffer until the file is closed.     *)

Whole == WholeInv /\ CompleteVoiceRead

LEMMA WholeStep ==
  ASSUME OneIoThread, NamesDiffer, Buffered = {}, Inv, OwnInv, Whole, [Next]_vars
  PROVE  Whole'
<1> USE DEF Whole
<1>n. \A d, e \in Deliveries : path[d] # None /\ path[d] = path[e] => d = e
  <2>1. \A d, e \in Deliveries : Name(d) = Name(e) => d = e
    BY DEF Name, NamesDiffer
  <2> QED
    BY <2>1 DEF OwnInv
<1>f. \A d \in Deliveries : path[d] \in DOMAIN files => path[d] # None
  BY PipelineAssumption DEF Inv, TypeOK
<1>1. ASSUME NEW d \in Deliveries, NEW s \in Stages \ (Stored \cup {"recognizing"}), Enter(d, s),
             UNCHANGED <<path, audio, files>>,
             \A u \in IoThreads : handler'[u].pc = "push" => handler'[u] = handler[u]
      PROVE  Whole'
  BY <1>1 DEF WholeInv, CompleteVoiceRead, Enter, Inv, TypeOK
<1>2. CASE UNCHANGED vars
  BY <1>2 DEF vars, WholeInv, CompleteVoiceRead
<1>3. ASSUME NEW d \in Deliveries, receive(d) PROVE Whole'
  BY <1>1, <1>3 DEF receive, Push, Stages, Queued, Stored
<1>4. ASSUME NEW p \in Processors, processor(p) PROVE Whole'
  <2> DEFINE h == Head(queue)
  <2>h. ASSUME queue # <<>> PROVE h \in Deliveries
    BY <2>h DEF Inv, TypeOK
  <2>1. CASE process_voice_message(p) \/ process_download(p) \/ process_transcript(p)
    <3>1. /\ h \in Deliveries
          /\ \E s \in {"dropped", "sending", "getFile", "downloading"} : Enter(h, s)
          /\ UNCHANGED <<path, audio, files, handler>>
      BY <2>1, <2>h DEF process_voice_message, process_download, process_transcript,
                        wait_and_pop, Reply
    <3> QED
      BY <3>1, <1>1 DEF Stages, InFlight, Stored
  <2>2. CASE process_recognize(p)
    <3>1. h \in Deliveries /\ stage[h] \in Stored
      BY <2>2, <2>h DEF process_recognize, wait_and_pop, Stored
    <3>2. /\ stage' = [stage EXCEPT ![h] = "building"]
          /\ UNCHANGED <<path, audio, files, handler>>
      BY <2>2 DEF process_recognize, Enter
    <3> HIDE DEF h
    <3> QED
      BY <3>1, <3>2 DEF WholeInv, CompleteVoiceRead, Inv, TypeOK
  <2>3. CASE read_file(p)
    <3> DEFINE d == worker[p]
    <3>1. d \in Deliveries /\ files[path[d]] = Voice[d]
      BY <2>3 DEF read_file, Inv, TypeOK, WorkerInv, WholeInv, Stored
    <3>2. /\ stage' = [stage EXCEPT ![d] = "recognizing"]
          /\ audio' = [audio EXCEPT ![d] = Voice[d]]
          /\ UNCHANGED <<path, files, handler>>
      BY <2>3, <3>1 DEF read_file, Enter
    <3> QED
      BY <3>1, <3>2 DEF WholeInv, CompleteVoiceRead, Inv, TypeOK, Stored
  <2>4. CASE throw(p)
    BY <2>4 DEF throw, WholeInv, CompleteVoiceRead
  <2> QED
    BY <1>4, <2>1, <2>2, <2>3, <2>4 DEF processor
<1>5. ASSUME NEW t \in IoThreads, NEW d \in Deliveries, callback(t, d) \/ drop(t, d)
      PROVE  Whole'
  <2>1. CASE throw_in_callback(t, d)
    BY <2>1 DEF throw_in_callback, WholeInv, CompleteVoiceRead
  <2>2. CASE begin_download(t, d)
    <3>1. \A u \in IoThreads : handler'[u].pc = "push" => handler'[u] = handler[u]
      BY <2>2 DEF begin_download, Inv, TypeOK
    <3> QED
      BY <1>1, <2>2, <3>1 DEF begin_download, Stages, Stored
  <2>3. CASE ~throw_in_callback(t, d) /\ ~begin_download(t, d)
    <3>1. /\ \E s \in {"download", "transcript", "answered", "dropped"} : Enter(d, s)
          /\ UNCHANGED <<path, audio, files, handler>>
      BY <1>5, <2>3 DEF callback, drop, prepare_voice_downloading_from_tg, google_recognize,
                        answer, Push
    <3> QED
      BY <3>1, <1>1 DEF Stages, Queued, Stored
  <2> QED
    BY <2>1, <2>2, <2>3
<1>6. ASSUME NEW t \in IoThreads, download_voice_from_tg(t) PROVE Whole'
  <2> DEFINE d == handler[t].d
  <2>d. d \in Deliveries
    BY <1>6 DEF download_voice_from_tg, gmtime, put_time, open, write, push, close, At,
                Inv, HandlerInv
  <2>s. handler[t].pc \in Storing => stage[d] = "storing"
    BY DEF Inv, HandlerInv
  <2>1. CASE gmtime(t)
    BY <2>1 DEF gmtime, Advance, WholeInv, CompleteVoiceRead, Inv, TypeOK
  <2>2. CASE put_time(t)
    <3>1. /\ \A u \in IoThreads : handler'[u].pc # "push"
          /\ stage[d] = "storing"
      BY <2>2, <2>s DEF put_time, At, Advance, OneIoThread, Storing, Inv, TypeOK
    <3>2. \A e \in Deliveries \ {d} : path'[e] = path[e]
      BY <2>2 DEF put_time, Inv, TypeOK
    <3> QED
      BY <2>2, <3>1, <3>2 DEF put_time, WholeInv, CompleteVoiceRead, Stored
  <2>3. CASE open(t)
    <3>1. /\ \A u \in IoThreads : handler'[u].pc # "push"
          /\ stage[d] = "storing"
      BY <2>3, <2>s DEF open, At, Advance, OneIoThread, Storing, Inv, TypeOK
    <3>2. \A e \in Deliveries : stage[e] \in Stored =>
            path[e] \in DOMAIN files /\ path[e] # path[d]
      BY <1>n, <1>f, <2>d, <3>1 DEF Inv, FileInv, Stored
    <3> QED
      BY <2>3, <3>1, <3>2 DEF open, WholeInv, CompleteVoiceRead
  <2>4. CASE write(t)
    <3>1. path[d] \in DOMAIN files /\ stage[d] = "storing"
      BY <2>4, <2>s DEF write, At, Inv, HandlerInv, Storing
    <3>2. path[d] = Name(d) /\ files' = [files EXCEPT ![path[d]] = Voice[d]]
      BY <2>4, <2>d, <3>1, StoreOwn DEF write, Inv
    <3>3. \A e \in Deliveries : stage[e] \in Stored => path[e] # path[d]
      BY <1>n, <1>f, <2>d, <3>1 DEF Stored
    <3>4. \A u \in IoThreads : u = t /\ handler'[u].d = d
      BY <2>4 DEF write, Advance, OneIoThread, Inv, TypeOK
    <3> QED
      BY <2>4, <3>1, <3>2, <3>3, <3>4 DEF write, WholeInv, CompleteVoiceRead, Inv, FileInv
  <2>5. CASE push(t)
    <3>1. files[path[d]] = Voice[d] /\ stage[d] = "storing"
      BY <2>5, <2>s DEF push, At, WholeInv, Storing
    <3>2. \A u \in IoThreads : handler'[u].pc # "push"
      BY <2>5 DEF push, Advance, OneIoThread, Inv, TypeOK
    <3>3. /\ stage' = [stage EXCEPT ![d] = "recognize"]
          /\ UNCHANGED <<path, audio, files>>
      BY <2>5 DEF push, Push, Enter
    <3> QED
      BY <2>d, <3>1, <3>2, <3>3 DEF WholeInv, CompleteVoiceRead, Inv, TypeOK
  <2>6. CASE close(t)
    BY <2>6 DEF close, Advance, WholeInv, CompleteVoiceRead, Inv, TypeOK
  <2> QED
    BY <1>6, <2>1, <2>2, <2>3, <2>4, <2>5, <2>6 DEF download_voice_from_tg
<1> QED
  BY <1>2, <1>3, <1>4, <1>5, <1>6 DEF Next

\* If moreover every recording is larger than the stream's buffer, Google is
\* asked to recognize whole recordings only: nobody reads the file before
\* operator<< has written it, though it is closed after the push.
THEOREM WholeRecordings ==
  ASSUME OneIoThread, NamesDiffer, Buffered = {} PROVE Spec => []CompleteVoiceRead
<1>1. Init => OwnTexts /\ Whole
  BY DEF Init, OwnTexts, OwnInv, NoForeignTranscript, Whole, WholeInv, CompleteVoiceRead, Stored
<1>2. Inv /\ OwnTexts /\ [Next]_vars => OwnTexts'
  BY OwnStep
<1>3. Inv /\ OwnTexts /\ Whole /\ [Next]_vars => Whole'
  BY WholeStep DEF OwnTexts
<1>4. Whole => CompleteVoiceRead
  BY DEF Whole
<1> QED
  BY <1>1, <1>2, <1>3, <1>4, Invariant, PTL DEF Spec
==============================================================================
