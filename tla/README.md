# Verification of the voice message bot

The bot turns Telegram voice messages into text. It polls Telegram for updates,
downloads each voice message, sends it to Google Speech-to-Text and replies with
the transcript. This directory holds TLA+ models of the bot, translated from the
C++ code under `src/`, the TLC configurations that check them and TLAPS proofs of
their main invariants. Paths below are relative to the repository's `src/bot`
unless they say otherwise.

## Inventory

| Part | State | Operations | Talks to | What makes it correct |
|---|---|---|---|---|
| `threadsafe_queue` | `q_`, `m_`, `cv_` | `push` (array, object), `push_stop_obj`, `wait_and_pop` | receiver, callbacks, processors, destructors | atomic FIFO, blocks stay together, no lost wakeup, always drained |
| `updates_receiver` | connection, `is_offset_`, `offset_`, request, response | `run`, `reset`, `on_resolve` ... `on_read`, `calculate_offset`, `get_target` | Telegram, queue | an update is confirmed only after it was pushed, none twice per connection, every one in the end |
| `updates_processor` | thread, database handle | `run`, `process_message`, `process_action`, `process_callback_query`, destructor | queue, sessions, settings, users, child processes | each object is handled once; its thread ends before it does |
| `session` | one request, one response, a callback | `run`, `on_resolve` ... `on_shutdown` | Telegram or Google, callback | the callback runs at most once, with the answer to this request |
| `callbacks` | files, the static buffer of `gmtime` | `prepare_voice_downloading_from_tg`, `download_voice_from_tg`, `google_recognize` | queue, disk | what is recognized is the recording of this message |
| `bot` | threads, `signals_`, `io_context_`, all members | constructor, `start`, destructor | everything | SIGINT ends the process, nothing is used after its end |
| `chats_settings` | one SQLite table, one connection per processor | `open`, `get_language_code_by_id`, `insert_chat_settings` | processors | the last language chosen is the one used, unless jobs of two processors met; nobody gets a language of somebody else |
| `enabled_users` | set of names, time of the last read | `contains`, `fill_enabled_users` | file, processors | an answer is what the file said within the interval |
| `gcloud_at_gen` | token, time of generation | `generate_access_token` | child process `gcloud` | a token that is used again is no older than the interval; every call returns |
| `sample_rate_extractor` | none | `extract_sample_rate` | child process `mediainfo` | the rate of the file, or nothing |
| `bot_commands_processor` | table of languages | `process_bot_command` | processors | every language is on the keyboard once, in rows of two |
| `bot_utility` | none | base64, URL encoding | processors, commands | decode inverts encode, lengths are exact for its texts, what decode writes behind its output for others is bounded, Telegram decodes what was meant |
| `ini_reader` | configuration, read once | accessors | everybody | none worth a model: immutable |
| `logger` | sinks | `init_log` | everybody | output only |

Threads: one main thread, `io_context_threads_count` io threads that run all
completion handlers (receiver, sessions, signal), `processing_threads_count`
processor threads. They share the queue, the SQLite file, the files of the voice
messages, the user list, the token and `gmtime`'s buffer.

The hard behaviour: the mutex and condition variable; an acknowledgement protocol
over connections that break and requests that arrive late; a chain of four objects
and three sessions per voice message, spread over two kinds of threads, that meets
in files whose names may coincide; a shutdown in which one shared queue carries the
stop objects of several threads; SQLite's locks between connections that never wait;
two timed caches over a file that is edited and a program that is slow; child
processes that end before their output has been read; handlers of one session that
overlap. `PROJECT.json` lists each hazard at its line.

## Modules

| Module | Models |
|---|---|
| `FifoQueue` | abstract: what the queue promises, with atomic `Push` and `Pop` |
| `ThreadsafeQueue` | `threadsafe_queue.cpp`: every step of a thread inside the critical section; refines `FifoQueue` |
| `UpdatesReceiver` | `updates_receiver.cpp`, with Telegram's `getUpdates` as an external server |
| `BotLifecycle` | `bot.cpp`, `main.cpp`, `updates_processor::run` and its destructor |
| `VoicePipeline` | the voice message branches of `updates_processor.cpp`, `callbacks.cpp`, a session as one step |
| `SessionStep` | abstract: what a session is to everybody else, one step |
| `Session` | `session.cpp`: the chain of handlers and who holds the session; refines `SessionStep` |
| `SettingsRegisters` | abstract: what the settings are to the processors, a register per row |
| `ChatsSettings` | `chats_settings.cpp`: the statements, with the locks SQLite takes for them; refines `SettingsRegisters` |
| `LanguageMenu` | extends `ChatsSettings`: commands, buttons and recognitions of several processors |
| `Clock` | the time that the two caches read |
| `EnabledUsers` | `enabled_users.cpp`, and the operator who edits the file |
| `ExternalCalls` | `gcloud_at_gen.cpp`, `sample_rate_extractor.cpp`, and the child processes |
| `ProcessorCalls` | composes the three: the calls of `process_voice_message` and `get_google_recognize_req` |
| `TelegramRequest` | `bot_commands_processor.cpp`, `get_tg_req`, the URL encoding of `bot_utility.cpp` |
| `Base64` | the base64 class of `bot_utility.cpp` |
| `ThreadsafeQueueProofs`, `UpdatesReceiverProofs`, `BotLifecycleProofs`, `VoicePipelineProofs`, `LanguageMenuProofs`, `ProcessorCallsProofs`, `Base64Proofs` | theorems about the module each is named after |
| `RequestProofs` | theorems about `TelegramRequest` and `Session`: what is sent and how |
| `MC...` | values for TLC; `MCWire` puts `Base64`, `TelegramRequest`, `Session` and `ThreadsafeQueue` side by side, `MCIntake` `UpdatesReceiver` and `VoicePipeline` |

`BotLifecycle`, `VoicePipeline` and `LanguageMenu` use the queue as one atomic
sequence. That is sound because `ThreadsafeQueue` is shown to implement `FifoQueue`,
by TLC (`ImplementsFifoQueue`) and for any number of threads by `QueueRefinesFifo`.
`VoicePipeline` and `LanguageMenu` use a session as one step; `ImplementsSessionStep`
and the theorem `SessionRefinesStep` justify that in the same way.

Definitions named "variant with a fault" in a comment are not part of any
specification. Each is a plausible mistake in the operation that follows it, kept
to show that a property notices it.

### ThreadsafeQueue

A thread's place is `pc`: `idle`, `push` or `check` (inside the lock), `unlock`
(about to leave it), `waiting` (asleep in `cv_.wait`), `woken` (has to lock again).
`push` is `lock_guard` with the arguments, `append_element` one turn of the loop,
`notify_all` the notification under the lock. `push(object)` and `push_stop_obj` are
pushes of a batch of one. The refinement maps the abstract `items` to `q` plus what
the pushing thread has still to append: the array takes effect when its producer
gets the mutex, which nobody can tell from an atomic push.

### UpdatesReceiver

`conn` is the asynchronous operation under way. A handler either fails (`Fail`:
`reset` and `run`) or starts the next operation. `on_read` with a good body pushes
the updates, computes the offset, and then either writes again or, if the server
closed the connection, resets, which forgets the offset. `terminate` is the exception
that leaves `on_read` for a body that is not the expected JSON. `run` may end with
`stopped`: the TLS host name could not be set and nothing is under way any more.
`peer_gone` is the case in which line 143 compares a view into a response that line
142 has already assigned over: the closed connection may be missed and shows as an
error later. `orphans` are requests written on connections that were given up before
the answer; the server may serve them at any later time. `offset_` has no initializer
and starts with any value of `Indeterminate`. Integers are converted to `int` where
`calculate_offset` does so.

The server is external: ids grow by one, an offset confirms what lies below it, a
negative offset all but the newest, an answer holds the `Limit` oldest updates.
`pushed` and `since_reset` are history.

### BotLifecycle

`main` goes through `bot::start`, the joins in `~bot`, then, for each processor in
any order, the two statements of `~updates_processor`. Handlers only push jobs,
processors only take objects: what they do is the subject of the other modules. A
processor may fail to open its database. An exception ends everything (`terminated`).

### VoicePipeline

`stage[d]` says where delivery `d` of a voice message is: as an object in the queue
(`message`, `download`, `recognize`, `transcript`), as a session in flight (`getFile`,
`downloading`, `recognizing`, `sending`), or inside a thread (`storing`, `building`).
`download_voice_from_tg` is split at every statement that touches shared state:
`gmtime`, `put_time`, `open` (truncates), `write`, `push`, `close` (flushes). The
request to Google is split at the read of the file, because the queue and the io
threads go on while the token and the sample rate are computed. `Buffered` holds the
recordings that fit the buffer of `ofstream` and are written only when it is closed.
Two threads in `gmtime`/`put_time` race: the date read is any date in question.
A session has one step here; its handlers only pass a connection on, and any of them
may end it, see `Session`.

### Session

A function of the session is in `entered` until the statement that starts the next
operation, and in `leaving` from there until it has returned: the operation may end
and its handler run on another io thread meanwhile. `holders` are the functions whose
`shared_ptr` keeps the session; `start` binds the next handler to one, `return` drops
one. An operation ends well or badly (`complete`); a handler that sees an error only
logs (`give_up`). What the request does on its way is not what the handlers know of
it: it may be `written` and `served` although the write is reported as failed. The
refinement maps the holders, the answer and the callback to the four states of
`SessionStep`.

### ChatsSettings and LanguageMenu

Each processor has a connection of its own (`at`, `call`, `lock`, `language`) to one
table. SQLite is external: a statement takes the shared lock, a writer then reserved
and, at the end, exclusive; one that is refused keeps what it has until it is rolled
back. Since `chats_settings` sets no busy timeout, refused means failed: `open`
returns false and the processor ends, a select gives `Default`, and nobody looks at
what `insert_chat_settings` returns. In `LanguageMenu` users ask for the menu, press
its buttons and speak; processors take these objects from the queue and execute the
statement of each. `choices`, `overlaps` and `unsure` are history: what was chosen in
which order, and whose job met that of another processor. A job counts as met from
when it is taken until it is done, which is a little longer than its statement is on
the file; opening the file counts too. A select beside a select disturbs nobody; a
writer disturbs and is disturbed.

`ImplementsRegisters` says what of SQLite is left to a reader of the bot: a statement
reads or writes the register of its row in one step, or fails without effect, and it
fails only while a conflicting one is under way. The mapping takes a select to have its
answer, the default, as soon as it is refused; a lock that outlived its statement would
make others fail with nobody in their way.

### EnabledUsers, ExternalCalls and ProcessorCalls

`contains` and `generate_access_token` take their mutex, then the time, and work
under the mutex if the interval has passed. `place` and `point` say how far the call
of a processor has got. The file is saved in two steps (truncated, then written); a
reader between them gets an exception of the parser, which ends the process
(`terminated`). A child prints the lines of its run into a pipe of `PipeSize` lines
and ends when it likes. The loop that reads asks `running` first and then `getline`,
so lines that are still in the pipe when the child ends are not read. `mediainfo`'s
lines are data; what is not all of its output makes `boost::json::parse` throw. A
line of `gcloud` remembers when it was printed (`printed`), which the properties need
and the code does not know.

### TelegramRequest

A message goes through `process_bot_command` or the reply to a transcript or a button,
the encoding, and the assembly of the target. A string is a sequence of `Character`s:
those that mean something to a query or are replaced, the pieces that the code writes,
and `Words`, which nothing touches and which therefore count as one character.
`replace` is one turn of the loop of
`bot_utility`'s replacement; `start_pos` is where it searches next. The help text
goes through the encoding twice, as in the code. `Received` is what a server reads
according to the rules for queries, `Read` one character of it. The keyboard is the loop over the languages,
which starts a new row after every second.

### Base64

The class as it is: `encode_byte` and `decode_character` are one turn of the loop,
`encode_rest` and `decode_rest` what comes behind it. Sizes are `std::size_t`, modulo
`SizeMod`. `decoded_length` reads the text backwards past its `=`; for a text of
nothing else it reads on in front of it, and `numEq` has both outcomes. The overloads
for strings resize their output, those for pointers get a buffer of one of `Rooms`.

`decode` is given what `encode` has written (`own`, history), stripped or not, or any
of `GivenTexts`. Its loop stops at the first `=` and `decoded_length` subtracts every
trailing one, so the two disagree where padding goes beyond a group: "AAAA====" is
given two bytes and makes three, "====" has a length that wraps round. A write behind
the end goes on or ends the process (`crashed`). `WritesInBounds` bounds it by the
groups that are padding and nothing else, `RefusesSmallBuffersOnly` says for which
texts the length can wrap.

## Runs

| Run | Instance | Shows |
|---|---|---|
| `intake` | the receiver with 3 ids, 2 per answer, 2 disturbances, an `int` just wide enough; 3 voice messages of 2 users, 2 processors, 1 io thread | nothing is acknowledged unpushed, nothing repeated on a connection, every update acknowledged; own transcript, whole recording, every delivery ends |
| `lifecycle` | 1 processor, 2 io threads, 3 jobs | order of destruction, jobs drained, shutdown completes |
| `shutdown_two_processors` | 2 processors | **violated**: the wrong processor takes the stop object |
| `voice_same_second` | 2 messages of one user in one second | **violated**: a foreign transcript |
| `voice_two_io_threads` | different seconds, 2 io threads | **violated**: a foreign transcript, through `gmtime` |
| `voice_buffered` | 1 short message | **violated**: the file is read before it is written |
| `voice_repeated` | an update received twice | **violated**: the second download empties the file before it is read |
| `wire` | byte strings of up to 4 over {0, 62, 251, 255}, buffers of 8 sizes, decoding also of texts of up to 8 over A and = and of up to 4 over A, = and -; texts of up to 3 over letter, space, plus, line break, commands in 3 kinds of chats; a session with and one without a callback; 2 producers, 2 consumers, arrays of 2, 1 and 0 objects, 3 pushes, 1 spurious wakeup | base64 writes what RFC 4648 says, inside its output, and decodes it; how far decode of another text may go beyond its output, and when it refuses; Telegram receives what is meant; the keyboard is complete; a session refines one step, is not used after its end and ends; the queue refines an atomic one, loses no wakeup and is always drained |
| `menu` | 2 processors, 2 rows, 3 languages, 1 command, 2 presses, 1 voice message | the language chosen last is used unless jobs met; no language of another row; the settings are a register per row; every object is handled |
| `language_lost` | 2 processors, 1 row, 2 presses | **violated**: all buttons have been handled and the last choice is not stored |
| `calls` | 2 processors, intervals of 1, clock 2..4, up to 3 calls of `contains`, 2 recognitions, 1 edit | both caches are young enough, every call returns |
| `calls_cut_off` | the same with 1 processor | **violated**: the rate of an intact file is not returned |

Why the bounds are enough. Two producers and two consumers show every order of two
threads of a kind around one mutex; a third push lets a consumer sleep again. Three
ids with answers of two give a second poll with an offset, and two disturbances a
failure during recovery from another, or an abandoned request that is served after
the next one. One job more than there are io threads keeps a job behind the stop
object possible. Two messages suffice for two files to coincide; the third is too
long and the durations are 59, 60 and 61.
Four bytes are one full group and one that is not, in every residue of three and
four; the bytes have the bits of both ends set and give the last two letters of the
alphabet, and `SizeMod` is small enough for a length to wrap round. Eight characters
of a given text are two groups, so that one can be padding behind one that is not, and
the shorter texts add a character outside the alphabet. Three characters
put two replacements of a kind next to each other and one behind them. Each session
of `wire` is alone in its behaviour, because sessions share nothing; so are the parts
of `wire` and of `intake`, which do not read each other's state in the models. Two presses and
one voice message are a choice, a second one that meets the first or follows it, and
a reader between them; the command makes the menu. A clock of three values with an
interval of one has a call in the same second, one at the interval and one beyond it.
`MCBounds` names the combinations of messages, recognitions and edits: three calls of
`contains` with an edit (a read, an answer from the cache, a second read), two
recognitions (a new token, a cached one), or one of each. The children print empty
lines too, at the end and before more output, where the loop stops early.
The proofs remove the bounds for the invariants they cover.

Deadlock is not checked where the system stops by design: consumers that sleep when
all pushes have been made, a receiver that has stopped, a process that has ended, a
message that has been answered, a conversion that is done, jobs that have reached
their bound.

## Fairness

* `ThreadsafeQueue`: a thread inside its call moves on. Nobody must push.
* `UpdatesReceiver`: completed handlers run, and a server that has a request on a
  live connection answers. Disturbances are finitely many: without that no
  acknowledgement is certain, since every reset drops the offset. A server that closes
  each connection after its answer would make the bot fetch the same updates for ever;
  no property catches that.
* `BotLifecycle`: threads move; the pending signal gets a thread (strong fairness:
  the `io_context` serves ready handlers in order). Nobody must raise SIGINT.
* `VoicePipeline`: threads move and sessions end, well or badly (strong fairness per
  delivery, since an io thread may be busy with others). The code has no timeouts;
  that the network gives up in the end is an assumption about it.
* `Session`: io threads execute what they have begun, and every operation ends, well
  or badly. No service has to answer and nobody has to start a session.
* `TelegramRequest`: the one thread that works on a request goes on.
* `LanguageMenu`: each processor goes on, and sessions end. Weak fairness is enough:
  nobody waits for a lock of SQLite. Nobody has to press or speak.
* `ProcessorCalls`: processors go on, and children print what they have to print and
  end. The code has no limit for a child; that it ends is an assumption about
  `gcloud` and `mediainfo`. Weak fairness is enough for the two mutexes: the bounds
  leave finitely many calls that could overtake one that waits.

## Proofs

* `ThreadsafeQueueProofs`. The inductive invariant is `QueueTypeOK` with `LockInv`: a
  thread is at a critical place exactly if it owns the mutex. From it follow mutual
  exclusion; `NoSleeperOnWork`, because a producer keeps the mutex from the first
  append to the notification and a consumer goes to sleep only with the mutex and an
  empty queue; and the refinement, step by step, with the lemma `AppendHead` for the
  turn of the loop. Assumption: `QueueAssumption` (distinct threads, batches are
  sequences of objects).
* `UpdatesReceiverProofs`. `ConfirmedWerePushed` needs to know that every offset that
  can still reach the server is sound (`Sound`: all below it is pushed), in `offset`,
  in the current `target` and in every orphan, and that an answer has no holes
  (`Gapless`), which rests on `OldestFirst` about the answer and on finite
  cardinalities. `NoRepeatWithinConnection` needs in addition that the offset is above
  all that was delivered since the reset (`RepeatInv`). Assumptions:
  `ReceiverAssumption`, and `IdsFitInt` for the two theorems about the offset, since
  `calculate_offset` returns an `int`; `TypeCorrect` does without it.
* `BotLifecycleProofs`. `ThreadInv` ties the threads to the place of `main`: what has
  been joined is idle for good, which gives `ThreadsEndFirst`. `StopInv`: stop objects
  come last, they appear only after the io threads have been joined, and after one has
  been taken only stop objects are left. `SingleProcessorGetsItsStop` assumes a single processor; the run
  `shutdown_two_processors` shows that it needs to.
* `VoicePipelineProofs`. `Inv` says who has a delivery: it has one object in the queue
  at most (`QueueInv`), and a processor that builds its request or an io thread that
  stores its recording has it alone (`WorkerInv`, `HandlerInv`); a delivery that is to
  be recognized has a file (`FileInv`). That holds for any threads and names.
  `OwnTranscripts` adds `OwnInv`: paths, files and requests hold what belongs to the
  delivery, or nothing. It assumes `OneIoThread` and `NamesDiffer`; the runs
  `voice_two_io_threads` and `voice_same_second` show that it needs both.
  `WholeRecordings` adds `WholeInv`, that a stored recording is not touched again, and
  assumes that no recording is `Buffered`, as `voice_buffered` shows it must.
* `RequestProofs`, requests. `Encodes(s, v)` says that `s` is `v` with some of its
  characters replaced by their codes, by a function that gives the place in `s` where
  each character of `v` ends; it is the invariant of the loop, since a turn encodes one
  character more (`ReplaceEncodes`) and never hits a code, which holds none of the
  three characters. `RequestInv` adds that the string stands for the help text, then
  for the query of what is meant (`Standing`), and that the rounds behind and the
  places before `start_pos` hold nothing to be replaced (`Searched`). From it follow
  that the search stays inside the string, that every turn leaves less to be searched
  (`TurnsAdvance`) and that a target is clean. `ParametersArrive` then needs no more of
  the loops: a reader of a clean string that `Encodes` another ends where a reader who
  takes every character of a value for itself ends (`Decoded`), and that reader finds
  the parameters in the query (`QueryUnderstood`). `EveryLanguageOffered` computes the
  loop over the buttons (`ButtonLoop`). Recursive functions are characterised by
  `Recursion`, induction is over sets of numbers (`SetInduction`). Assumption:
  `RequestAssumption`: texts and the table of languages are sequences of `Character`s.
* `RequestProofs`, sessions. `ChainInv`: functions begin in the order of the chain, one at most
  is before its last statement, and none while an operation is under way; so a
  function that returns drops its own `shared_ptr` and no other. `AnswerInv`: an answer
  was served, is read once, and only then the callback is called. With `FreshInv`
  (what has not begun has left no trace) this gives `SessionOutlivesItsUse` and, step
  by step, `SessionRefinesStep`. No assumption about the constants is needed.
* `LanguageMenuProofs`. `LockInv` reads the lock of a connection off the place of its
  statement; `MetInv` says that two jobs that need the file have each noted the other. So a
  job that has met nobody finds nothing in its way and is never refused
  (`NothingInTheWay`, `ButtonInv`, `VoiceInv`), and the table has the choice of every
  row whose last button met nobody (`SureInv`): `LastChoice`. `OwnInv` follows a
  language from the button to the table: `OwnLanguages`. `SettingsRefineRegisters` is the
  refinement, one lemma for each kind of step; the one that counts is `Refusal`, for
  which whoever holds a lock has to be on the file (`LockHolders`). It holds for any
  number of processors. `OneProcessorLastChoice` is what the single processor of the
  shipped `config.ini` gets: no exception is left of `LastChoiceUsed`, since it meets
  nobody (`AloneInv`). Assumptions: `SettingsAssumption` (the default is a language) and
  `MenuAssumption` (no job is not a job).
* `ProcessorCallsProofs`. `ReadInv`: whenever nobody is filling it, the set is what the
  file said at the last read or later. `AskedInv`: a call that answers from it came
  within the interval of that read. The clock may move between the read of the time
  and that of the file, which is why `ReadInv` speaks of a later time too. `TokenInv`:
  every line in the pipe of a `gcloud` was printed after its call had begun, and the
  time kept for the token is that of the call. Assumptions: `UsersAssumption`,
  `CallsAssumption`, `ClockAssumption` (the clock starts beyond the intervals, since
  the caches begin with the epoch) and `BoundsAssumption`.
* `Base64Proofs`. `EncodingAt(g)` and `DecodingAt(g)` describe the state after `g`
  groups in terms of `Quad`, the four characters of a group; `TextInv` says that a
  text encode has written is that of the data with all its padding or none. `Joined`
  is the arithmetic of the shifts, `OctetsBack` that a group is decoded to its bytes,
  full or not, `DecodedLength` that the backward loop finds the number of `=`. For
  `EncodesStandardText` the shifts and masks of `Quad` are shown to take six bits at a
  time (`SixBitsOfGroup`), which is what the definition by bits says (`TextIsReference`).
  `AnyTextInv` is what holds of decode whatever its text is: the loop has taken no `=`
  and written three bytes a group (`TakenAt`), and the length is one that
  `decoded_length` may return. What the loop takes lies in front of the padding
  (`TakenFits`) and the length is at least what that makes, less one byte for every
  group of padding (`LengthOfAnyText`): `OverrunIsBounded`. The same arithmetic tells
  for which texts the length may wrap: `RefusalsAreDue`. Assumption:
  `Base64Assumption`: inputs and given texts are short enough that eight times their
  length fits `std::size_t`, and no buffer is larger than half of that range.

Where two specifications have an invariant of the same name, a theorem is about the
one its module extends.

Only model-checked: liveness under fairness, which the prover cannot do
(`QueueIsDrained`, `EveryUpdateAcknowledged`, `ShutdownCompletes`, `EveryDeliveryEnds`,
`RequestPartIsSent`, `EverySessionEnds`, `EveryObjectHandled`, `EveryCallReturns`). Of
`RequestPartIsSent` the safety half is proved (`SentTargetsAreClean`), and so is the
measure that makes the loops end (`TurnsAdvance`). Every invariant and every action
property of the passing runs is proved.

## What the checks found

1. With more than one processor the shutdown may hang (`updates_processor.cpp:216`).
2. Two voice messages of one user in the same second share a file, and one is answered
   with the words of the other (`callbacks.cpp:39`).
3. With more than one io thread `gmtime` does the same to messages of different
   seconds (`callbacks.cpp:34`).
4. A short recording is queued before it has reached the disk (`callbacks.cpp:44`).
   How short depends on the library: what the stream's buffer takes stays there.
5. The loops that read the output of a child stop when the child has ended, even if
   lines are still in the pipe. The JSON of an intact file is then empty or cut off and
   the parser's exception ends the process (`sample_rate_extractor.cpp:16`); a `gcloud`
   that succeeded gives an empty or an old token (`gcloud_at_gen.cpp:25`).
6. An update that is fetched again after a reset is downloaded into the same file,
   which the second download empties while the first is being recognized
   (`callbacks.cpp:40`).
7. With more than one processor the language chosen last may not be the one that is
   stored: an insert is refused while another connection has the file locked and nobody
   looks at the result (`updates_processor.cpp:87`), or two buttons of one user are
   written in the wrong order.

The shipped `config.ini` has one thread of each kind: 1, 3 and 7 need another setting,
the others do not. With one processor 7 cannot happen (`OneProcessorLastChoice`).

What the code promises nowhere, and the properties therefore except, though a reader
should know of it: with two processors a select that meets a writer is refused and the
voice message recognized in the default language (`LastChoiceUsed` holds only without
such a meeting); two processors that create the table of a new database at the same
time may both fail to open it and end (`EveryObjectHandled`); characters with a meaning
in a query (`&`, `%`, `#`) are not encoded, so a transcript that holds one arrives cut
off or changed (`ParamsArrive`); decode of a text with padding beyond a group may write
behind its output, one byte for each such group (`WritesInBounds`), and of a text that
is mostly padding, the empty one included, its length may wrap round and the string
overload throw (`RefusesSmallBuffersOnly`) - the bot itself only encodes
(`updates_processor.cpp:200`); a line printed by a `gcloud` that fails is used as the
token until the interval has passed; a body that is not JSON, or a user file that is
read while it is saved, ends the process; a message of exactly sixty seconds
is transcribed, although the reply to longer ones says "less than 60 seconds".

Some hazards have no property: each such entry of `PROJECT.json` says why in its note.

## Not modelled

* `ini_reader` and `settings_structs`: the configuration is read once before any thread
  exists and never changes; its values are constants of the modules.
* `logger`: output only.
* HTTP and TLS beyond success and failure, the JSON of messages beyond what the
  properties tell apart.
* A crash of the process: nothing is persisted but the settings, and nothing in the
  repository promises that a message survives one. A stream that fails to write (full
  disk): the code does not look, so what is recognized is what is there.
* A system clock that is set back, a `gcloud` or a server that hangs for ever: there the
  code has no remedy and no property could hold.
* I/O errors of SQLite other than a refused lock, and a file of users that is replaced
  between two blocks of one read.

## State of the plan

Every component with behaviour of its own is modelled, checked and has its safety
properties proved. What would add most from here: a composition of `UpdatesReceiver`
with `VoicePipeline`, in which the updates that are fetched twice come from the
receiver itself; `voice_repeated` assumes one.
