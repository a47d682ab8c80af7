---------------------------- MODULE ExternalCalls -----------------------------
(***************************************************************************)
(* gcloud_at_gen.cpp and sample_rate_extractor.cpp: a child process is     *)
(* started and its output is read line by line, as long as the child runs. *)
(* The child ends when it likes, whether its output has been read or not.  *)
(***************************************************************************)
EXTENDS Clock, Sequences

CONSTANTS
  Runs,      \* what a program may do: the lines it prints and its exit code
  OneTrack,  \* all the lines of mediainfo for a file with one audio track
  NoTrack,   \* and for a file with none
  PipeSize,  \* lines that fit the pipe
  access_token_generation_interval,
  NoLine     \* no token has been generated

Programs == {"gcloud", "mediainfo"}
Line == [text : STRING, printed : {0} \cup Times]

ASSUME CallsAssumption ==
  /\ \A program \in Programs : \A r \in Runs[program] : r.lines \in Seq(STRING) /\ r.code \in {0, 1}
  /\ OneTrack # NoTrack
  /\ NoLine \notin Line
  /\ PipeSize \in Nat \ {0}
  /\ access_token_generation_interval \in Nat
  /\ access_token_generation_interval < Start

VARIABLES
  access_token,   \* the line that gcloud printed, and when
  prev_gen_time,
  token_lock,     \* owner of the mutex of gcloud_at_gen
  program,        \* what a processor calls
  point,          \* how far the call has got
  began,          \* now, as the call read it
  lines_left,     \* what the child has still to print
  code,           \* its exit code
  alive,          \* it runs
  pipe,           \* lines it has printed and nobody has read
  data,           \* lines that extract_sample_rate has read
  outcome,        \* how the last call ended
  given           \* the token it returned

callsVars == <<access_token, prev_gen_time, token_lock, program, point, began,
               lines_left, code, alive, pipe, data, outcome, given>>

Points == {"out", "waiting", "running?", "getline", "wait", "returned"}

CallsTypeOK ==
  /\ access_token \in Line \cup {NoLine}
  /\ prev_gen_time \in {0} \cup Times
  /\ token_lock \in Processors \cup {Nobody}
  /\ program \in [Processors -> Programs]
  /\ point \in [Processors -> Points]
  /\ began \in [Processors -> {0} \cup Times]
  /\ lines_left \in [Processors -> Seq(STRING)]
  /\ code \in [Processors -> {0, 1}]
  /\ alive \in [Processors -> BOOLEAN]
  /\ pipe \in [Processors -> Seq(Line)]
  /\ data \in [Processors -> Seq(STRING)]
  /\ outcome \in [Processors -> {"none", "cached", "generated", "failed", "rate"}]
  /\ given \in [Processors -> Line \cup {NoLine}]
  /\ \A p \in Processors :
       token_lock = p <=> program[p] = "gcloud" /\ point[p] \in {"running?", "getline", "wait"}

CallsInit ==
  /\ access_token = NoLine
  /\ prev_gen_time = 0
  /\ token_lock = Nobody
  /\ program = [p \in Processors |-> "gcloud"]
  /\ point = [p \in Processors |-> "out"]
  /\ began = [p \in Processors |-> 0]
  /\ lines_left = [p \in Processors |-> <<>>]
  /\ code = [p \in Processors |-> 0]
  /\ alive = [p \in Processors |-> FALSE]
  /\ pipe = [p \in Processors |-> <<>>]
  /\ data = [p \in Processors |-> <<>>]
  /\ outcome = [p \in Processors |-> "none"]
  /\ given = [p \in Processors |-> NoLine]

------------------------------------------------------------------------------
\* The child is started with its standard output in the pipe.
child(p, r, first) ==
  /\ lines_left' = [lines_left EXCEPT ![p] = r.lines]
  /\ code' = [code EXCEPT ![p] = r.code]
  /\ alive' = [alive EXCEPT ![p] = TRUE]
  /\ pipe' = [pipe EXCEPT ![p] = <<>>]
  /\ data' = [data EXCEPT ![p] = <<>>]
  /\ point' = [point EXCEPT ![p] = first]

\* Variant with a fault: wait comes before the reading.
first_wait == "wait"

\* The condition of the loop comes first.
first_point == "running?"

Return(p, how, token) ==
  /\ point' = [point EXCEPT ![p] = "returned"]
  /\ outcome' = [outcome EXCEPT ![p] = how]
  /\ given' = [given EXCEPT ![p] = token]

generate_access_token(p) ==
  /\ point[p] = "out"
  /\ program' = [program EXCEPT ![p] = "gcloud"]
  /\ point' = [point EXCEPT ![p] = "waiting"]
  /\ UNCHANGED <<access_token, prev_gen_time, token_lock, began, lines_left, code, alive, pipe, data, outcome, given, clockVars>>

\* The mutex is taken, then the time.
lock_token(p) ==
  /\ point[p] = "waiting" /\ token_lock = Nobody
  /\ began' = [began EXCEPT ![p] = now]
  /\ IF now - prev_gen_time > access_token_generation_interval
     THEN /\ token_lock' = p
          /\ \E r \in Runs["gcloud"] : child(p, r, first_point)
          /\ UNCHANGED <<outcome, given>>
     ELSE /\ Return(p, "cached", access_token)
          /\ UNCHANGED <<token_lock, lines_left, code, alive, pipe, data>>
  /\ UNCHANGED <<access_token, prev_gen_time, program, clockVars>>

\* The variables of a call that has returned are gone.
Forget(p) ==
  /\ began' = [began EXCEPT ![p] = 0]
  /\ outcome' = [outcome EXCEPT ![p] = "none"]
  /\ given' = [given EXCEPT ![p] = NoLine]

\* get_google_recognize_req has the token before it asks for the rate.
extract_sample_rate(p) ==
  /\ point[p] = "returned" /\ program[p] = "gcloud"
  /\ Forget(p)
  /\ program' = [program EXCEPT ![p] = "mediainfo"]
  /\ \E r \in Runs["mediainfo"] : child(p, r, first_point)
  /\ UNCHANGED <<access_token, prev_gen_time, token_lock, clockVars>>

running(p) ==
  /\ point[p] = "running?"
  /\ point' = [point EXCEPT ![p] = IF alive[p] THEN "getline" ELSE "wait"]
  /\ UNCHANGED <<access_token, prev_gen_time, token_lock, program, began, lines_left, code, alive, pipe, data, outcome, given, clockVars>>

\* Variant with a fault: the time when the token is there.
gen_time_late(p) == now

\* The time at which the call began.
gen_time(p) == began[p]

\* A line, or the end of the output: then the child is gone and the pipe empty.
getline(p) ==
  /\ point[p] = "getline"
  /\ pipe[p] # <<>> \/ ~alive[p]
  /\ IF pipe[p] = <<>> \/ pipe[p][1].text = ""
     THEN /\ point' = [point EXCEPT ![p] = "wait"]
          /\ UNCHANGED <<access_token, prev_gen_time, data>>
     ELSE /\ point' = [point EXCEPT ![p] = "running?"]
          /\ IF program[p] = "gcloud"
             THEN access_token' = pipe[p][1] /\ prev_gen_time' = gen_time(p) /\ UNCHANGED data
             ELSE /\ data' = [data EXCEPT ![p] = Append(@, pipe[p][1].text)]
                  /\ UNCHANGED <<access_token, prev_gen_time>>
  /\ pipe' = [pipe EXCEPT ![p] = IF @ = <<>> THEN @ ELSE Tail(@)]
  /\ UNCHANGED <<token_lock, program, began, lines_left, code, alive, outcome, given, clockVars>>

Release(p) == token_lock' = IF token_lock = p THEN Nobody ELSE token_lock

\* The token is whatever access_token_ is, has it been read now or before.
wait_gcloud(p) ==
  /\ program[p] = "gcloud"
  /\ IF code[p] = 0 THEN Return(p, "generated", access_token) ELSE Return(p, "failed", NoLine)
  /\ token_lock' = Nobody
  /\ UNCHANGED terminated

\* boost::json::parse throws on anything that is not all of the output.
wait_mediainfo(p) ==
  /\ program[p] = "mediainfo"
  /\ IF code[p] = 0 /\ data[p] \notin {OneTrack, NoTrack}
     THEN terminated' = TRUE /\ UNCHANGED <<point, outcome, given>>
     ELSE /\ Return(p, IF code[p] = 0 /\ data[p] = OneTrack THEN "rate" ELSE "failed", NoLine)
          /\ UNCHANGED terminated
  /\ UNCHANGED token_lock

wait(p) ==
  /\ point[p] = "wait" /\ ~alive[p]
  /\ wait_gcloud(p) \/ wait_mediainfo(p)
  /\ UNCHANGED <<access_token, prev_gen_time, program, began, lines_left, code, alive, pipe, data, now>>

\* The request is on its way.
finish(p) ==
  /\ point[p] = "returned" /\ program[p] = "mediainfo"
  /\ point' = [point EXCEPT ![p] = "out"]
  /\ Forget(p)
  /\ program' = [program EXCEPT ![p] = "gcloud"]
  /\ code' = [code EXCEPT ![p] = 0]
  /\ pipe' = [pipe EXCEPT ![p] = <<>>]
  /\ data' = [data EXCEPT ![p] = <<>>]
  /\ UNCHANGED <<access_token, prev_gen_time, token_lock, lines_left, alive, clockVars>>

------------------------------------------------------------------------------
(* The child.                                                              *)

print(p) ==
  /\ alive[p] /\ lines_left[p] # <<>> /\ Len(pipe[p]) < PipeSize
  /\ pipe' = [pipe EXCEPT ![p] =
       Append(@, [text |-> Head(lines_left[p]), printed |-> IF program[p] = "gcloud" THEN now ELSE 0])]
  /\ lines_left' = [lines_left EXCEPT ![p] = Tail(@)]
  /\ UNCHANGED <<access_token, prev_gen_time, token_lock, program, point, began, code, alive, data, outcome, given, clockVars>>

exit(p) ==
  /\ alive[p] /\ lines_left[p] = <<>>
  /\ alive' = [alive EXCEPT ![p] = FALSE]
  /\ UNCHANGED <<access_token, prev_gen_time, token_lock, program, point, began, lines_left, code, pipe, data, outcome, given, clockVars>>

------------------------------------------------------------------------------
\* A token that is used again was printed no longer ago than the interval, be the
\* time between the start of gcloud and its answer as long as it may.
CachedTokenIsYoung ==
  \A p \in Processors : point[p] = "returned" /\ outcome[p] = "cached" =>
    given[p] # NoLine /\ began[p] <= given[p].printed + access_token_generation_interval

\* A file whose rate mediainfo has printed gives its rate, and the process lives.
IntactFileGivesItsRate ==
  \A p \in Processors :
    program[p] = "mediainfo" /\ point[p] \in {"wait", "returned"} /\ ~alive[p] /\ code[p] = 0
      => data[p] \in {OneTrack, NoTrack}
==============================================================================
