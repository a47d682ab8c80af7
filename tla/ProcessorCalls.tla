---------------------------- MODULE ProcessorCalls ----------------------------
(***************************************************************************)
(* What processors share besides the queue: process_voice_message asks     *)
(* enabled_users, get_google_recognize_req asks gcloud_at_gen and          *)
(* sample_rate_extractor.  A processor makes one call at a time.           *)
(***************************************************************************)
EXTENDS EnabledUsers, ExternalCalls

CONSTANT Bounds  \* numbers of messages, requests and edits that are looked at

ASSUME BoundsAssumption == Bounds \subseteq Nat \X Nat \X Nat

VARIABLE counts  \* messages, requests and edits so far

vars == <<clockVars, usersVars, callsVars, counts>>

TypeOK == ClockTypeOK /\ UsersTypeOK /\ CallsTypeOK /\ counts \in Nat \X Nat \X Nat

Init == ClockInit /\ UsersInit /\ CallsInit /\ counts = <<0, 0, 0>>

Count(k) ==
  /\ counts' = [counts EXCEPT ![k] = @ + 1]
  /\ counts' \in Bounds

\* wait_and_pop has returned a voice message, or a recording.
Free(p) == place[p] = "out" /\ point[p] = "out"

process_voice_message(p, n) ==
  Free(p) /\ contains(p, n) /\ Count(1) /\ UNCHANGED callsVars

get_google_recognize_req(p) ==
  Free(p) /\ generate_access_token(p) /\ Count(2) /\ UNCHANGED usersVars

UsersStep(p) ==
  /\ lock_users(p) \/ fill_enabled_users(p) \/ look(p) \/ leave(p)
  /\ UNCHANGED <<callsVars, counts>>

CallsStep(p) ==
  /\ \/ lock_token(p) \/ extract_sample_rate(p) \/ running(p)
     \/ getline(p) \/ wait(p) \/ finish(p)
  /\ UNCHANGED <<usersVars, counts>>

Child(p) == (print(p) \/ exit(p)) /\ UNCHANGED <<usersVars, counts>>

Operator ==
  /\ \/ begin_save /\ Count(3)
     \/ \E content \in Contents : end_save(content) /\ UNCHANGED counts
  /\ UNCHANGED callsVars

\* What the file says now it still says in the next second.
tick ==
  /\ Tick
  /\ said' = [said EXCEPT ![now + 1] = {file} \ {Saving}]
  /\ UNCHANGED <<terminated, file, users, prev_read, users_lock, asking, place, verdict, asked>>
  /\ UNCHANGED <<callsVars, counts>>

Processor(p) == ~terminated /\ (UsersStep(p) \/ CallsStep(p))

Next ==
  /\ ~terminated
  /\ \/ \E p \in Processors : UsersStep(p) \/ CallsStep(p) \/ Child(p)
     \/ \E p \in Processors : get_google_recognize_req(p) \/ \E n \in Names : process_voice_message(p, n)
     \/ Operator
     \/ tick

\* Threads go on, and children print what they have to print and end.
Spec ==
  /\ Init /\ [][Next]_vars
  /\ \A p \in Processors : WF_vars(Processor(p)) /\ WF_vars(~terminated /\ Child(p))

------------------------------------------------------------------------------
\* No processor waits for ever: for a mutex, for a line or for the end of a child.
EveryCallReturns ==
  \A p \in Processors :
    (place[p] # "out" \/ point[p] # "out") ~> (place[p] = "out" /\ point[p] = "out") \/ terminated
==============================================================================
