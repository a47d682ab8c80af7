----------------------------- MODULE EnabledUsers -----------------------------
(***************************************************************************)
(* enabled_users.cpp: the list of users whose voice messages are           *)
(* recognized, read again from its file once the interval has passed, and  *)
(* the operator who edits the file meanwhile.                              *)
(***************************************************************************)
EXTENDS Clock, FiniteSets

CONSTANTS
  Names,       \* user names, in upper and lower case
  to_lower,    \* the lower case of each
  Contents,    \* what the file may say: use_enabled_users, users
  enabled_users_read_interval,
  Saving       \* the file is truncated, its new content is not there yet

ASSUME UsersAssumption ==
  /\ to_lower \in [Names -> Names]
  /\ Contents \subseteq [use_enabled_users : BOOLEAN, users : SUBSET Names]
  /\ Saving \notin Contents
  /\ enabled_users_read_interval \in Nat
  /\ enabled_users_read_interval < Start
  /\ Names # {}

VARIABLES
  file,       \* what the file says, or Saving
  users,      \* use_enabled_users_ and enabled_users_
  prev_read,  \* prev_enabled_users_read_time_
  users_lock, \* owner of m_
  asking,     \* the name a processor asks about
  place,      \* how far its call of contains has got
  verdict,    \* what the call returned
  asked,      \* history: when the call got the mutex
  said        \* history: what the file said at each time

usersVars == <<file, users, prev_read, users_lock, asking, place, verdict, asked, said>>

UsersTypeOK ==
  /\ file \in Contents \cup {Saving}
  /\ users \in [use_enabled_users : BOOLEAN, users : SUBSET Names]
  /\ prev_read \in {0} \cup Times
  /\ users_lock \in Processors \cup {Nobody}
  /\ asking \in [Processors -> Names]
  /\ place \in [Processors -> {"out", "waiting", "filling", "looking", "returned"}]
  /\ verdict \in [Processors -> BOOLEAN]
  /\ asked \in [Processors -> {0} \cup Times]
  /\ said \in [Times -> SUBSET Contents]
  /\ \A p \in Processors : place[p] \in {"filling", "looking"} <=> users_lock = p

Lower(names) == {to_lower[n] : n \in names}

\* Variant with a fault: names that are gone from the file stay.
filled_up(content) ==
  [use_enabled_users |-> content.use_enabled_users,
   users |-> IF content.use_enabled_users THEN users.users \cup Lower(content.users) ELSE users.users]

\* fill_enabled_users clears the set only if the list is used.
filled(content) ==
  [use_enabled_users |-> content.use_enabled_users,
   users |-> IF content.use_enabled_users THEN Lower(content.users) ELSE users.users]

AnyName == CHOOSE n \in Names : TRUE

\* The constructor has filled the set; the time of the last read is the epoch.
UsersInit ==
  /\ file \in Contents
  /\ users = [use_enabled_users |-> file.use_enabled_users,
              users |-> IF file.use_enabled_users THEN Lower(file.users) ELSE {}]
  /\ prev_read = 0
  /\ users_lock = Nobody
  /\ asking = [p \in Processors |-> AnyName]
  /\ place = [p \in Processors |-> "out"]
  /\ verdict = [p \in Processors |-> FALSE]
  /\ asked = [p \in Processors |-> 0]
  /\ said = [t \in Times |-> IF t = Start THEN {file} ELSE {}]

------------------------------------------------------------------------------
contains(p, n) ==
  /\ place[p] = "out"
  /\ asking' = [asking EXCEPT ![p] = n]
  /\ place' = [place EXCEPT ![p] = "waiting"]
  /\ UNCHANGED <<file, users, prev_read, users_lock, verdict, asked, said, clockVars>>

\* Variant with a fault: the time of the last call is kept, not of the last read.
read_due_sliding(p) ==
  /\ prev_read' = now
  /\ place' = [place EXCEPT ![p] =
                 IF now - prev_read > enabled_users_read_interval THEN "filling" ELSE "looking"]

\* elapsed_seconds, and the time set before the file is read.
read_due(p) ==
  IF now - prev_read > enabled_users_read_interval
  THEN prev_read' = now /\ place' = [place EXCEPT ![p] = "filling"]
  ELSE UNCHANGED prev_read /\ place' = [place EXCEPT ![p] = "looking"]

\* Variant with a fault: without the lock_guard.
lock_users_ignored(p) ==
  /\ place[p] = "waiting"
  /\ users_lock' = p
  /\ read_due(p)
  /\ asked' = [asked EXCEPT ![p] = now]
  /\ UNCHANGED <<file, users, asking, verdict, said, clockVars>>

\* The mutex is taken, then the time.
lock_users(p) ==
  /\ place[p] = "waiting" /\ users_lock = Nobody
  /\ users_lock' = p
  /\ read_due(p)
  /\ asked' = [asked EXCEPT ![p] = now]
  /\ UNCHANGED <<file, users, asking, verdict, said, clockVars>>

\* The parser throws on a file that is being saved.
fill_enabled_users(p) ==
  /\ place[p] = "filling"
  /\ IF file = Saving
     THEN terminated' = TRUE /\ UNCHANGED <<users, place>>
     ELSE users' = filled(file) /\ place' = [place EXCEPT ![p] = "looking"] /\ UNCHANGED terminated
  /\ UNCHANGED <<file, prev_read, users_lock, asking, verdict, asked, said, now>>

look(p) ==
  /\ place[p] = "looking"
  /\ verdict' = [verdict EXCEPT ![p] = users.use_enabled_users => to_lower[asking[p]] \in users.users]
  /\ users_lock' = Nobody
  /\ place' = [place EXCEPT ![p] = "returned"]
  /\ UNCHANGED <<file, users, prev_read, asking, asked, said, clockVars>>

\* The variables of the call are gone.
leave(p) ==
  /\ place[p] = "returned"
  /\ place' = [place EXCEPT ![p] = "out"]
  /\ asking' = [asking EXCEPT ![p] = AnyName]
  /\ verdict' = [verdict EXCEPT ![p] = FALSE]
  /\ asked' = [asked EXCEPT ![p] = 0]
  /\ UNCHANGED <<file, users, prev_read, users_lock, said, clockVars>>

------------------------------------------------------------------------------
(* The operator.                                                           *)

begin_save ==
  /\ file # Saving
  /\ file' = Saving
  /\ UNCHANGED <<users, prev_read, users_lock, asking, place, verdict, asked, said, clockVars>>

end_save(content) ==
  /\ file = Saving
  /\ file' = content
  /\ said' = [said EXCEPT ![now] = @ \cup {content}]
  /\ UNCHANGED <<users, prev_read, users_lock, asking, place, verdict, asked, clockVars>>

------------------------------------------------------------------------------
\* What the file means for a name, whatever its case.
Allowed(content, n) ==
  content.use_enabled_users => \E m \in content.users : to_lower[m] = to_lower[n]

\* An answer is what the file said at some time no longer before the call than
\* the interval, however the calls share the set and whenever the file is saved.
AnswerIsRecent ==
  \A p \in Processors : place[p] = "returned" =>
    \E t \in Times : /\ asked[p] <= t + enabled_users_read_interval /\ t <= now
                     /\ \E content \in said[t] : verdict[p] = Allowed(content, asking[p])
==============================================================================
