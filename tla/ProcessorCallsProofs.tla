------------------------- MODULE ProcessorCallsProofs -------------------------
(***************************************************************************)
(* The two timed caches that processors share: how old an answer of        *)
(* enabled_users or a cached token of gcloud can be, for any number of     *)
(* processors, any users and any intervals.                                *)
(***************************************************************************)
EXTENDS ProcessorCalls, TLAPS

\* What contains would return for a name.
Verdict(n) == users.use_enabled_users => to_lower[n] \in users.users

Says(content) == \A n \in Names : Verdict(n) <=> Allowed(content, n)

\* The set is what the file said when it was read last, or later.
ReadInv ==
  prev_read # 0 /\ (\A p \in Processors : place[p] # "filling") =>
    \E t \in Times : prev_read <= t /\ t <= now /\ \E content \in said[t] : Says(content)

\* A call that is answered from the set does so within the interval.
AskedInv ==
  \A p \in Processors :
    /\ asked[p] <= now
    /\ place[p] = "filling" => prev_read = asked[p] /\ prev_read # 0
    /\ place[p] = "looking" => prev_read # 0 /\ asked[p] <= prev_read + enabled_users_read_interval

FileInv == prev_read <= now /\ (file # Saving => file \in said[now])

UsersInv == ClockTypeOK /\ UsersTypeOK /\ ReadInv /\ AskedInv /\ FileInv /\ AnswerIsRecent

\* A call that holds the mutex of gcloud_at_gen or has a mediainfo.
Active(p) == point[p] \in {"running?", "getline", "wait"}

\* The token was printed after the call had begun whose time is kept for it.
TokenInv ==
  /\ prev_gen_time <= now
  /\ prev_gen_time # 0 => access_token # NoLine
  /\ access_token # NoLine => access_token.printed >= prev_gen_time
  /\ \A p \in Processors :
       /\ began[p] <= now
       /\ point[p] \in {"out", "waiting"} => program[p] = "gcloud"
       /\ Active(p) /\ program[p] = "gcloud" =>
            \A i \in 1..Len(pipe[p]) : pipe[p][i].printed >= began[p]

CallsInv == ClockTypeOK /\ CallsTypeOK /\ TokenInv /\ CachedTokenIsYoung

Inv == UsersInv /\ CallsInv /\ counts \in Nat \X Nat \X Nat

\* The clock has no time between the epoch and its start.
LEMMA TimesAreNat == /\ Times \subseteq Nat /\ 0 \notin Times
                     /\ \A t \in {0} \cup Times : t \in Nat
                     /\ \A t \in Times : t > enabled_users_read_interval /\ t > access_token_generation_interval
  BY ClockAssumption, UsersAssumption, CallsAssumption DEF Times

------------------------------------------------------------------------------
(* enabled_users.                                                          *)

\* The lower case of a list says of a name what the list says.
LEMMA LowerSays ==
  ASSUME NEW content \in Contents, NEW n \in Names
  PROVE  (content.use_enabled_users => to_lower[n] \in Lower(content.users)) <=> Allowed(content, n)
  BY UsersAssumption DEF Lower, Allowed

LEMMA ContainsStep ==
  ASSUME UsersInv, NEW p \in Processors, NEW n \in Names, contains(p, n) PROVE UsersInv'
<1> USE DEF UsersInv, contains, clockVars
<1>1. ClockTypeOK' /\ UsersTypeOK'
  BY ClockAssumption DEF ClockTypeOK, UsersTypeOK
<1>2. ReadInv'
  BY DEF ReadInv, Says, Verdict, UsersTypeOK
<1>3. AskedInv' /\ FileInv'
  BY DEF AskedInv, FileInv, UsersTypeOK
<1>4. AnswerIsRecent'
  BY DEF AnswerIsRecent, UsersTypeOK
<1> QED
  BY <1>1, <1>2, <1>3, <1>4

LEMMA LockUsersStep ==
  ASSUME UsersInv, NEW p \in Processors, lock_users(p) PROVE UsersInv'
<1> USE DEF UsersInv, lock_users, clockVars
<1>0. now \in Times /\ now \in Nat /\ now > enabled_users_read_interval /\ now # 0
      /\ enabled_users_read_interval \in Nat /\ prev_read \in Nat
  BY TimesAreNat, UsersAssumption DEF ClockTypeOK, UsersTypeOK
<1>1. CASE now - prev_read > enabled_users_read_interval
  <2>1. prev_read' = now /\ place' = [place EXCEPT ![p] = "filling"]
    BY <1>1 DEF read_due
  <2>2. ClockTypeOK' /\ UsersTypeOK'
    BY <1>0, <2>1, ClockAssumption DEF ClockTypeOK, UsersTypeOK
  <2>3. ReadInv'
    BY <2>1 DEF ReadInv, UsersTypeOK
  <2>4. AskedInv'
    <3>1. \A r \in Processors \ {p} : place[r] # "looking" /\ place[r] # "filling"
      BY ClockAssumption DEF UsersTypeOK
    <3>2. /\ asked'[p] = now /\ place'[p] = "filling"
          /\ \A r \in Processors \ {p} : asked'[r] = asked[r] /\ place'[r] = place[r]
      BY <2>1 DEF UsersTypeOK
    <3> QED
      BY <1>0, <2>1, <3>1, <3>2 DEF AskedInv
  <2>5. FileInv'
    BY <1>0, <2>1 DEF FileInv
  <2>6. AnswerIsRecent'
    BY <2>1 DEF AnswerIsRecent, UsersTypeOK
  <2> QED
    BY <2>2, <2>3, <2>4, <2>5, <2>6
<1>2. CASE ~(now - prev_read > enabled_users_read_interval)
  <2>1. UNCHANGED prev_read /\ place' = [place EXCEPT ![p] = "looking"]
    BY <1>2 DEF read_due
  <2>2. prev_read # 0 /\ now <= prev_read + enabled_users_read_interval
    BY <1>0, <1>2
  <2>3. ClockTypeOK' /\ UsersTypeOK'
    BY <1>0, <2>1, ClockAssumption DEF ClockTypeOK, UsersTypeOK
  <2>4. \A r \in Processors : place[r] # "filling"
    BY ClockAssumption DEF UsersTypeOK
  <2>5. ReadInv'
    BY <2>1, <2>4 DEF ReadInv, Says, Verdict
  <2>6. AskedInv'
    BY <1>0, <2>1, <2>2 DEF AskedInv, UsersTypeOK
  <2>7. FileInv'
    BY <2>1 DEF FileInv
  <2>8. AnswerIsRecent'
    BY <2>1 DEF AnswerIsRecent, UsersTypeOK
  <2> QED
    BY <2>3, <2>5, <2>6, <2>7, <2>8
<1> QED
  BY <1>1, <1>2

LEMMA FillStep ==
  ASSUME UsersInv, NEW p \in Processors, fill_enabled_users(p) PROVE UsersInv'
<1> USE DEF UsersInv, fill_enabled_users
<1>1. CASE file = Saving
  BY <1>1 DEF ClockTypeOK, UsersTypeOK, ReadInv, Says, Verdict, AskedInv, FileInv, AnswerIsRecent
<1>2. CASE file # Saving
  <2>1. /\ file \in Contents /\ file \in said[now]
        /\ users' = filled(file) /\ place' = [place EXCEPT ![p] = "looking"]
    BY <1>2 DEF UsersTypeOK, FileInv
  <2>2. users' \in [use_enabled_users : BOOLEAN, users : SUBSET Names]
    BY <2>1, UsersAssumption DEF filled, Lower, UsersTypeOK
  <2>3. ClockTypeOK' /\ UsersTypeOK'
    BY <1>2, <2>1, <2>2 DEF ClockTypeOK, UsersTypeOK
  <2>4. prev_read \in Nat /\ now \in Times /\ now \in Nat /\ prev_read = asked[p] /\ prev_read # 0
        /\ enabled_users_read_interval \in Nat
    BY TimesAreNat, UsersAssumption DEF ClockTypeOK, UsersTypeOK, AskedInv
  <2>5. Says(file)'
    <3> SUFFICES ASSUME NEW n \in Names PROVE Verdict(n)' <=> Allowed(file', n)
      BY DEF Says
    <3>1. Allowed(file', n) <=> Allowed(file, n)
      OBVIOUS
    <3> QED
      BY <2>1, <3>1, LowerSays DEF Verdict, filled
  <2>6. ReadInv'
    BY <2>1, <2>4, <2>5 DEF ReadInv, FileInv
  <2>7. AskedInv'
    BY <2>1, <2>4 DEF AskedInv, UsersTypeOK
  <2>8. FileInv'
    BY DEF FileInv
  <2>9. AnswerIsRecent'
    BY <2>1 DEF AnswerIsRecent, UsersTypeOK
  <2> QED
    BY <2>3, <2>6, <2>7, <2>8, <2>9
<1> QED
  BY <1>1, <1>2

LEMMA LookStep ==
  ASSUME UsersInv, NEW p \in Processors, look(p) PROVE UsersInv'
<1> USE DEF UsersInv, look, clockVars
<1>1. ClockTypeOK' /\ UsersTypeOK'
  BY ClockAssumption DEF ClockTypeOK, UsersTypeOK
<1>2. \A r \in Processors : place[r] # "filling"
  BY DEF UsersTypeOK
<1>3. ReadInv'
  BY <1>2 DEF ReadInv, Says, Verdict
<1>4. AskedInv' /\ FileInv'
  BY DEF AskedInv, FileInv, UsersTypeOK
<1>5. AnswerIsRecent'
  <2>0. prev_read \in {0} \cup Times /\ asked[p] \in {0} \cup Times
    BY DEF UsersTypeOK
  <2>1. /\ prev_read \in Nat /\ asked[p] \in Nat /\ prev_read # 0 /\ enabled_users_read_interval \in Nat
        /\ asked[p] <= prev_read + enabled_users_read_interval
    BY <2>0, TimesAreNat, UsersAssumption DEF UsersTypeOK, AskedInv
  <2>2. PICK t \in Times : prev_read <= t /\ t <= now /\ \E content \in said[t] : Says(content)
    BY <1>2, <2>1 DEF ReadInv
  <2>3. PICK content \in said[t] : Says(content)
    BY <2>2
  <2>4. asked[p] <= t + enabled_users_read_interval
    BY <2>1, <2>2, TimesAreNat
  <2>5. asking[p] \in Names /\ verdict'[p] = Verdict(asking[p])
    BY DEF UsersTypeOK, Verdict
  <2>6. verdict'[p] = Allowed(content, asking[p])
    BY <2>3, <2>5 DEF Says, Verdict, Allowed
  <2>7. \A r \in Processors \ {p} : place'[r] = place[r] /\ verdict'[r] = verdict[r]
    BY DEF UsersTypeOK
  <2> QED
    BY <2>2, <2>4, <2>6, <2>7 DEF AnswerIsRecent
<1> QED
  BY <1>1, <1>3, <1>4, <1>5

LEMMA LeaveStep ==
  ASSUME UsersInv, NEW p \in Processors, leave(p) PROVE UsersInv'
<1> USE DEF UsersInv, leave, clockVars
<1>1. AnyName \in Names
  BY UsersAssumption DEF AnyName
<1>2. ClockTypeOK' /\ UsersTypeOK'
  BY <1>1, ClockAssumption DEF ClockTypeOK, UsersTypeOK
<1>3. ReadInv'
  BY DEF ReadInv, Says, Verdict, UsersTypeOK
<1>4. AskedInv' /\ FileInv'
  BY TimesAreNat DEF AskedInv, FileInv, UsersTypeOK, ClockTypeOK
<1>5. AnswerIsRecent'
  BY DEF AnswerIsRecent, UsersTypeOK
<1> QED
  BY <1>2, <1>3, <1>4, <1>5

\* What the file has said it has said.
LEMMA OperatorStep ==
  ASSUME UsersInv, begin_save \/ \E content \in Contents : end_save(content) PROVE UsersInv'
<1> USE DEF UsersInv, clockVars
<1>1. CASE begin_save
  BY <1>1 DEF begin_save, ClockTypeOK, UsersTypeOK, ReadInv, Says, Verdict, AskedInv, FileInv, AnswerIsRecent
<1>2. ASSUME NEW content \in Contents, end_save(content) PROVE UsersInv'
  <2> USE <1>2 DEF end_save
  <2>1. /\ now \in Times /\ said' \in [Times -> SUBSET Contents] /\ content \in said'[now]
        /\ \A t \in Times : said[t] \subseteq said'[t]
    BY DEF ClockTypeOK, UsersTypeOK
  <2>2. ClockTypeOK' /\ UsersTypeOK'
    BY <2>1 DEF ClockTypeOK, UsersTypeOK
  <2>3. ReadInv'
    BY <2>1 DEF ReadInv, Says, Verdict
  <2>4. AskedInv' /\ FileInv'
    BY <2>1 DEF AskedInv, FileInv
  <2>5. AnswerIsRecent'
    BY <2>1 DEF AnswerIsRecent
  <2> QED
    BY <2>2, <2>3, <2>4, <2>5
<1> QED
  BY <1>1, <1>2

LEMMA TickUsersStep == ASSUME UsersInv, tick PROVE UsersInv'
<1> USE DEF UsersInv
<1>1. /\ now \in Times /\ now' = now + 1 /\ now' \in Times /\ now \in Nat
      /\ said' = [said EXCEPT ![now + 1] = {file} \ {Saving}]
      /\ UNCHANGED <<terminated, file, users, prev_read, users_lock, asking, place, verdict, asked>>
  BY ClockAssumption DEF tick, Tick, ClockTypeOK, Times
<1>2. /\ said' \in [Times -> SUBSET Contents]
      /\ \A t \in Times : t <= now => said'[t] = said[t]
      /\ said'[now'] = {file} \ {Saving}
  <2>1. said \in [Times -> SUBSET Contents] /\ {file} \ {Saving} \in SUBSET Contents /\ now + 1 \in Times
    BY <1>1 DEF UsersTypeOK
  <2>2. \A t \in Times : t <= now => t # now + 1
    BY <1>1, TimesAreNat
  <2> QED
    BY <1>1, <2>1, <2>2
<1>3. ClockTypeOK' /\ UsersTypeOK'
  BY <1>1, <1>2 DEF ClockTypeOK, UsersTypeOK
<1>4. prev_read \in Nat /\ \A p \in Processors : asked[p] \in Nat
  <2>1. prev_read \in {0} \cup Times /\ \A p \in Processors : asked[p] \in {0} \cup Times
    BY DEF UsersTypeOK
  <2> QED
    BY <2>1, TimesAreNat
<1>5. \A t \in Times : t <= now => t <= now'
  BY <1>1, TimesAreNat
<1>6. ReadInv'
  BY <1>1, <1>2, <1>5 DEF ReadInv, Says, Verdict
<1>7. AskedInv' /\ FileInv'
  BY <1>1, <1>2, <1>4 DEF AskedInv, FileInv
<1>8. AnswerIsRecent'
  BY <1>1, <1>2, <1>5 DEF AnswerIsRecent
<1> QED
  BY <1>3, <1>6, <1>7, <1>8

LEMMA UsersElsewhere ==
  ASSUME UsersInv, UNCHANGED <<now, usersVars>>, terminated' \in BOOLEAN PROVE UsersInv'
  BY DEF UsersInv, usersVars, ClockTypeOK, UsersTypeOK, ReadInv, Says, Verdict, AskedInv, FileInv, AnswerIsRecent

LEMMA UsersInitially == ClockInit /\ UsersInit => UsersInv
<1> SUFFICES ASSUME ClockInit, UsersInit PROVE UsersInv
  OBVIOUS
<1> USE DEF ClockInit, UsersInit
<1>1. Start \in Times /\ AnyName \in Names /\ Start \in Nat
  BY ClockAssumption, UsersAssumption DEF Times, AnyName
<1>2. users \in [use_enabled_users : BOOLEAN, users : SUBSET Names]
  BY UsersAssumption DEF Lower
<1>3. said \in [Times -> SUBSET Contents]
  OBVIOUS
<1>4. UsersTypeOK
  BY <1>1, <1>2, <1>3, ClockAssumption DEF UsersTypeOK
<1>5. ClockTypeOK /\ ReadInv /\ AnswerIsRecent
  BY <1>1 DEF ClockTypeOK, ReadInv, AnswerIsRecent
<1>6. AskedInv
  <2>1. \A p \in Processors : asked[p] = 0 /\ place[p] = "out"
    OBVIOUS
  <2>2. now \in Nat /\ 0 <= now
    BY <1>1
  <2> QED
    BY <2>1, <2>2 DEF AskedInv
<1>7. FileInv
  BY <1>1 DEF FileInv
<1> QED
  BY <1>4, <1>5, <1>6, <1>7 DEF UsersInv

------------------------------------------------------------------------------
(* gcloud_at_gen and sample_rate_extractor.                                *)

LEMMA HeadAndTail ==
  ASSUME NEW S, NEW s \in Seq(S), s # <<>> PROVE Head(s) \in S /\ Tail(s) \in Seq(S)
  OBVIOUS

\* Times are numbers, and a token or a line has one.
LEMMA CallsTypes ==
  ASSUME CallsInv
  PROVE  /\ now \in Times /\ now \in Nat /\ prev_gen_time \in Nat
         /\ access_token_generation_interval \in Nat /\ now > access_token_generation_interval
         /\ \A p \in Processors : began[p] \in Nat
         /\ access_token # NoLine => access_token \in Line /\ access_token.printed \in Nat
         /\ \A p \in Processors : given[p] # NoLine => given[p] \in Line /\ given[p].printed \in Nat
<1>1. now \in Times /\ prev_gen_time \in {0} \cup Times /\ \A p \in Processors : began[p] \in {0} \cup Times
  BY DEF CallsInv, ClockTypeOK, CallsTypeOK
<1>2. /\ access_token # NoLine => access_token \in Line
      /\ \A p \in Processors : given[p] # NoLine => given[p] \in Line
  BY DEF CallsInv, CallsTypeOK
<1>3. \A l \in Line : l.printed \in {0} \cup Times
  BY DEF Line
<1> QED
  BY <1>1, <1>2, <1>3, TimesAreNat, CallsAssumption

LEMMA GenerateStep ==
  ASSUME CallsInv, NEW p \in Processors, generate_access_token(p) PROVE CallsInv'
<1> USE DEF CallsInv, generate_access_token, clockVars
<1>1. ClockTypeOK' /\ CallsTypeOK'
  BY DEF ClockTypeOK, CallsTypeOK, Programs, Points
<1>2. TokenInv'
  BY DEF TokenInv, Active, CallsTypeOK
<1>3. CachedTokenIsYoung'
  BY DEF CachedTokenIsYoung, CallsTypeOK
<1> QED
  BY <1>1, <1>2, <1>3

\* A child begins with an empty pipe.
LEMMA ChildTypes ==
  ASSUME CallsInv, NEW p \in Processors, NEW name \in Programs, NEW r \in Runs[name],
         child(p, r, first_point)
  PROVE  /\ lines_left' \in [Processors -> Seq(STRING)] /\ code' \in [Processors -> {0, 1}]
         /\ alive' \in [Processors -> BOOLEAN]
         /\ pipe' \in [Processors -> Seq(Line)] /\ data' \in [Processors -> Seq(STRING)]
         /\ point' = [point EXCEPT ![p] = "running?"]
         /\ Len(pipe'[p]) = 0 /\ \A o \in Processors \ {p} : pipe'[o] = pipe[o]
<1>1. r.lines \in Seq(STRING) /\ r.code \in {0, 1}
  BY CallsAssumption
<1> QED
  BY <1>1 DEF child, first_point, CallsInv, CallsTypeOK

LEMMA LockTokenStep ==
  ASSUME CallsInv, NEW p \in Processors, lock_token(p) PROVE CallsInv'
<1> USE DEF CallsInv, lock_token, clockVars
<1>1. /\ point[p] = "waiting" /\ token_lock = Nobody /\ began' = [began EXCEPT ![p] = now]
      /\ began' \in [Processors -> {0} \cup Times]
      /\ \A o \in Processors : o # p => began'[o] = began[o]
      /\ began'[p] = now
      /\ UNCHANGED <<access_token, prev_gen_time, program, now, terminated>>
  BY DEF ClockTypeOK, CallsTypeOK
<1>2. ClockTypeOK'
  BY DEF ClockTypeOK
<1>3. CASE now - prev_gen_time > access_token_generation_interval
  <2>1. /\ token_lock' = p /\ UNCHANGED <<outcome, given>>
        /\ \E r \in Runs["gcloud"] : child(p, r, first_point)
    BY <1>3
  <2>2. PICK r \in Runs["gcloud"] : child(p, r, first_point)
    BY <2>1
  <2>3. /\ lines_left' \in [Processors -> Seq(STRING)] /\ code' \in [Processors -> {0, 1}]
        /\ alive' \in [Processors -> BOOLEAN]
        /\ pipe' \in [Processors -> Seq(Line)] /\ data' \in [Processors -> Seq(STRING)]
        /\ point' = [point EXCEPT ![p] = "running?"]
        /\ Len(pipe'[p]) = 0 /\ \A o \in Processors \ {p} : pipe'[o] = pipe[o]
    BY <2>2, ChildTypes DEF Programs
  <2>4. program[p] = "gcloud"
    BY <1>1 DEF TokenInv
  <2>5. CallsTypeOK'
    <3>1. ASSUME NEW o \in Processors
          PROVE  (token_lock = o <=> program[o] = "gcloud" /\ point[o] \in {"running?", "getline", "wait"})'
      <4>1. CASE o = p
        BY <1>1, <2>1, <2>3, <2>4, <4>1 DEF CallsTypeOK
      <4>2. CASE o # p
        BY <1>1, <2>1, <2>3, <4>2, ClockAssumption DEF CallsTypeOK
      <4> QED
        BY <4>1, <4>2
    <3>2. point' \in [Processors -> Points] /\ token_lock' \in Processors \cup {Nobody}
      BY <2>1, <2>3 DEF CallsTypeOK, Points
    <3> QED
      BY <1>1, <2>1, <2>3, <3>1, <3>2 DEF CallsTypeOK
  <2>6. TokenInv'
    <3>1. ASSUME NEW o \in Processors
          PROVE  (/\ began[o] <= now
                  /\ point[o] \in {"out", "waiting"} => program[o] = "gcloud"
                  /\ Active(o) /\ program[o] = "gcloud" =>
                       \A i \in 1..Len(pipe[o]) : pipe[o][i].printed >= began[o])'
      <4>1. CASE o = p
        BY <1>1, <2>3, <2>4, <4>1, CallsTypes
      <4>2. CASE o # p
        <5>1. /\ began'[o] = began[o] /\ point'[o] = point[o] /\ program'[o] = program[o]
              /\ pipe'[o] = pipe[o] /\ now' = now
          BY <1>1, <2>3, <4>2 DEF CallsTypeOK
        <5> QED
          BY <5>1 DEF TokenInv, Active
      <4> QED
        BY <4>1, <4>2
    <3> QED
      BY <1>1, <3>1 DEF TokenInv
  <2>7. CachedTokenIsYoung'
    BY <1>1, <2>1, <2>3 DEF CachedTokenIsYoung, CallsTypeOK
  <2> QED
    BY <1>2, <2>5, <2>6, <2>7
<1>4. CASE ~(now - prev_gen_time > access_token_generation_interval)
  <2>1. /\ point' = [point EXCEPT ![p] = "returned"] /\ outcome' = [outcome EXCEPT ![p] = "cached"]
        /\ given' = [given EXCEPT ![p] = access_token]
        /\ UNCHANGED <<token_lock, lines_left, code, alive, pipe, data>>
    BY <1>4 DEF Return
  <2>2. access_token # NoLine /\ now <= access_token.printed + access_token_generation_interval
    BY <1>4, CallsTypes DEF TokenInv
  <2>3. CallsTypeOK'
    BY <1>1, <2>1 DEF CallsTypeOK, Points
  <2>4. TokenInv'
    BY <1>1, <2>1, CallsTypes DEF TokenInv, Active, CallsTypeOK
  <2>5. CachedTokenIsYoung'
    BY <1>1, <2>1, <2>2 DEF CachedTokenIsYoung, CallsTypeOK
  <2> QED
    BY <1>2, <2>3, <2>4, <2>5
<1> QED
  BY <1>3, <1>4

LEMMA ExtractStep ==
  ASSUME CallsInv, NEW p \in Processors, extract_sample_rate(p) PROVE CallsInv'
<1> USE DEF CallsInv, extract_sample_rate, Forget, clockVars
<1>1. PICK r \in Runs["mediainfo"] : child(p, r, first_point)
  OBVIOUS
<1>2. /\ lines_left' \in [Processors -> Seq(STRING)] /\ code' \in [Processors -> {0, 1}]
      /\ alive' \in [Processors -> BOOLEAN]
      /\ pipe' \in [Processors -> Seq(Line)] /\ data' \in [Processors -> Seq(STRING)]
      /\ point' = [point EXCEPT ![p] = "running?"]
      /\ Len(pipe'[p]) = 0 /\ \A o \in Processors \ {p} : pipe'[o] = pipe[o]
  BY <1>1, ChildTypes DEF Programs
<1>3. /\ point[p] = "returned" /\ program[p] = "gcloud" /\ program' = [program EXCEPT ![p] = "mediainfo"]
      /\ began' = [began EXCEPT ![p] = 0] /\ outcome' = [outcome EXCEPT ![p] = "none"]
      /\ given' = [given EXCEPT ![p] = NoLine]
      /\ UNCHANGED <<access_token, prev_gen_time, token_lock, now, terminated>>
  OBVIOUS
<1>4. \A o \in Processors \ {p} :
        /\ point'[o] = point[o] /\ program'[o] = program[o] /\ began'[o] = began[o] /\ pipe'[o] = pipe[o]
  BY <1>2, <1>3 DEF CallsTypeOK
<1>5. point'[p] = "running?" /\ program'[p] = "mediainfo" /\ began'[p] = 0
  BY <1>2, <1>3 DEF CallsTypeOK
<1>6. ClockTypeOK' /\ CallsTypeOK'
  <2>1. ASSUME NEW o \in Processors
        PROVE  (token_lock = o <=> program[o] = "gcloud" /\ point[o] \in {"running?", "getline", "wait"})'
    <3>1. CASE o = p
      BY <1>3, <1>5, <3>1 DEF CallsTypeOK
    <3>2. CASE o # p
      BY <1>3, <1>4, <3>2 DEF CallsTypeOK
    <3> QED
      BY <3>1, <3>2
  <2>2. /\ point' \in [Processors -> Points] /\ program' \in [Processors -> Programs]
        /\ began' \in [Processors -> {0} \cup Times] /\ given' \in [Processors -> Line \cup {NoLine}]
        /\ outcome' \in [Processors -> {"none", "cached", "generated", "failed", "rate"}]
    BY <1>2, <1>3 DEF CallsTypeOK, Programs, Points
  <2> QED
    BY <1>2, <1>3, <2>1, <2>2 DEF ClockTypeOK, CallsTypeOK
<1>7. TokenInv'
  <2>1. now' = now /\ 0 <= now
    BY <1>3, CallsTypes
  <2>2. ASSUME NEW o \in Processors
        PROVE  (/\ began[o] <= now
                /\ point[o] \in {"out", "waiting"} => program[o] = "gcloud"
                /\ Active(o) /\ program[o] = "gcloud" =>
                     \A i \in 1..Len(pipe[o]) : pipe[o][i].printed >= began[o])'
    <3>1. CASE o = p
      BY <1>5, <2>1, <3>1
    <3>2. CASE o # p
      BY <1>4, <2>1, <3>2 DEF TokenInv, Active
    <3> QED
      BY <3>1, <3>2
  <2> QED
    BY <1>3, <2>2 DEF TokenInv
<1>8. CachedTokenIsYoung'
  BY <1>2, <1>3 DEF CachedTokenIsYoung, CallsTypeOK
<1> QED
  BY <1>6, <1>7, <1>8

LEMMA RunningStep ==
  ASSUME CallsInv, NEW p \in Processors, running(p) PROVE CallsInv'
<1> USE DEF CallsInv, running, clockVars
<1>1. ClockTypeOK' /\ CallsTypeOK'
  BY DEF ClockTypeOK, CallsTypeOK, Points
<1>2. TokenInv'
  BY DEF TokenInv, Active, CallsTypeOK
<1>3. CachedTokenIsYoung'
  BY DEF CachedTokenIsYoung, CallsTypeOK
<1> QED
  BY <1>1, <1>2, <1>3

LEMMA GetlineStep ==
  ASSUME CallsInv, NEW p \in Processors, getline(p) PROVE CallsInv'
<1> USE DEF CallsInv, clockVars
<1> DEFINE first == pipe[p][1]
<1>1. /\ point[p] = "getline" /\ pipe[p] \in Seq(Line)
      /\ point' = [point EXCEPT ![p] = point'[p]] /\ point'[p] \in {"wait", "running?"}
      /\ pipe' = [pipe EXCEPT ![p] = IF pipe[p] = <<>> THEN <<>> ELSE Tail(pipe[p])]
      /\ UNCHANGED <<token_lock, program, began, lines_left, code, alive, outcome, given, now, terminated>>
  BY DEF getline, CallsTypeOK
<1>2. \/ UNCHANGED <<access_token, prev_gen_time, data>>
      \/ /\ pipe[p] # <<>> /\ program[p] = "gcloud"
         /\ access_token' = first /\ prev_gen_time' = began[p] /\ UNCHANGED data
      \/ /\ pipe[p] # <<>> /\ data' = [data EXCEPT ![p] = Append(@, first.text)]
         /\ UNCHANGED <<access_token, prev_gen_time>>
  BY DEF getline, gen_time
<1>3. pipe[p] # <<>> => /\ first \in Line /\ Tail(pipe[p]) \in Seq(Line) /\ Len(pipe[p]) \in Nat
                        /\ Len(pipe[p]) > 0 /\ Len(Tail(pipe[p])) = Len(pipe[p]) - 1
                        /\ \A i \in 1..Len(Tail(pipe[p])) : Tail(pipe[p])[i] = pipe[p][i + 1]
  BY <1>1
<1>4. /\ pipe' \in [Processors -> Seq(Line)] /\ \A o \in Processors \ {p} : pipe'[o] = pipe[o]
      /\ pipe'[p] = IF pipe[p] = <<>> THEN <<>> ELSE Tail(pipe[p])
  <2>1. pipe \in [Processors -> Seq(Line)] /\ <<>> \in Seq(Line)
    BY DEF CallsTypeOK
  <2> QED
    BY <1>1, <1>3, <2>1
<1>5. data' \in [Processors -> Seq(STRING)]
  <2>1. pipe[p] # <<>> => first.text \in STRING
    BY <1>3 DEF Line
  <2>2. data \in [Processors -> Seq(STRING)] /\ data[p] \in Seq(STRING)
    BY DEF CallsTypeOK
  <2>3. pipe[p] # <<>> => Append(data[p], first.text) \in Seq(STRING)
    BY <2>1, <2>2
  <2> QED
    BY <1>2, <2>2, <2>3
<1>6. \A i \in 1..Len(pipe'[p]) : pipe[p] # <<>> /\ i + 1 \in 1..Len(pipe[p]) /\ pipe'[p][i] = pipe[p][i + 1]
  BY <1>3, <1>4
<1>7. pipe[p] # <<>> => 1 \in 1..Len(pipe[p])
  BY <1>3
<1>8. first \in Line => first # NoLine /\ first.printed \in Nat
  BY CallsAssumption, TimesAreNat DEF Line
<1> HIDE DEF first
<1>9. /\ access_token' \in Line \cup {NoLine} /\ prev_gen_time' \in {0} \cup Times
  BY <1>2, <1>3 DEF CallsTypeOK
<1>10. ClockTypeOK' /\ CallsTypeOK'
  BY <1>1, <1>4, <1>5, <1>9 DEF ClockTypeOK, CallsTypeOK, Points
<1>11. TokenInv'
  <2>1. /\ prev_gen_time' <= now'
        /\ prev_gen_time' # 0 => access_token' # NoLine
        /\ access_token' # NoLine => access_token'.printed >= prev_gen_time'
    <3>1. CASE UNCHANGED <<access_token, prev_gen_time>>
      BY <1>1, <3>1 DEF TokenInv
    <3>2. CASE pipe[p] # <<>> /\ program[p] = "gcloud" /\ access_token' = first /\ prev_gen_time' = began[p]
      <4>1. first.printed >= began[p] /\ began[p] <= now
        BY <1>1, <1>7, <3>2 DEF TokenInv, Active, first
      <4> QED
        BY <1>1, <1>3, <1>8, <3>2, <4>1
    <3> QED
      BY <1>2, <3>1, <3>2
  <2>2. ASSUME NEW o \in Processors, Active(o)', program[o] = "gcloud", NEW i \in 1..Len(pipe'[o])
        PROVE  pipe'[o][i].printed >= began[o]
    <3>1. CASE o = p
      BY <1>1, <1>6, <2>2, <3>1 DEF TokenInv, Active
    <3>2. CASE o # p
      BY <1>1, <1>4, <2>2, <3>2 DEF TokenInv, Active, CallsTypeOK
    <3> QED
      BY <3>1, <3>2
  <2>3. \A o \in Processors : point'[o] \in {"out", "waiting"} => program[o] = "gcloud"
    BY <1>1 DEF TokenInv, CallsTypeOK
  <2> QED
    BY <1>1, <2>1, <2>2, <2>3 DEF TokenInv
<1>12. CachedTokenIsYoung'
  BY <1>1 DEF CachedTokenIsYoung, CallsTypeOK
<1> QED
  BY <1>10, <1>11, <1>12

LEMMA WaitStep ==
  ASSUME CallsInv, NEW p \in Processors, wait(p) PROVE CallsInv'
<1> USE DEF CallsInv, wait
<1>1. \/ /\ UNCHANGED <<point, outcome, given, token_lock>> /\ terminated' = TRUE
      \/ /\ point' = [point EXCEPT ![p] = "returned"] /\ UNCHANGED terminated
         /\ \E how \in {"generated", "failed", "rate"} : outcome' = [outcome EXCEPT ![p] = how]
         /\ given' \in [Processors -> Line \cup {NoLine}]
         /\ \A o \in Processors \ {p} : given'[o] = given[o]
         /\ token_lock' = IF program[p] = "gcloud" THEN Nobody ELSE token_lock
  <2>1. CASE wait_gcloud(p)
    <3>1. /\ program[p] = "gcloud" /\ token_lock' = Nobody /\ UNCHANGED terminated
          /\ point' = [point EXCEPT ![p] = "returned"]
          /\ \E how \in {"generated", "failed", "rate"} : outcome' = [outcome EXCEPT ![p] = how]
          /\ \E token \in {access_token, NoLine} : given' = [given EXCEPT ![p] = token]
      BY <2>1 DEF wait_gcloud, Return
    <3>2. /\ given' \in [Processors -> Line \cup {NoLine}]
          /\ \A o \in Processors \ {p} : given'[o] = given[o]
      BY <3>1 DEF CallsTypeOK
    <3> QED
      BY <3>1, <3>2
  <2>2. CASE wait_mediainfo(p)
    BY <2>2 DEF wait_mediainfo, Return, CallsTypeOK
  <2> QED
    BY <2>1, <2>2
<1>2. CASE UNCHANGED <<point, outcome, given, token_lock>> /\ terminated' = TRUE
  BY <1>2 DEF ClockTypeOK, CallsTypeOK, TokenInv, Active, CachedTokenIsYoung
<1>3. ASSUME NEW how \in {"generated", "failed", "rate"},
             point' = [point EXCEPT ![p] = "returned"], UNCHANGED terminated,
             outcome' = [outcome EXCEPT ![p] = how],
             given' \in [Processors -> Line \cup {NoLine}],
             \A o \in Processors \ {p} : given'[o] = given[o],
             token_lock' = IF program[p] = "gcloud" THEN Nobody ELSE token_lock
      PROVE  CallsInv'
  <2>1. point[p] = "wait"
    OBVIOUS
  <2>2. ClockTypeOK' /\ CallsTypeOK'
    BY <1>3, <2>1, ClockAssumption DEF ClockTypeOK, CallsTypeOK, Points
  <2>3. TokenInv'
    BY <1>3 DEF TokenInv, Active, CallsTypeOK
  <2>4. CachedTokenIsYoung'
    BY <1>3 DEF CachedTokenIsYoung, CallsTypeOK
  <2> QED
    BY <2>2, <2>3, <2>4
<1> QED
  BY <1>1, <1>2, <1>3

LEMMA FinishStep ==
  ASSUME CallsInv, NEW p \in Processors, finish(p) PROVE CallsInv'
<1> USE DEF CallsInv, finish, Forget, clockVars
<1>1. ClockTypeOK' /\ CallsTypeOK'
  BY ClockAssumption DEF ClockTypeOK, CallsTypeOK, Programs, Points
<1>2. TokenInv'
  BY CallsTypes DEF TokenInv, Active, CallsTypeOK
<1>3. CachedTokenIsYoung'
  BY DEF CachedTokenIsYoung, CallsTypeOK
<1> QED
  BY <1>1, <1>2, <1>3

\* gcloud prints after it has been started, so after its call began.
LEMMA PrintStep ==
  ASSUME CallsInv, NEW p \in Processors, print(p) PROVE CallsInv'
<1> USE DEF CallsInv, clockVars
<1> DEFINE line == [text |-> Head(lines_left[p]), printed |-> IF program[p] = "gcloud" THEN now ELSE 0]
<1>1. /\ lines_left[p] \in Seq(STRING) /\ lines_left[p] # <<>> /\ pipe[p] \in Seq(Line)
      /\ pipe' = [pipe EXCEPT ![p] = Append(@, line)]
      /\ lines_left' = [lines_left EXCEPT ![p] = Tail(@)]
      /\ UNCHANGED <<access_token, prev_gen_time, token_lock, program, point, began, code, alive,
                     data, outcome, given, now, terminated>>
  BY DEF print, CallsTypeOK
<1>2. Head(lines_left[p]) \in STRING /\ Tail(lines_left[p]) \in Seq(STRING)
  BY <1>1, HeadAndTail
<1>3. line \in Line /\ (program[p] = "gcloud" => line.printed = now)
  BY <1>2 DEF Line, ClockTypeOK
<1> HIDE DEF line
<1>4. /\ Append(pipe[p], line) \in Seq(Line) /\ Len(pipe[p]) \in Nat
      /\ Len(Append(pipe[p], line)) = Len(pipe[p]) + 1
      /\ Append(pipe[p], line)[Len(pipe[p]) + 1] = line
      /\ \A i \in 1..Len(pipe[p]) : Append(pipe[p], line)[i] = pipe[p][i]
  BY <1>1, <1>3
<1>5. /\ pipe' \in [Processors -> Seq(Line)] /\ lines_left' \in [Processors -> Seq(STRING)]
      /\ pipe'[p] = Append(pipe[p], line) /\ \A o \in Processors \ {p} : pipe'[o] = pipe[o]
  BY <1>1, <1>2, <1>4 DEF CallsTypeOK
<1>6. ClockTypeOK' /\ CallsTypeOK'
  BY <1>1, <1>5 DEF ClockTypeOK, CallsTypeOK
<1>7. TokenInv'
  <2>1. ASSUME NEW o \in Processors, Active(o), program[o] = "gcloud", NEW i \in 1..Len(pipe'[o])
        PROVE  pipe'[o][i].printed >= began[o]
    <3>1. CASE o = p /\ i = Len(pipe[p]) + 1
      BY <1>3, <1>4, <1>5, <2>1, <3>1, CallsTypes DEF TokenInv
    <3>2. CASE o = p /\ i # Len(pipe[p]) + 1
      <4>1. i \in 1..Len(pipe[p])
        BY <1>4, <1>5, <2>1, <3>2
      <4> QED
        BY <1>4, <1>5, <2>1, <3>2, <4>1 DEF TokenInv
    <3>3. CASE o # p
      BY <1>5, <2>1, <3>3 DEF TokenInv
    <3> QED
      BY <3>1, <3>2, <3>3
  <2> QED
    BY <1>1, <2>1 DEF TokenInv, Active
<1>8. CachedTokenIsYoung'
  BY <1>1 DEF CachedTokenIsYoung
<1> QED
  BY <1>6, <1>7, <1>8

LEMMA ExitStep ==
  ASSUME CallsInv, NEW p \in Processors, exit(p) PROVE CallsInv'
  BY DEF CallsInv, exit, clockVars, ClockTypeOK, CallsTypeOK, TokenInv, Active, CachedTokenIsYoung

LEMMA TickCallsStep == ASSUME CallsInv, tick PROVE CallsInv'
<1> USE DEF CallsInv, callsVars
<1>1. /\ now' = now + 1 /\ now' \in Times /\ UNCHANGED <<terminated, callsVars>>
  BY ClockAssumption DEF tick, Tick, ClockTypeOK, Times
<1>2. ClockTypeOK' /\ CallsTypeOK'
  BY <1>1 DEF ClockTypeOK, CallsTypeOK
<1>3. TokenInv'
  BY <1>1, CallsTypes DEF TokenInv, Active
<1>4. CachedTokenIsYoung'
  BY <1>1 DEF CachedTokenIsYoung
<1> QED
  BY <1>2, <1>3, <1>4

LEMMA CallsElsewhere ==
  ASSUME CallsInv, UNCHANGED <<now, callsVars>>, terminated' \in BOOLEAN PROVE CallsInv'
  BY DEF CallsInv, callsVars, ClockTypeOK, CallsTypeOK, TokenInv, Active, CachedTokenIsYoung

LEMMA CallsInitially == ClockInit /\ CallsInit => CallsInv
<1> SUFFICES ASSUME ClockInit, CallsInit PROVE CallsInv
  OBVIOUS
<1> USE DEF ClockInit, CallsInit
<1>1. Start \in Times /\ Start \in Nat
  BY ClockAssumption DEF Times
<1>2. pipe \in [Processors -> Seq(Line)] /\ \A p \in Processors : began[p] = 0 /\ point[p] = "out"
  OBVIOUS
<1>3. ClockTypeOK /\ CallsTypeOK
  <2>1. /\ lines_left \in [Processors -> Seq(STRING)] /\ data \in [Processors -> Seq(STRING)]
        /\ program \in [Processors -> Programs] /\ point \in [Processors -> Points]
    BY DEF Programs, Points
  <2>2. \A p \in Processors :
          token_lock = p <=> program[p] = "gcloud" /\ point[p] \in {"running?", "getline", "wait"}
    BY ClockAssumption
  <2> QED
    BY <1>1, <1>2, <2>1, <2>2 DEF ClockTypeOK, CallsTypeOK
<1>4. TokenInv
  BY <1>1, <1>2 DEF TokenInv, Active
<1>5. CachedTokenIsYoung
  BY <1>2 DEF CachedTokenIsYoung
<1> QED
  BY <1>3, <1>4, <1>5 DEF CallsInv

------------------------------------------------------------------------------
(* Together.                                                               *)

LEMMA Counted == ASSUME NEW k, Count(k) PROVE counts' \in Nat \X Nat \X Nat
  BY BoundsAssumption DEF Count

LEMMA NextStep == ASSUME Inv, Next PROVE Inv'
<1> USE DEF Inv
<1>1. ASSUME NEW p \in Processors, UsersStep(p) PROVE Inv'
  <2>1. UsersInv'
    BY <1>1, LockUsersStep, FillStep, LookStep, LeaveStep DEF UsersStep
  <2>2. CallsInv'
    BY <1>1, <2>1, CallsElsewhere
       DEF UsersStep, UsersInv, ClockTypeOK, lock_users, fill_enabled_users, look, leave, clockVars
  <2> QED
    BY <1>1, <2>1, <2>2 DEF UsersStep
<1>2. ASSUME NEW p \in Processors, CallsStep(p) PROVE Inv'
  <2>1. CallsInv'
    BY <1>2, LockTokenStep, ExtractStep, RunningStep, GetlineStep, WaitStep, FinishStep DEF CallsStep
  <2>2. UNCHANGED now
    BY <1>2 DEF CallsStep, lock_token, extract_sample_rate, running, getline, wait, finish, clockVars
  <2>3. UsersInv'
    BY <1>2, <2>1, <2>2, UsersElsewhere DEF CallsStep, CallsInv, ClockTypeOK
  <2> QED
    BY <1>2, <2>1, <2>3 DEF CallsStep
<1>3. ASSUME NEW p \in Processors, Child(p) PROVE Inv'
  <2>1. CallsInv'
    BY <1>3, PrintStep, ExitStep DEF Child
  <2>2. UNCHANGED now
    BY <1>3 DEF Child, print, exit, clockVars
  <2>3. UsersInv'
    BY <1>3, <2>1, <2>2, UsersElsewhere DEF Child, CallsInv, ClockTypeOK
  <2> QED
    BY <1>3, <2>1, <2>3 DEF Child
<1>4. ASSUME NEW p \in Processors, get_google_recognize_req(p) PROVE Inv'
  <2>1. CallsInv' /\ UNCHANGED clockVars
    BY <1>4, GenerateStep DEF get_google_recognize_req, generate_access_token
  <2>2. UsersInv'
    BY <1>4, <2>1, UsersElsewhere DEF get_google_recognize_req, clockVars, UsersInv, ClockTypeOK
  <2> QED
    BY <1>4, <2>1, <2>2, Counted DEF get_google_recognize_req
<1>5. ASSUME NEW p \in Processors, NEW n \in Names, process_voice_message(p, n) PROVE Inv'
  <2>1. UsersInv' /\ UNCHANGED clockVars
    BY <1>5, ContainsStep DEF process_voice_message, contains
  <2>2. CallsInv'
    BY <1>5, <2>1, CallsElsewhere DEF process_voice_message, clockVars, CallsInv, ClockTypeOK
  <2> QED
    BY <1>5, <2>1, <2>2, Counted DEF process_voice_message
<1>6. CASE Operator
  <2>1. UsersInv' /\ UNCHANGED clockVars
    BY <1>6, OperatorStep DEF Operator, begin_save, end_save
  <2>2. CallsInv'
    BY <1>6, <2>1, CallsElsewhere DEF Operator, clockVars, CallsInv, ClockTypeOK
  <2> QED
    BY <1>6, <2>1, <2>2, Counted DEF Operator
<1>7. CASE tick
  BY <1>7, TickUsersStep, TickCallsStep DEF tick
<1> QED
  BY <1>1, <1>2, <1>3, <1>4, <1>5, <1>6, <1>7 DEF Next

LEMMA Invariance == Spec => []Inv
<1>1. Init => Inv
  <2>1. Init => counts \in Nat \X Nat \X Nat
    BY DEF Init
  <2> QED
    BY <2>1, UsersInitially, CallsInitially DEF Init, Inv
<1>2. Inv /\ [Next]_vars => Inv'
  <2> SUFFICES ASSUME Inv, [Next]_vars PROVE Inv'
    OBVIOUS
  <2>1. CASE UNCHANGED vars
    <3>1. UNCHANGED <<now, usersVars, callsVars, counts, terminated>>
      BY <2>1 DEF vars, clockVars
    <3>2. terminated' \in BOOLEAN
      BY <3>1 DEF Inv, UsersInv, ClockTypeOK
    <3> QED
      BY <3>1, <3>2, UsersElsewhere, CallsElsewhere DEF Inv
  <2> QED
    BY <2>1, NextStep
<1> QED
  BY <1>1, <1>2, PTL DEF Spec

\* Every variable keeps its type, and each mutex has the owner its calls say.
THEOREM TypeCorrect == Spec => []TypeOK
<1>1. Inv => TypeOK
  BY DEF Inv, UsersInv, CallsInv, TypeOK
<1> QED
  BY <1>1, Invariance, PTL

\* What contains returns the file has said within the interval.
THEOREM AnswersAreRecent == Spec => []AnswerIsRecent
<1>1. Inv => AnswerIsRecent
  BY DEF Inv, UsersInv
<1> QED
  BY <1>1, Invariance, PTL

\* A token that is used again is no older than the interval.
THEOREM CachedTokensAreYoung == Spec => []CachedTokenIsYoung
<1>1. Inv => CachedTokenIsYoung
  BY DEF Inv, CallsInv
<1> QED
  BY <1>1, Invariance, PTL
==============================================================================
