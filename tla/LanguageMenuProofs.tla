-------------------------- MODULE LanguageMenuProofs --------------------------
(***************************************************************************)
(* The language of recognition, for any number of processors, rows and     *)
(* languages: what the locks of SQLite and the queue leave of a user's     *)
(* choice.                                                                 *)
(***************************************************************************)
EXTENDS LanguageMenu, TLAPS

\* The statement of a connection is that of the job of its processor.
JobInv ==
  \A c \in Connections :
    /\ at[c] = "closed" => call[c].stmt = "create"
    /\ job[c] = NoJob => at[c] \in {"closed", "failed", "idle"} \/ call[c].stmt = "create"
    /\ Handles(c, "command") => at[c] = "idle"
    /\ Handles(c, "callback_query") =>
         /\ call[c].stmt = "insert"
         /\ call[c].row = job[c].row /\ call[c].language = job[c].language
    /\ Handles(c, "recognize") =>
         /\ call[c].stmt = "select" /\ call[c].row = job[c].row
         /\ at[c] \in {"idle", "begun", "shared", "busy"}

\* What a connection holds follows from where its statement is.
LockInv ==
  \A c \in Connections :
    /\ at[c] \in {"closed", "failed", "idle", "begun"} => lock[c] = "none"
    /\ at[c] \in {"shared", "reserved", "exclusive"} => lock[c] = at[c]
    /\ at[c] = "busy" => lock[c] \in {"none", "shared", "pending"}
    /\ at[c] = "busy" /\ call[c].stmt = "select" => lock[c] = "none"

\* Of two jobs that are on the file together, each has met the other.
MetInv ==
  \A c \in Connections : \A d \in Connections \ {c} :
    /\ Handles(c, "recognize") /\ Writes(d) => overlaps[c]
    /\ Handles(c, "callback_query") /\ (Writes(d) \/ Handles(d, "recognize")) => overlaps[c]

\* A button that meets nobody is written, and it is the last of its row.
ButtonInv ==
  \A c \in Connections :
    /\ Handles(c, "callback_query") => unsure[job[c].row]
    /\ Handles(c, "callback_query") /\ ~overlaps[c] =>
         /\ at[c] # "busy"
         /\ Chosen(job[c].row) = job[c].language
         /\ at[c] = "idle" => table[job[c].row] = job[c].language

\* A select that meets nobody reads what the table still has.
VoiceInv ==
  \A c \in Connections :
    Handles(c, "recognize") /\ ~overlaps[c] =>
      /\ at[c] # "busy"
      /\ at[c] = "idle" => language[c] = found(job[c].row)

\* The table has the choice of every row that is not unsure.
SureInv == \A r \in Rows : ~unsure[r] => found(r) = Chosen(r)

\* Whatever is in the table or on its way to it was chosen for its row.
OwnInv ==
  /\ \A r \in Rows : table[r] = NoRow \/ WasChosen(r, table[r])
  /\ \A c \in Connections :
       Handles(c, "callback_query") => WasChosen(job[c].row, job[c].language)

Inv ==
  /\ TypeOK /\ JobInv /\ LockInv /\ MetInv /\ ButtonInv /\ VoiceInv /\ SureInv /\ OwnInv /\ OwnLanguage

------------------------------------------------------------------------------
(* Types of jobs and what appending does to the choices of a row.          *)

LEMMA JobTypes ==
  ASSUME TypeOK, NEW c \in Connections
  PROVE  /\ Handles(c, "callback_query") => job[c].row \in Rows /\ job[c].language \in Languages
         /\ Handles(c, "recognize") => job[c].row \in Rows
         /\ job[c] = NoJob \/ Handles(c, "command") \/ Handles(c, "callback_query") \/ Handles(c, "recognize")
  BY DEF TypeOK, Handles, Job, Command, Button, Voice

LEMMA Appended ==
  ASSUME choices \in [Rows -> Seq(Languages)], NEW r \in Rows, NEW l \in Languages,
         choices' = [choices EXCEPT ![r] = Append(@, l)]
  PROVE  /\ Chosen(r)' = l /\ WasChosen(r, l)'
         /\ \A s \in Rows \ {r} : Chosen(s)' = Chosen(s)
         /\ \A s \in Rows : \A k : WasChosen(s, k) => WasChosen(s, k)'
<1>1. /\ choices[r] \in Seq(Languages) /\ choices'[r] = Append(choices[r], l)
      /\ \A s \in Rows \ {r} : choices'[s] = choices[s]
  OBVIOUS
<1>2. /\ Len(choices'[r]) = Len(choices[r]) + 1 /\ Len(choices[r]) \in Nat
      /\ choices'[r][Len(choices[r]) + 1] = l
      /\ \A i \in 1..Len(choices[r]) : choices'[r][i] = choices[r][i]
  BY <1>1
<1>3. choices'[r] # <<>>
  BY <1>2
<1>4. Chosen(r)' = l /\ WasChosen(r, l)'
  BY <1>2, <1>3 DEF Chosen, WasChosen
<1>5. \A s \in Rows \ {r} : Chosen(s)' = Chosen(s)
  BY <1>1 DEF Chosen
<1>6. ASSUME NEW s \in Rows, NEW k, WasChosen(s, k) PROVE WasChosen(s, k)'
  BY <1>1, <1>2, <1>6 DEF WasChosen
<1> QED
  BY <1>4, <1>5, <1>6

\* Who holds a lock is on the file.
LEMMA LockHolders ==
  ASSUME Inv, NEW d \in Connections
  PROVE  /\ lock[d] \in {"reserved", "pending", "exclusive"} => Writes(d)
         /\ lock[d] # "none" => Writes(d) \/ Handles(d, "recognize")
  BY JobTypes DEF Inv, TypeOK, SettingsTypeOK, JobInv, LockInv, Writes, Opening, Places, Locks

\* A job that has met nobody finds no lock in its way.
LEMMA NothingInTheWay ==
  ASSUME Inv, NEW c \in Connections, ~overlaps[c]
  PROVE  /\ Handles(c, "callback_query") => ~Held(c, Locks \ {"none"})
         /\ Handles(c, "recognize") => ~Held(c, {"pending", "exclusive"})
  BY LockHolders DEF Inv, MetInv, Held

------------------------------------------------------------------------------
(* The statements.                                                         *)

\* A statement moves one connection on, and nobody's job.
Moves(c, place, l) ==
  /\ Inv /\ c \in Connections /\ place \in Places /\ l \in Locks
  /\ at[c] \notin {"closed", "failed", "idle"}
  /\ Move(c, place, l) /\ UNCHANGED <<call, menuVars>>

\* What follows wherever it moves.
LEMMA Moved ==
  ASSUME NEW c, NEW place, NEW l, Moves(c, place, l),
         created' \in BOOLEAN, table' \in [Rows -> Languages \cup {NoRow}],
         language' \in [Connections -> Languages],
         place = "closed" => FALSE,
         place = "failed" => call[c].stmt = "create",
         call[c].stmt = "select" => place \in {"idle", "shared", "busy"},
         place \in {"closed", "failed", "idle", "begun"} => l = "none",
         place \in {"shared", "reserved", "exclusive"} => l = place,
         place = "busy" => l \in {"none", "shared", "pending"},
         place = "busy" /\ call[c].stmt = "select" => l = "none"
  PROVE  /\ TypeOK' /\ JobInv' /\ LockInv' /\ MetInv'
         /\ UNCHANGED job
         /\ \A r \in Rows : Chosen(r)' = Chosen(r)
         /\ \A r \in Rows : \A k : WasChosen(r, k)' <=> WasChosen(r, k)
<1> USE DEF Moves, Inv, Move, menuVars
<1>1. TypeOK'
  <2>1. SettingsTypeOK'
    BY DEF TypeOK, SettingsTypeOK
  <2>2. ASSUME NEW d \in Connections, job'[d] # NoJob PROVE at'[d] \notin {"closed", "failed"}
    BY <2>2, JobTypes DEF TypeOK, SettingsTypeOK, JobInv
  <2> QED
    BY <2>1, <2>2 DEF TypeOK
<1>2. UNCHANGED <<job, call, overlaps>>
  OBVIOUS
<1>3. JobInv'
  BY <1>2 DEF JobInv, TypeOK, SettingsTypeOK, Handles
<1>4. LockInv'
  BY DEF LockInv, TypeOK, SettingsTypeOK
<1>5. \A d \in Connections : Writes(d)' => Writes(d)
  BY <1>2 DEF Writes, Opening, Handles, TypeOK, SettingsTypeOK
<1>6. MetInv'
  BY <1>2, <1>5 DEF MetInv, Handles
<1>7. /\ \A r \in Rows : Chosen(r)' = Chosen(r)
      /\ \A r \in Rows : \A k : WasChosen(r, k)' <=> WasChosen(r, k)
  BY DEF Chosen, WasChosen
<1> QED
  BY <1>1, <1>2, <1>3, <1>4, <1>6, <1>7

\* A statement that goes on or is refused has read and written nothing.
LEMMA OnTheWay ==
  ASSUME NEW c, NEW place, NEW l, Moves(c, place, l), UNCHANGED <<created, table, language>>,
         place \in {"shared", "reserved", "exclusive", "busy"},
         call[c].stmt = "select" => place \in {"shared", "busy"},
         place \in {"shared", "reserved", "exclusive"} => l = place,
         place = "busy" => l \in {"none", "shared", "pending"},
         place = "busy" /\ call[c].stmt = "select" => l = "none",
         place = "busy" /\ ~overlaps[c] => ~Handles(c, "callback_query") /\ ~Handles(c, "recognize")
  PROVE  Inv'
<1>1. /\ TypeOK' /\ JobInv' /\ LockInv' /\ MetInv'
      /\ UNCHANGED job
      /\ \A r \in Rows : Chosen(r)' = Chosen(r)
      /\ \A r \in Rows : \A k : WasChosen(r, k)' <=> WasChosen(r, k)
  BY Moved DEF Moves, Inv, TypeOK, SettingsTypeOK
<1>2. /\ Inv /\ c \in Connections /\ UNCHANGED <<job, overlaps, unsure, table, language>>
      /\ at' = [at EXCEPT ![c] = place] /\ at \in [Connections -> Places]
  BY DEF Moves, Inv, TypeOK, SettingsTypeOK, Move, menuVars
<1>3. ButtonInv'
  BY <1>1, <1>2, JobTypes DEF Inv, ButtonInv, Handles
<1>4. VoiceInv'
  BY <1>1, <1>2 DEF Inv, VoiceInv, Handles, found
<1>5. SureInv'
  BY <1>1, <1>2 DEF Inv, SureInv, found
<1>6. OwnInv'
  BY <1>1, <1>2, JobTypes DEF Inv, OwnInv, Handles
<1>7. OwnLanguage'
  BY <1>1, <1>2, JobTypes DEF Inv, OwnLanguage, Recognizing, Handles
<1> QED
  BY <1>1, <1>3, <1>4, <1>5, <1>6, <1>7 DEF Inv

LEMMA LockSharedStep ==
  ASSUME Inv, NEW c \in Connections, lock_shared(c), UNCHANGED menuVars PROVE Inv'
<1>1. CASE Held(c, {"pending", "exclusive"})
  <2>1. Moves(c, "busy", "none")
    BY <1>1 DEF lock_shared, refused, Moves, Places, Locks
  <2>2. overlaps[c] \/ (~Handles(c, "callback_query") /\ ~Handles(c, "recognize"))
    BY <1>1, NothingInTheWay DEF Held, Locks
  <2> QED
    BY <2>1, <2>2, OnTheWay DEF lock_shared
<1>2. CASE ~Held(c, {"pending", "exclusive"})
  <2>1. Moves(c, "shared", "shared")
    BY <1>2 DEF lock_shared, Moves, Places, Locks
  <2> QED
    BY <2>1, OnTheWay DEF lock_shared
<1> QED
  BY <1>1, <1>2

LEMMA LockReservedStep ==
  ASSUME Inv, NEW c \in Connections, lock_reserved(c), UNCHANGED menuVars PROVE Inv'
<1>1. call[c].stmt # "select" /\ ~Handles(c, "recognize")
  BY DEF lock_reserved, Reads, Inv, JobInv
<1>2. CASE Held(c, {"reserved", "pending", "exclusive"})
  <2>1. Moves(c, "busy", "shared")
    BY <1>2 DEF lock_reserved, refused, Moves, Places, Locks
  <2>2. overlaps[c] \/ ~Handles(c, "callback_query")
    BY <1>2, NothingInTheWay DEF Held, Locks
  <2> QED
    BY <1>1, <2>1, <2>2, OnTheWay DEF lock_reserved
<1>3. CASE ~Held(c, {"reserved", "pending", "exclusive"})
  <2>1. Moves(c, "reserved", "reserved")
    BY <1>3 DEF lock_reserved, Moves, Places, Locks
  <2> QED
    BY <1>1, <2>1, OnTheWay DEF lock_reserved
<1> QED
  BY <1>2, <1>3

LEMMA LockExclusiveStep ==
  ASSUME Inv, NEW c \in Connections, lock_exclusive(c), UNCHANGED menuVars PROVE Inv'
<1>1. call[c].stmt # "select" /\ ~Handles(c, "recognize")
  BY JobTypes DEF lock_exclusive, Inv, JobInv
<1>2. CASE Held(c, Locks \ {"none"})
  <2>1. Moves(c, "busy", "pending")
    BY <1>2 DEF lock_exclusive, refused, Moves, Places, Locks
  <2>2. overlaps[c] \/ ~Handles(c, "callback_query")
    BY <1>2, NothingInTheWay
  <2> QED
    BY <1>1, <2>1, <2>2, OnTheWay DEF lock_exclusive
<1>3. CASE ~Held(c, Locks \ {"none"})
  <2>1. Moves(c, "exclusive", "exclusive")
    BY <1>3 DEF lock_exclusive, Moves, Places, Locks
  <2> QED
    BY <1>1, <2>1, OnTheWay DEF lock_exclusive
<1> QED
  BY <1>2, <1>3

\* A reader that meets nobody gets what the table says.
LEMMA ReadStep == ASSUME Inv, NEW c \in Connections, read(c), UNCHANGED menuVars PROVE Inv'
<1>1. Moves(c, "idle", "none")
  BY DEF read, Moves, Places, Locks
<1>2. /\ language' \in [Connections -> Languages]
      /\ \A d \in Connections \ {c} : language'[d] = language[d]
      /\ Handles(c, "recognize") => language'[c] = found(job[c].row)
      /\ UNCHANGED <<created, table, job, overlaps, unsure>>
  BY JobTypes, SettingsAssumption
     DEF read, found, Inv, TypeOK, SettingsTypeOK, JobInv, Call, menuVars
<1>3. /\ TypeOK' /\ JobInv' /\ LockInv' /\ MetInv'
      /\ \A r \in Rows : Chosen(r)' = Chosen(r)
      /\ \A r \in Rows : \A k : WasChosen(r, k)' <=> WasChosen(r, k)
  BY <1>1, <1>2, Moved DEF Inv, TypeOK, SettingsTypeOK
<1>4. ~Handles(c, "callback_query")
  BY DEF read, Reads, Inv, JobInv
<1>5. at' = [at EXCEPT ![c] = "idle"] /\ at \in [Connections -> Places]
  BY DEF read, Move, Inv, TypeOK, SettingsTypeOK
<1>6. ButtonInv'
  BY <1>2, <1>3, <1>4, <1>5, JobTypes DEF Inv, ButtonInv, Handles
<1>7. VoiceInv'
  BY <1>2, <1>5 DEF Inv, VoiceInv, Handles, found
<1>8. SureInv'
  BY <1>2, <1>3 DEF Inv, SureInv, found
<1>9. OwnInv'
  BY <1>2, <1>3, JobTypes DEF Inv, OwnInv, Handles
<1>10. OwnLanguage'
  <2> SUFFICES ASSUME NEW d \in Connections, Recognizing(d)'
               PROVE  (language[d] = Default \/ WasChosen(job[d].row, language[d]))'
    BY DEF OwnLanguage
  <2>1. CASE d = c
    <3>1. job[c].row \in Rows /\ job'[c] = job[c]
      BY <1>2, <2>1, JobTypes DEF Recognizing, Handles, Inv
    <3>2. language'[c] = Default \/ WasChosen(job[c].row, language'[c])
      BY <1>2, <2>1, <3>1 DEF Inv, OwnInv, found, Recognizing, Handles
    <3> QED
      BY <1>3, <2>1, <3>1, <3>2 DEF WasChosen, menuVars
  <2>2. CASE d # c
    <3>1. Recognizing(d) /\ job[d].row \in Rows /\ language'[d] = language[d]
      BY <1>2, <1>5, <2>2, JobTypes DEF Recognizing, Handles, Inv
    <3> QED
      BY <1>2, <1>3, <3>1 DEF Inv, OwnLanguage, WasChosen, menuVars
  <2> QED
    BY <2>1, <2>2
<1> QED
  BY <1>3, <1>6, <1>7, <1>8, <1>9, <1>10 DEF Inv

\* A button that meets nobody is the only one that writes.
LEMMA CommitStep == ASSUME Inv, NEW c \in Connections, commit(c), UNCHANGED menuVars PROVE Inv'
<1>1. Moves(c, "idle", "none")
  BY DEF commit, Moves, Places, Locks
<1>2. UNCHANGED <<job, overlaps, unsure, language, choices>>
  BY DEF commit, menuVars
<1>3. at[c] = "exclusive" /\ at' = [at EXCEPT ![c] = "idle"] /\ at \in [Connections -> Places]
  BY DEF commit, Move, Inv, TypeOK, SettingsTypeOK
<1>4. Opening(c) \/ Handles(c, "callback_query")
  BY <1>3, JobTypes DEF Inv, JobInv, Opening
<1>5. ~Handles(c, "recognize")
  BY <1>3 DEF Inv, JobInv
<1>6. CASE UNCHANGED table /\ created' = TRUE /\ ~Handles(c, "callback_query")
  <2>1. /\ TypeOK' /\ JobInv' /\ LockInv' /\ MetInv'
        /\ \A r \in Rows : Chosen(r)' = Chosen(r)
        /\ \A r \in Rows : \A k : WasChosen(r, k)' <=> WasChosen(r, k)
    BY <1>1, <1>2, <1>6, Moved DEF Inv, TypeOK, SettingsTypeOK
  <2>2. ButtonInv'
    BY <1>2, <1>3, <1>6, <2>1, JobTypes DEF Inv, ButtonInv, Handles
  <2>3. VoiceInv'
    BY <1>2, <1>3, <1>5, <1>6 DEF Inv, VoiceInv, Handles, found
  <2>4. SureInv'
    BY <1>2, <1>6, <2>1 DEF Inv, SureInv, found
  <2>5. OwnInv'
    BY <1>2, <1>6, <2>1, JobTypes DEF Inv, OwnInv, Handles
  <2>6. OwnLanguage'
    BY <1>2, <1>3, <1>5, <2>1, JobTypes DEF Inv, OwnLanguage, Recognizing, Handles
  <2> QED
    BY <2>1, <2>2, <2>3, <2>4, <2>5, <2>6 DEF Inv
<1>7. ASSUME NEW r, NEW l, r = job[c].row, l = job[c].language,
             UNCHANGED created, table' = [table EXCEPT ![r] = l], Handles(c, "callback_query")
      PROVE  Inv'
  <2>1. r \in Rows /\ l \in Languages /\ l # NoRow /\ table \in [Rows -> Languages \cup {NoRow}]
    BY <1>7, JobTypes, SettingsAssumption DEF Inv, TypeOK, SettingsTypeOK
  <2>2. /\ TypeOK' /\ JobInv' /\ LockInv' /\ MetInv'
        /\ \A s \in Rows : Chosen(s)' = Chosen(s)
        /\ \A s \in Rows : \A k : WasChosen(s, k)' <=> WasChosen(s, k)
    BY <1>1, <1>2, <1>7, <2>1, Moved DEF Inv, TypeOK, SettingsTypeOK
  <2>3. /\ table'[r] = l /\ unsure[r]
        /\ \A s \in Rows \ {r} : table'[s] = table[s]
    BY <1>7, <2>1 DEF Inv, ButtonInv
  <2>4. \A d \in Connections \ {c} :
          Handles(d, "callback_query") \/ Handles(d, "recognize") => overlaps[d]
    BY <1>7 DEF Inv, MetInv, Writes
  <2>5. ButtonInv'
    BY <1>2, <1>3, <1>7, <2>1, <2>2, <2>3, <2>4, JobTypes DEF Inv, ButtonInv, Handles
  <2>6. VoiceInv'
    BY <1>2, <1>5, <2>4 DEF Inv, VoiceInv, Handles
  <2>7. SureInv'
    BY <1>2, <2>2, <2>3 DEF Inv, SureInv, found
  <2>8. OwnInv'
    <3>1. WasChosen(r, l) /\ WasChosen(r, l)'
      BY <1>7, <2>1, <2>2 DEF Inv, OwnInv
    <3>2. \A s \in Rows : (table[s] = NoRow \/ WasChosen(s, table[s]))'
      BY <1>2, <2>3, <3>1 DEF Inv, OwnInv, WasChosen
    <3> QED
      BY <1>2, <2>2, <3>2, JobTypes DEF Inv, OwnInv, Handles, WasChosen
  <2>9. OwnLanguage'
    BY <1>2, <1>3, <1>5, <2>2, JobTypes DEF Inv, OwnLanguage, Recognizing, Handles, WasChosen
  <2> QED
    BY <2>2, <2>5, <2>6, <2>7, <2>8, <2>9 DEF Inv
<1>8. CASE call[c].stmt = "create"
  BY <1>6, <1>8 DEF commit, Inv, JobInv
<1>9. CASE call[c].stmt # "create"
  <2>1. Handles(c, "callback_query") /\ call[c].row = job[c].row /\ call[c].language = job[c].language
    BY <1>4, <1>9 DEF Opening, Inv, JobInv
  <2>2. UNCHANGED created /\ table' = [table EXCEPT ![job[c].row] = job[c].language]
    BY <1>9, <2>1 DEF commit, upsert
  <2> QED
    BY <1>7, <2>1, <2>2
<1> QED
  BY <1>8, <1>9

\* Only the default is ever made up.
LEMMA RollbackStep == ASSUME Inv, NEW c \in Connections, rollback(c), UNCHANGED menuVars PROVE Inv'
<1> DEFINE place == IF call[c].stmt = "create" THEN "failed" ELSE "idle"
<1>1. Moves(c, place, "none")
  BY DEF rollback, Moves, Places, Locks
<1>2. /\ language' \in [Connections -> Languages]
      /\ \A d \in Connections \ {c} : language'[d] = language[d]
      /\ call[c].stmt = "select" => language'[c] = Default
      /\ UNCHANGED <<created, table, job, overlaps, unsure, choices>>
      /\ at[c] = "busy" /\ at' = [at EXCEPT ![c] = place] /\ at \in [Connections -> Places]
  BY SettingsAssumption DEF rollback, Move, Inv, TypeOK, SettingsTypeOK, menuVars
<1>3. /\ place \in {"failed", "idle"} /\ (place = "failed" <=> call[c].stmt = "create")
  OBVIOUS
<1> HIDE DEF place
<1>4. /\ TypeOK' /\ JobInv' /\ LockInv' /\ MetInv'
      /\ \A r \in Rows : Chosen(r)' = Chosen(r)
      /\ \A r \in Rows : \A k : WasChosen(r, k)' <=> WasChosen(r, k)
  BY <1>1, <1>2, <1>3, Moved DEF Inv, TypeOK, SettingsTypeOK
<1>5. Handles(c, "callback_query") \/ Handles(c, "recognize") => overlaps[c]
  BY <1>2 DEF Inv, ButtonInv, VoiceInv
<1>6. ButtonInv'
  BY <1>2, <1>4, <1>5, JobTypes DEF Inv, ButtonInv, Handles
<1>7. VoiceInv'
  BY <1>2, <1>5 DEF Inv, VoiceInv, Handles, found
<1>8. SureInv'
  BY <1>2, <1>4 DEF Inv, SureInv, found
<1>9. OwnInv'
  BY <1>2, <1>4, JobTypes DEF Inv, OwnInv, Handles
<1>10. OwnLanguage'
  BY <1>2, <1>4, JobTypes DEF Inv, OwnLanguage, JobInv, Recognizing, Handles, WasChosen
<1> QED
  BY <1>4, <1>6, <1>7, <1>8, <1>9, <1>10 DEF Inv

------------------------------------------------------------------------------
(* The processors and the queue.                                           *)

\* Opening disturbs every job on the file.
LEMMA OpensStep == ASSUME Inv, NEW c \in Connections, opens(c) PROVE Inv'
<1>1. /\ at[c] = "closed" /\ job[c] = NoJob /\ call[c].stmt = "create" /\ lock[c] = "none"
      /\ at' = [at EXCEPT ![c] = "begun"]
      /\ UNCHANGED <<created, table, call, lock, language>>
      /\ UNCHANGED <<q, job, menu, sessions, sent, choices, unsure>>
      /\ overlaps' \in [Connections -> BOOLEAN]
      /\ \A d \in Connections : overlaps'[d] <=>
            (overlaps[d] \/ Handles(d, "callback_query") \/ Handles(d, "recognize"))
  BY DEF opens, open, Inv, TypeOK, JobInv, LockInv
<1>2. TypeOK'
  BY <1>1 DEF Inv, TypeOK, SettingsTypeOK, Places
<1>3. JobInv' /\ LockInv'
  BY <1>1 DEF Inv, TypeOK, SettingsTypeOK, JobInv, LockInv, Handles
<1>4. MetInv'
  BY <1>1 DEF MetInv, Handles
<1>5. ButtonInv' /\ VoiceInv'
  BY <1>1 DEF Inv, ButtonInv, VoiceInv, Handles
<1>6. /\ \A r \in Rows : Chosen(r)' = Chosen(r)
      /\ \A r \in Rows : \A k : WasChosen(r, k)' <=> WasChosen(r, k)
  BY <1>1 DEF Chosen, WasChosen
<1>7. SureInv'
  BY <1>1, <1>6 DEF Inv, SureInv, found
<1>8. OwnInv'
  BY <1>1, <1>6, JobTypes DEF Inv, OwnInv, Handles
<1>9. OwnLanguage'
  BY <1>1, <1>6, JobTypes DEF Inv, TypeOK, SettingsTypeOK, OwnLanguage, Recognizing, Handles, WasChosen
<1> QED
  BY <1>2, <1>3, <1>4, <1>5, <1>7, <1>8, <1>9 DEF Inv

\* What users and sessions do is not seen on the file.
LEMMA ElsewhereStep ==
  ASSUME Inv, UNCHANGED <<settingsVars, job, choices, overlaps, unsure>>,
         q' \in Seq(Job), menu' \in {"none", "shown", "deleted"},
         sessions' \in [{"sendMessage", "deleteMessage"} -> Nat],
         sent' \in [{"command", "callback_query", "recognize"} -> Nat]
  PROVE  Inv'
<1> USE DEF settingsVars
<1>1. TypeOK'
  BY DEF Inv, TypeOK, SettingsTypeOK
<1>2. JobInv' /\ LockInv'
  BY DEF Inv, JobInv, LockInv, Handles
<1>3. MetInv'
  BY DEF Inv, MetInv, Handles, Writes, Opening
<1>4. ButtonInv' /\ VoiceInv' /\ SureInv'
  BY DEF Inv, ButtonInv, VoiceInv, SureInv, Handles, Chosen, found
<1>5. OwnInv' /\ OwnLanguage'
  BY DEF Inv, OwnInv, OwnLanguage, Recognizing, Handles, WasChosen
<1> QED
  BY <1>1, <1>2, <1>3, <1>4, <1>5 DEF Inv

LEMMA UsersStep == ASSUME Inv, Users PROVE Inv'
<1>1. ASSUME NEW j \in Job, NEW bound, j.kind \in {"command", "callback_query", "recognize"},
             Push(j, bound)
      PROVE  Inv'
  <2>1. q' \in Seq(Job) /\ sent' \in [{"command", "callback_query", "recognize"} -> Nat]
    BY <1>1 DEF Push, Inv, TypeOK
  <2> QED
    BY <1>1, <2>1, ElsewhereStep DEF Push, Inv, TypeOK
<1> QED
  <2>1. CASE Ask
    <3>1. [kind |-> "command"] \in Job
      BY DEF Job, Command
    <3> QED
      BY <1>1, <2>1, <3>1 DEF Ask
  <2>2. ASSUME NEW r \in Rows, Speak(r) PROVE Inv'
    <3>1. [kind |-> "recognize", row |-> r] \in Job
      BY DEF Job, Voice
    <3> QED
      BY <1>1, <2>2, <3>1 DEF Speak
  <2>3. ASSUME NEW r \in Rows, NEW l \in Languages, Press(r, l) PROVE Inv'
    <3>1. [kind |-> "callback_query", row |-> r, language |-> l] \in Job
      BY DEF Job, Button
    <3> QED
      BY <1>1, <2>3, <3>1 DEF Press
  <2> QED
    BY <2>1, <2>2, <2>3 DEF Users

LEMMA SessionsStep == ASSUME Inv, Session PROVE Inv'
<1>1. PICK method \in {"sendMessage", "deleteMessage"} : session(method)
  BY DEF Session
<1>2. menu' \in {"none", "shown", "deleted"}
  BY <1>1 DEF session, Inv, TypeOK
<1>3. sessions' \in [{"sendMessage", "deleteMessage"} -> Nat]
  BY <1>1 DEF session, Inv, TypeOK
<1> QED
  BY <1>1, <1>2, <1>3, ElsewhereStep DEF session, Inv, TypeOK

\* What holds whichever job is taken.
LEMMA Taken ==
  ASSUME Inv, NEW c \in Connections, NEW j \in Job, Take(c, j)
  PROVE  /\ at[c] = "idle" /\ job[c] = NoJob /\ lock[c] = "none" /\ j # NoJob
         /\ job' = [job EXCEPT ![c] = j] /\ job' \in [Connections -> Job \cup {NoJob}]
         /\ q' \in Seq(Job) /\ UNCHANGED <<menu, sessions, sent>>
         /\ overlaps' \in [Connections -> BOOLEAN]
         /\ ~overlaps'[c] => \A d \in Connections \ {c} : d \notin Met(c, j)
         /\ \A d \in Connections \ {c} : overlaps'[d] <=> overlaps[d] \/ d \in Met(c, j)
<1>1. q' \in Seq(Job)
  BY DEF Take, Inv, TypeOK
<1>2. /\ overlaps' = [d \in Connections |->
                       IF d = c THEN Met(c, j) # {} ELSE overlaps[d] \/ d \in Met(c, j)]
      /\ \A d \in Connections : overlaps[d] \in BOOLEAN
  BY DEF Take, Inv, TypeOK
<1>3. overlaps' \in [Connections -> BOOLEAN]
  BY <1>2
<1>4. ~overlaps'[c] => \A d \in Connections \ {c} : d \notin Met(c, j)
  BY <1>2
<1>5. \A d \in Connections \ {c} : overlaps'[d] <=> overlaps[d] \/ d \in Met(c, j)
  BY <1>2
<1> QED
  BY <1>1, <1>3, <1>4, <1>5, MenuAssumption DEF Take, Inv, TypeOK, LockInv

LEMMA TakeCommandStep == ASSUME Inv, NEW c \in Connections, take_command(c) PROVE Inv'
<1> DEFINE j == [kind |-> "command"]
<1>1. j \in Job /\ j.kind = "command" /\ Met(c, j) = {}
  BY DEF Job, Command, Met
<1>2. Take(c, j) /\ UNCHANGED <<settingsVars, choices, unsure>>
  BY DEF take_command
<1> HIDE DEF j
<1>3. /\ at[c] = "idle" /\ job[c] = NoJob /\ j # NoJob
      /\ job' = [job EXCEPT ![c] = j] /\ job' \in [Connections -> Job \cup {NoJob}]
      /\ q' \in Seq(Job) /\ UNCHANGED <<menu, sessions, sent>>
      /\ overlaps' \in [Connections -> BOOLEAN]
      /\ \A d \in Connections \ {c} : overlaps'[d] <=> overlaps[d]
  BY <1>1, <1>2, Taken
<1>4. UNCHANGED <<created, table, at, call, lock, language, choices, unsure>>
  BY <1>2 DEF settingsVars
<1>5. /\ \A d \in Connections \ {c} : job'[d] = job[d]
      /\ job'[c] = j /\ job \in [Connections -> Job \cup {NoJob}]
  BY <1>3 DEF Inv, TypeOK
<1>6. TypeOK'
  BY <1>3, <1>4, <1>5 DEF Inv, TypeOK, SettingsTypeOK
<1>7. JobInv' /\ LockInv'
  BY <1>1, <1>3, <1>4, <1>5 DEF Inv, JobInv, LockInv, Handles
<1>8. MetInv'
  BY <1>1, <1>3, <1>4, <1>5 DEF Inv, MetInv, Handles, Writes, Opening
<1>9. ButtonInv' /\ VoiceInv' /\ SureInv'
  BY <1>1, <1>3, <1>4, <1>5 DEF Inv, ButtonInv, VoiceInv, SureInv, Handles, Chosen, found
<1>10. OwnInv' /\ OwnLanguage'
  BY <1>1, <1>3, <1>4, <1>5 DEF Inv, OwnInv, OwnLanguage, Recognizing, Handles, WasChosen
<1> QED
  BY <1>6, <1>7, <1>8, <1>9, <1>10 DEF Inv

\* A button makes its row unsure, and the older jobs of the row have met it.
LEMMA TakeButtonStep ==
  ASSUME Inv, NEW c \in Connections, NEW r \in Rows, NEW l \in Languages, take_button(c, r, l)
  PROVE  Inv'
<1> DEFINE j == [kind |-> "callback_query", row |-> r, language |-> l]
           stmt == [stmt |-> "insert", row |-> r, language |-> l]
<1>1. /\ j \in Job /\ j.kind = "callback_query" /\ j.row = r /\ j.language = l
      /\ \A d \in Connections \ {c} :
            d \in Met(c, j) <=> Writes(d) \/ Handles(d, "recognize")
  BY DEF Job, Button, Met
<1>2. stmt \in Call /\ stmt.stmt = "insert" /\ stmt.row = r /\ stmt.language = l
  BY DEF Call
<1>3. /\ Take(c, j) /\ exec(c, stmt)
      /\ choices' = [choices EXCEPT ![r] = Append(@, l)]
      /\ unsure' = [unsure EXCEPT ![r] = TRUE]
  BY DEF take_button, insert_chat_settings
<1> HIDE DEF j, stmt
<1>4. /\ at[c] = "idle" /\ job[c] = NoJob /\ lock[c] = "none" /\ j # NoJob
      /\ job' = [job EXCEPT ![c] = j] /\ job' \in [Connections -> Job \cup {NoJob}]
      /\ q' \in Seq(Job) /\ UNCHANGED <<menu, sessions, sent>>
      /\ overlaps' \in [Connections -> BOOLEAN]
      /\ ~overlaps'[c] => \A d \in Connections \ {c} : ~Writes(d) /\ ~Handles(d, "recognize")
      /\ \A d \in Connections \ {c} :
            overlaps'[d] <=> overlaps[d] \/ Writes(d) \/ Handles(d, "recognize")
  BY <1>1, <1>3, Taken
<1>5. /\ at' = [at EXCEPT ![c] = "begun"] /\ call' = [call EXCEPT ![c] = stmt]
      /\ UNCHANGED <<created, table, lock, language>>
  BY <1>3 DEF exec
<1>6. /\ \A d \in Connections \ {c} : job'[d] = job[d] /\ at'[d] = at[d] /\ call'[d] = call[d]
      /\ job'[c] = j /\ at'[c] = "begun" /\ call'[c] = stmt
      /\ \A s \in Rows \ {r} : unsure'[s] = unsure[s]
      /\ unsure'[r] /\ unsure' \in [Rows -> BOOLEAN] /\ choices \in [Rows -> Seq(Languages)]
      /\ choices' \in [Rows -> Seq(Languages)]
  BY <1>3, <1>4, <1>5 DEF Inv, TypeOK, SettingsTypeOK
<1>7. /\ Chosen(r)' = l /\ WasChosen(r, l)'
      /\ \A s \in Rows \ {r} : Chosen(s)' = Chosen(s)
      /\ \A s \in Rows : \A k : WasChosen(s, k) => WasChosen(s, k)'
  BY <1>3, <1>6, Appended
<1>8. TypeOK'
  BY <1>2, <1>3, <1>4, <1>5, <1>6 DEF Inv, TypeOK, SettingsTypeOK, Places
<1>9. JobInv' /\ LockInv'
  BY <1>1, <1>2, <1>4, <1>5, <1>6 DEF Inv, JobInv, LockInv, Handles
<1>10. MetInv'
  <2>1. /\ Handles(c, "callback_query")' /\ ~Handles(c, "recognize")'
        /\ \A d \in Connections \ {c} :
             /\ Writes(d)' <=> Writes(d)
             /\ Handles(d, "callback_query")' <=> Handles(d, "callback_query")
             /\ Handles(d, "recognize")' <=> Handles(d, "recognize")
    BY <1>1, <1>2, <1>4, <1>6 DEF Handles, Writes, Opening
  <2>2. \A d \in Connections : Handles(d, "callback_query") => Writes(d)
    BY DEF Writes
  <2> QED
    BY <1>4, <2>1, <2>2 DEF Inv, MetInv
<1>11. ButtonInv'
  BY <1>1, <1>4, <1>5, <1>6, <1>7, JobTypes DEF Inv, ButtonInv, Handles, Writes
<1>12. VoiceInv'
  BY <1>1, <1>4, <1>5, <1>6 DEF Inv, VoiceInv, Handles, found
<1>13. SureInv'
  BY <1>5, <1>6, <1>7 DEF Inv, SureInv, found
<1>14. OwnInv'
  BY <1>1, <1>5, <1>6, <1>7, JobTypes DEF Inv, OwnInv, Handles
<1>15. OwnLanguage'
  <2> SUFFICES ASSUME NEW d \in Connections, Recognizing(d)'
               PROVE  (language[d] = Default \/ WasChosen(job[d].row, language[d]))'
    BY DEF OwnLanguage
  <2>1. d # c /\ Recognizing(d)
    BY <1>1, <1>6 DEF Recognizing, Handles
  <2>2. /\ job'[d] = job[d] /\ job[d].row \in Rows /\ language'[d] = language[d]
        /\ language[d] = Default \/ WasChosen(job[d].row, language[d])
    BY <1>5, <1>6, <2>1, JobTypes DEF Inv, OwnLanguage, Recognizing
  <2>3. WasChosen(job[d].row, language[d]) => \E i \in 1..Len(choices'[job[d].row]) :
                                                 choices'[job[d].row][i] = language[d]
    BY <1>7, <2>2 DEF WasChosen
  <2> QED
    BY <2>2, <2>3 DEF WasChosen
<1> QED
  BY <1>8, <1>9, <1>10, <1>11, <1>12, <1>13, <1>14, <1>15 DEF Inv

LEMMA TakeVoiceStep ==
  ASSUME Inv, NEW c \in Connections, NEW r \in Rows, take_voice(c, r) PROVE Inv'
<1> DEFINE j == [kind |-> "recognize", row |-> r]
           stmt == [stmt |-> "select", row |-> r, language |-> Default]
<1>1. /\ j \in Job /\ j.kind = "recognize" /\ j.row = r
      /\ \A d \in Connections \ {c} : d \in Met(c, j) <=> Writes(d)
  BY DEF Job, Voice, Met
<1>2. stmt \in Call /\ stmt.stmt = "select" /\ stmt.row = r
  BY SettingsAssumption DEF Call
<1>3. Take(c, j) /\ exec(c, stmt) /\ UNCHANGED <<choices, unsure>>
  BY DEF take_voice, get_language_code_by_id
<1> HIDE DEF j, stmt
<1>4. /\ at[c] = "idle" /\ job[c] = NoJob /\ lock[c] = "none" /\ j # NoJob
      /\ job' = [job EXCEPT ![c] = j] /\ job' \in [Connections -> Job \cup {NoJob}]
      /\ q' \in Seq(Job) /\ UNCHANGED <<menu, sessions, sent>>
      /\ overlaps' \in [Connections -> BOOLEAN]
      /\ ~overlaps'[c] => \A d \in Connections \ {c} : ~Writes(d)
      /\ \A d \in Connections \ {c} : overlaps'[d] <=> overlaps[d] \/ Writes(d)
  BY <1>1, <1>3, Taken
<1>5. /\ at' = [at EXCEPT ![c] = "begun"] /\ call' = [call EXCEPT ![c] = stmt]
      /\ UNCHANGED <<created, table, lock, language, choices, unsure>>
  BY <1>3 DEF exec
<1>6. /\ \A d \in Connections \ {c} : job'[d] = job[d] /\ at'[d] = at[d] /\ call'[d] = call[d]
      /\ job'[c] = j /\ at'[c] = "begun" /\ call'[c] = stmt
  BY <1>4, <1>5 DEF Inv, TypeOK, SettingsTypeOK
<1>7. /\ \A s \in Rows : Chosen(s)' = Chosen(s)
      /\ \A s \in Rows : \A k : WasChosen(s, k)' <=> WasChosen(s, k)
  BY <1>5 DEF Chosen, WasChosen
<1>8. TypeOK'
  BY <1>2, <1>4, <1>5, <1>6 DEF Inv, TypeOK, SettingsTypeOK, Places
<1>9. JobInv' /\ LockInv'
  BY <1>1, <1>2, <1>4, <1>5, <1>6 DEF Inv, JobInv, LockInv, Handles
<1>10. MetInv'
  <2>1. /\ ~Handles(c, "callback_query")' /\ ~Writes(c)'
        /\ \A d \in Connections \ {c} :
             /\ Writes(d)' <=> Writes(d)
             /\ Handles(d, "callback_query")' <=> Handles(d, "callback_query")
             /\ Handles(d, "recognize")' <=> Handles(d, "recognize")
    BY <1>1, <1>2, <1>6 DEF Handles, Writes, Opening
  <2>2. \A d \in Connections : Handles(d, "callback_query") => Writes(d)
    BY DEF Writes
  <2> QED
    BY <1>4, <2>1, <2>2 DEF Inv, MetInv
<1>11. ButtonInv'
  BY <1>1, <1>4, <1>5, <1>6, <1>7, JobTypes DEF Inv, ButtonInv, Handles, Writes
<1>12. VoiceInv'
  BY <1>1, <1>4, <1>5, <1>6 DEF Inv, VoiceInv, Handles, found
<1>13. SureInv'
  BY <1>5, <1>7 DEF Inv, SureInv, found
<1>14. OwnInv'
  BY <1>1, <1>5, <1>6, <1>7, JobTypes DEF Inv, OwnInv, Handles
<1>15. OwnLanguage'
  BY <1>5, <1>6 DEF Inv, OwnLanguage, Recognizing, Handles, WasChosen
<1> QED
  BY <1>8, <1>9, <1>10, <1>11, <1>12, <1>13, <1>14, <1>15 DEF Inv

\* A button that has met nobody leaves its row sure.
LEMMA DoneStep ==
  ASSUME Inv, NEW c \in Connections, NEW kind, Done(c, kind),
         sessions' \in [{"sendMessage", "deleteMessage"} -> Nat],
         IF Handles(c, "callback_query")
         THEN unsure' = [unsure EXCEPT ![job[c].row] = overlaps[c]] ELSE UNCHANGED unsure
  PROVE  Inv'
<1>1. /\ at[c] = "idle" /\ job[c] # NoJob /\ job' = [job EXCEPT ![c] = NoJob]
      /\ UNCHANGED <<created, table, at, call, lock, language, q, menu, sent, choices, overlaps>>
      /\ job \in [Connections -> Job \cup {NoJob}]
  BY DEF Done, Handles, settingsVars, Inv, TypeOK
<1>2. job'[c] = NoJob /\ \A d \in Connections \ {c} : job'[d] = job[d]
  BY <1>1
<1>3. /\ \A r \in Rows : Chosen(r)' = Chosen(r)
      /\ \A r \in Rows : \A k : WasChosen(r, k)' <=> WasChosen(r, k)
  BY <1>1 DEF Chosen, WasChosen
<1>4. unsure' \in [Rows -> BOOLEAN]
  BY DEF Inv, TypeOK
<1>5. \A r \in Rows : unsure'[r] = unsure[r] \/
        (Handles(c, "callback_query") /\ r = job[c].row /\ (unsure'[r] <=> overlaps[c]))
  BY <1>1, JobTypes DEF Inv, TypeOK
<1>6. TypeOK'
  BY <1>1, <1>2, <1>4 DEF Inv, TypeOK, SettingsTypeOK
<1>7. JobInv' /\ LockInv'
  BY <1>1, <1>2 DEF Inv, JobInv, LockInv, Handles
<1>8. MetInv'
  BY <1>1, <1>2 DEF Inv, MetInv, Handles, Writes, Opening
<1>9. ButtonInv'
  <2> SUFFICES ASSUME NEW d \in Connections, Handles(d, "callback_query")'
               PROVE  /\ unsure'[job'[d].row]
                      /\ ~overlaps'[d] =>
                           /\ at'[d] # "busy"
                           /\ Chosen(job[d].row)' = job'[d].language
                           /\ at'[d] = "idle" => table'[job'[d].row] = job'[d].language
    BY DEF ButtonInv
  <2>1. d # c /\ Handles(d, "callback_query") /\ job'[d] = job[d] /\ job[d].row \in Rows
    BY <1>1, <1>2, JobTypes DEF Handles, Inv
  <2>2. Handles(c, "callback_query") => overlaps[c]
    BY <2>1 DEF Inv, MetInv, Writes
  <2>3. unsure'[job[d].row]
    BY <1>5, <2>1, <2>2 DEF Inv, ButtonInv
  <2> QED
    BY <1>1, <1>3, <2>1, <2>3 DEF Inv, ButtonInv
<1>10. VoiceInv'
  BY <1>1, <1>2 DEF Inv, VoiceInv, Handles, found
<1>11. SureInv'
  <2> SUFFICES ASSUME NEW r \in Rows, ~unsure'[r] PROVE (found(r) = Chosen(r))'
    BY DEF SureInv
  <2>1. found(r)' = found(r) /\ Chosen(r)' = Chosen(r)
    BY <1>1, <1>3 DEF found
  <2>2. CASE unsure'[r] = unsure[r]
    BY <2>1, <2>2 DEF Inv, SureInv
  <2>3. CASE Handles(c, "callback_query") /\ r = job[c].row /\ ~overlaps[c]
    <3>1. table[r] = job[c].language /\ Chosen(r) = job[c].language
      BY <1>1, <2>3 DEF Inv, ButtonInv
    <3>2. job[c].language # NoRow
      BY <2>3, JobTypes, SettingsAssumption DEF Inv
    <3> QED
      BY <2>1, <3>1, <3>2 DEF found
  <2> QED
    BY <1>5, <2>2, <2>3
<1>12. OwnInv'
  BY <1>1, <1>2, <1>3, JobTypes DEF Inv, OwnInv, Handles
<1>13. OwnLanguage'
  BY <1>1, <1>2, <1>3, JobTypes DEF Inv, OwnLanguage, Recognizing, Handles, WasChosen
<1> QED
  BY <1>6, <1>7, <1>8, <1>9, <1>10, <1>11, <1>12, <1>13 DEF Inv

LEMMA ProcessorStep == ASSUME Inv, NEW c \in Connections, Processor(c) PROVE Inv'
<1>1. CASE Statement(c)
  BY <1>1, LockSharedStep, ReadStep, LockReservedStep, LockExclusiveStep, CommitStep, RollbackStep
     DEF Statement, Execute
<1>2. CASE process_bot_command(c)
  <2>1. sessions' \in [{"sendMessage", "deleteMessage"} -> Nat]
    BY <1>2 DEF process_bot_command, Inv, TypeOK
  <2> QED
    BY <1>2, <2>1, DoneStep DEF process_bot_command, Done, Handles
<1>3. CASE process_callback_query(c)
  <2>1. sessions' \in [{"sendMessage", "deleteMessage"} -> Nat]
    BY <1>3 DEF process_callback_query, Inv, TypeOK
  <2> QED
    BY <1>3, <2>1, DoneStep DEF process_callback_query, Done
<1>4. CASE get_google_recognize_req(c)
  BY <1>4, DoneStep DEF get_google_recognize_req, Done, Handles, Inv, TypeOK
<1> QED
  BY <1>1, <1>2, <1>3, <1>4, OpensStep, TakeCommandStep, TakeButtonStep, TakeVoiceStep DEF Processor

LEMMA Invariance == Spec => []Inv
<1>1. Init => Inv
  <2> SUFFICES ASSUME Init PROVE Inv
    OBVIOUS
  <2> USE DEF Init, SettingsInit
  <2>1. \A c \in Connections : \A kind : ~Handles(c, kind)
    BY DEF Handles
  <2>2. SettingsTypeOK
    BY SettingsAssumption DEF SettingsTypeOK, Places, Locks, Call, Create
  <2>3. /\ q \in Seq(Job) /\ choices \in [Rows -> Seq(Languages)]
    OBVIOUS
  <2>4. TypeOK
    BY <2>2, <2>3 DEF TypeOK
  <2>5. JobInv /\ LockInv /\ MetInv
    BY <2>1 DEF JobInv, LockInv, MetInv, Create
  <2>6. ButtonInv /\ VoiceInv /\ SureInv
    BY <2>1 DEF ButtonInv, VoiceInv, SureInv, found, Chosen
  <2>7. OwnInv /\ OwnLanguage
    BY <2>1 DEF OwnInv, OwnLanguage, Recognizing
  <2> QED
    BY <2>4, <2>5, <2>6, <2>7 DEF Inv
<1>2. Inv /\ [Next]_vars => Inv'
  <2> SUFFICES ASSUME Inv, [Next]_vars PROVE Inv'
    OBVIOUS
  <2>1. CASE UNCHANGED vars
    BY <2>1, ElsewhereStep DEF vars, menuVars, Inv, TypeOK
  <2> QED
    BY <2>1, UsersStep, SessionsStep, ProcessorStep DEF Next
<1> QED
  BY <1>1, <1>2, PTL DEF Spec

\* Every variable keeps its type, and a processor has a job only while its
\* connection is open.
THEOREM TypeCorrect == Spec => []TypeOK
  BY Invariance, PTL DEF Inv

\* A language in a request was chosen by that user in that chat, or is the default.
THEOREM OwnLanguages == Spec => []OwnLanguage
  BY Invariance, PTL DEF Inv

\* What met no other processor on the file is recognized in the language chosen last.
THEOREM LastChoice == Spec => []LastChoiceUsed
<1>1. Inv => LastChoiceUsed
  BY JobTypes DEF Inv, LastChoiceUsed, Recognizing, VoiceInv, SureInv
<1> QED
  BY <1>1, Invariance, PTL

------------------------------------------------------------------------------
(* One processor: nobody to meet.                                          *)

AloneInv(p) ==
  /\ ~overlaps[p]
  /\ \A r \in Rows : unsure[r] => Handles(p, "callback_query") /\ job[p].row = r

LEMMA AloneStep ==
  ASSUME Inv, Next, NEW p, Connections = {p}, AloneInv(p) PROVE AloneInv(p)'
<1> USE DEF AloneInv
<1>1. /\ job \in [Connections -> Job \cup {NoJob}] /\ p \in Connections
      /\ overlaps \in [Connections -> BOOLEAN] /\ unsure \in [Rows -> BOOLEAN]
  BY DEF Inv, TypeOK
<1>2. CASE Users \/ Session
  BY <1>2 DEF Users, Session, session, Ask, Speak, Press, Push, Handles
<1>3. CASE opens(p)
  BY <1>1, <1>3 DEF opens, open, Handles, Inv, TypeOK
<1>4. CASE Statement(p)
  BY <1>4 DEF Statement, menuVars, Handles
<1>5. ASSUME NEW j, Take(p, j)
      PROVE  ~overlaps'[p] /\ job[p] = NoJob /\ job'[p] = j
  <2>1. Met(p, j) = {}
    BY DEF Met
  <2> QED
    BY <1>1, <1>5, <2>1 DEF Take
<1>6. CASE take_command(p)
  BY <1>5, <1>6 DEF take_command, Handles
<1>7. ASSUME NEW r \in Rows, take_voice(p, r) PROVE AloneInv(p)'
  BY <1>5, <1>7 DEF take_voice, Handles
<1>8. ASSUME NEW r \in Rows, NEW l \in Languages, take_button(p, r, l) PROVE AloneInv(p)'
  <2> DEFINE j == [kind |-> "callback_query", row |-> r, language |-> l]
  <2>1. Take(p, j) /\ unsure' = [unsure EXCEPT ![r] = TRUE]
    BY <1>8 DEF take_button
  <2>2. ~overlaps'[p] /\ job[p] = NoJob /\ job'[p] = j
    <3> HIDE DEF j
    <3> QED
      BY <1>5, <2>1
  <2>3. Handles(p, "callback_query")' /\ job'[p].row = r
    BY <2>2, MenuAssumption DEF Handles, Job, Button
  <2>4. \A s \in Rows : ~unsure[s]
    BY <2>2 DEF Handles
  <2> QED
    BY <1>1, <2>1, <2>2, <2>3, <2>4
<1>9. CASE process_bot_command(p) \/ get_google_recognize_req(p)
  BY <1>9 DEF process_bot_command, get_google_recognize_req, Done, Handles
<1>10. CASE process_callback_query(p)
  <2>1. job[p].row \in Rows
    BY <1>10, JobTypes DEF process_callback_query, Done, Inv
  <2>2. unsure' = [unsure EXCEPT ![job[p].row] = FALSE] /\ UNCHANGED overlaps
    <3>1. overlaps[p] = FALSE
      BY <1>1
    <3> QED
      BY <1>10, <3>1 DEF process_callback_query, Done
  <2> QED
    BY <1>1, <2>1, <2>2
<1> QED
  BY <1>2, <1>3, <1>4, <1>6, <1>7, <1>8, <1>9, <1>10 DEF Next, Processor

\* A bot with one processor recognizes every voice message in the language that its
\* sender had chosen last when it was taken, without exception.
THEOREM OneProcessorLastChoice ==
  ASSUME NEW p, Connections = {p}
  PROVE  Spec => [](Recognizing(p) => language[p] = Chosen(job[p].row))
<1>1. Init => AloneInv(p)
  BY DEF Init, AloneInv
<1>2. Inv /\ AloneInv(p) /\ [Next]_vars => AloneInv(p)'
  <2> SUFFICES ASSUME Inv, AloneInv(p), [Next]_vars PROVE AloneInv(p)'
    OBVIOUS
  <2>1. CASE UNCHANGED vars
    BY <2>1 DEF vars, menuVars, AloneInv, Handles
  <2> QED
    BY <2>1, AloneStep
<1>3. Inv /\ AloneInv(p) => (Recognizing(p) => language[p] = Chosen(job[p].row))
  <2> SUFFICES ASSUME Inv, AloneInv(p), Recognizing(p) PROVE language[p] = Chosen(job[p].row)
    OBVIOUS
  <2>1. /\ p \in Connections /\ Handles(p, "recognize") /\ ~Handles(p, "callback_query")
        /\ job[p].row \in Rows
    BY JobTypes DEF Recognizing, Inv, Handles
  <2> QED
    BY <2>1 DEF AloneInv, Inv, Recognizing, VoiceInv, SureInv
<1> QED
  BY <1>1, <1>2, <1>3, Invariance, PTL DEF Spec

------------------------------------------------------------------------------
(* The registers.  Steps that do not touch the file are stutters; a        *)
(* statement has its effect when it reads or commits, and it fails when it *)
(* is refused.                                                             *)

Register == [r \in Rows |-> found(r)]
OnFile == {c \in Connections : at[c] \notin {"closed", "failed", "idle"}}
Refused == {c \in Connections : at[c] = "busy"}
Answer ==
  [c \in Connections |-> IF at[c] = "busy" /\ call[c].stmt = "select" THEN Default ELSE language[c]]

LEMMA RegisterVars ==
  ASSUME UNCHANGED <<Register, call, OnFile, Refused, Answer>> PROVE UNCHANGED Registers!vars
  BY DEF Register, OnFile, Refused, Answer, Registers!vars

\* Who moves, as the registers see it.
LEMMA MovedOnFile ==
  ASSUME Inv, NEW c \in Connections, NEW place \in Places, at' = [at EXCEPT ![c] = place]
  PROVE  /\ OnFile' = IF place \in {"closed", "failed", "idle"} THEN OnFile \ {c} ELSE OnFile \cup {c}
         /\ Refused' = IF place = "busy" THEN Refused \cup {c} ELSE Refused \ {c}
  BY DEF Inv, TypeOK, SettingsTypeOK, OnFile, Refused

LEMMA SameRegister == ASSUME UNCHANGED table PROVE UNCHANGED Register
  BY DEF Register, found

LEMMA SameSettings == ASSUME UNCHANGED settingsVars PROVE UNCHANGED Registers!vars
  BY SameRegister, RegisterVars DEF settingsVars, OnFile, Refused, Answer

\* A statement that is given the lock it asks for goes on, and nobody sees it.
LEMMA GoingOn ==
  ASSUME Inv, NEW c \in Connections, NEW place, NEW l, Move(c, place, l),
         place \in {"shared", "reserved", "exclusive"}, at[c] \in {"begun", "shared", "reserved"},
         UNCHANGED <<table, call, language>>
  PROVE  UNCHANGED Registers!vars
<1>1. at' = [at EXCEPT ![c] = place] /\ place \in Places
  BY DEF Move, Places
<1>2. UNCHANGED <<OnFile, Refused>>
  BY <1>1, MovedOnFile DEF OnFile, Refused
<1>3. UNCHANGED Answer
  BY <1>1 DEF Answer, Inv, TypeOK, SettingsTypeOK
<1> QED
  BY <1>2, <1>3, SameRegister, RegisterVars

\* A statement is refused only while another one is in its way.
LEMMA Refusal ==
  ASSUME Inv, NEW c \in Connections, NEW l, Move(c, "busy", l),
         at[c] \in {"begun", "shared", "reserved"},
         Held(c, IF call[c].stmt = "select" THEN {"pending", "exclusive"} ELSE Locks \ {"none"}),
         UNCHANGED <<table, call, language>>
  PROVE  Registers!fail(c)
<1>1. at' = [at EXCEPT ![c] = "busy"] /\ "busy" \in Places
  BY DEF Move, Places
<1>2. OnFile' = OnFile /\ Refused' = Refused \cup {c} /\ c \in OnFile \ Refused
  BY <1>1, MovedOnFile DEF OnFile, Refused
<1>3. Answer' = IF call[c].stmt = "select" THEN [Answer EXCEPT ![c] = Default] ELSE Answer
  BY <1>1 DEF Answer, Inv, TypeOK, SettingsTypeOK
<1>4. \E d \in Connections : Registers!InTheWay(c, d)
  <2>1. PICK d \in Connections \ {c} :
          lock[d] \in IF call[c].stmt = "select" THEN {"pending", "exclusive"} ELSE Locks \ {"none"}
    BY DEF Held
  <2>2. lock[d] # "none"
    BY <2>1
  <2>3. d \in OnFile
    BY <2>2 DEF OnFile, Inv, LockInv
  <2>4. call[c].stmt = "select" => call[d].stmt # "select"
    <3>1. CASE Opening(d)
      BY <3>1 DEF Opening
    <3>2. CASE Handles(d, "callback_query")
      BY <3>2 DEF Inv, JobInv
    <3> QED
      BY <2>1, <3>1, <3>2, LockHolders DEF Writes
  <2> QED
    BY <2>1, <2>3, <2>4 DEF OnFile, Registers!InTheWay
<1> QED
  BY <1>2, <1>3, <1>4, SameRegister DEF OnFile, Refused, Answer, Register, Registers!fail

LEMMA ReadsRegister ==
  ASSUME Inv, NEW c \in Connections, read(c)
  PROVE  Registers!get_language_code_by_id(c) \/ Registers!open(c)
<1>1. at' = [at EXCEPT ![c] = "idle"] /\ "idle" \in Places /\ at[c] = "shared"
  BY DEF read, Move, Places
<1>2. OnFile' = OnFile \ {c} /\ Refused' = Refused /\ c \in OnFile \ Refused
  BY <1>1, MovedOnFile DEF OnFile, Refused
<1>3. UNCHANGED <<Register, call>>
  BY SameRegister DEF read
<1>4. CASE call[c].stmt = "select"
  <2>1. call[c].row \in Rows
    BY DEF Inv, TypeOK, SettingsTypeOK, Call
  <2>2. Answer' = [Answer EXCEPT ![c] = Register[call[c].row]]
    BY <1>1, <1>4, <2>1 DEF read, Answer, Register, Inv, TypeOK, SettingsTypeOK
  <2> QED
    BY <1>2, <1>3, <1>4, <2>2
       DEF OnFile, Refused, Answer, Register, Registers!get_language_code_by_id, Registers!Runs
<1>5. CASE call[c].stmt # "select"
  <2>1. call[c].stmt = "create"
    BY <1>5 DEF read, Reads
  <2>2. UNCHANGED Answer
    BY <1>1, <1>5 DEF read, Answer, Inv, TypeOK, SettingsTypeOK
  <2> QED
    BY <1>2, <1>3, <2>1, <2>2 DEF OnFile, Refused, Answer, Register, Registers!open, Registers!Runs
<1> QED
  BY <1>4, <1>5

LEMMA CommitsRegister ==
  ASSUME Inv, NEW c \in Connections, commit(c)
  PROVE  Registers!insert_chat_settings(c) \/ Registers!open(c)
<1>1. at' = [at EXCEPT ![c] = "idle"] /\ "idle" \in Places /\ at[c] = "exclusive"
  BY DEF commit, Move, Places
<1>2. OnFile' = OnFile \ {c} /\ Refused' = Refused /\ c \in OnFile \ Refused
  BY <1>1, MovedOnFile DEF OnFile, Refused
<1>3. UNCHANGED <<Answer, call>>
  BY <1>1 DEF commit, Answer, Inv, TypeOK, SettingsTypeOK
<1>4. CASE call[c].stmt = "create"
  <2>1. UNCHANGED Register
    BY <1>4, SameRegister DEF commit
  <2> QED
    BY <1>2, <1>3, <1>4, <2>1 DEF OnFile, Refused, Answer, Register, Registers!open, Registers!Runs
<1>5. CASE call[c].stmt # "create"
  <2>1. ~Handles(c, "recognize")
    BY <1>1 DEF Inv, JobInv
  <2>2. Handles(c, "callback_query")
    BY <1>1, <1>5, <2>1, JobTypes DEF Inv, JobInv
  <2>3. call[c].stmt = "insert" /\ call[c].row \in Rows /\ call[c].language \in Languages
    BY <2>2 DEF Inv, JobInv, TypeOK, SettingsTypeOK, Call
  <2>4. table' = [table EXCEPT ![call[c].row] = call[c].language]
    BY <1>5 DEF commit, upsert
  <2>5. Register' = [Register EXCEPT ![call[c].row] = call[c].language]
    BY <2>3, <2>4, SettingsAssumption DEF Register, found, Inv, TypeOK, SettingsTypeOK
  <2> QED
    BY <1>2, <1>3, <2>3, <2>5
       DEF OnFile, Refused, Answer, Register, Registers!insert_chat_settings, Registers!Runs
<1> QED
  BY <1>4, <1>5

LEMMA RollsBack == ASSUME Inv, NEW c \in Connections, rollback(c) PROVE Registers!end(c)
<1> DEFINE place == IF call[c].stmt = "create" THEN "failed" ELSE "idle"
<1>1. at' = [at EXCEPT ![c] = place] /\ place \in Places /\ at[c] = "busy"
  BY DEF rollback, Move, Places
<1>2. OnFile' = OnFile \ {c} /\ Refused' = Refused \ {c} /\ c \in Refused
  <2>1. place \in {"failed", "idle"}
    OBVIOUS
  <2> HIDE DEF place
  <2> QED
    BY <1>1, <2>1, MovedOnFile DEF Refused
<1>3. UNCHANGED call
  BY DEF rollback
<1>4. UNCHANGED Answer
  <2>1. place # "busy"
    OBVIOUS
  <2> HIDE DEF place
  <2> QED
    BY <1>1, <2>1 DEF rollback, Answer, Inv, TypeOK, SettingsTypeOK
<1>5. UNCHANGED Register
  BY SameRegister DEF rollback
<1> QED
  BY <1>2, <1>3, <1>4, <1>5 DEF OnFile, Refused, Answer, Register, Registers!end

\* A statement begins when its processor calls sqlite3_exec.
LEMMA Begins ==
  ASSUME Inv, NEW c \in Connections, NEW stmt \in Call, at[c] \in {"closed", "idle"},
         at' = [at EXCEPT ![c] = "begun"], call' = [call EXCEPT ![c] = stmt],
         UNCHANGED <<table, language>>
  PROVE  Registers!begin(c, stmt)
<1>1. OnFile' = OnFile \cup {c} /\ Refused' = Refused /\ c \notin OnFile
  BY MovedOnFile DEF OnFile, Refused, Places
<1>2. UNCHANGED Answer
  BY DEF Answer, Inv, TypeOK, SettingsTypeOK
<1> QED
  BY <1>1, <1>2, SameRegister DEF OnFile, Refused, Answer, Register, Registers!begin

LEMMA RegisterStatements ==
  ASSUME Inv, NEW c \in Connections, Execute(c) PROVE [Registers!Next]_(Registers!vars)
<1>1. CASE lock_shared(c)
  <2>1. CASE Held(c, {"pending", "exclusive"})
    <3>1. Held(c, IF call[c].stmt = "select" THEN {"pending", "exclusive"} ELSE Locks \ {"none"})
      BY <2>1 DEF Held, Locks
    <3> QED
      BY <1>1, <2>1, <3>1, Refusal DEF lock_shared, refused, Registers!Next
  <2>2. CASE ~Held(c, {"pending", "exclusive"})
    BY <1>1, <2>2, GoingOn DEF lock_shared
  <2> QED
    BY <2>1, <2>2
<1>2. CASE lock_reserved(c)
  <2>1. CASE Held(c, {"reserved", "pending", "exclusive"})
    <3>1. call[c].stmt # "select" /\ Held(c, Locks \ {"none"})
      BY <1>2, <2>1 DEF lock_reserved, Reads, Held, Locks
    <3> QED
      BY <1>2, <2>1, <3>1, Refusal DEF lock_reserved, refused, Registers!Next
  <2>2. CASE ~Held(c, {"reserved", "pending", "exclusive"})
    BY <1>2, <2>2, GoingOn DEF lock_reserved
  <2> QED
    BY <2>1, <2>2
<1>3. CASE lock_exclusive(c)
  <2>1. CASE Held(c, Locks \ {"none"})
    <3>1. call[c].stmt # "select"
      BY <1>3, JobTypes DEF lock_exclusive, Inv, JobInv
    <3> QED
      BY <1>3, <2>1, <3>1, Refusal DEF lock_exclusive, refused, Registers!Next
  <2>2. CASE ~Held(c, Locks \ {"none"})
    BY <1>3, <2>2, GoingOn DEF lock_exclusive
  <2> QED
    BY <2>1, <2>2
<1> QED
  BY <1>1, <1>2, <1>3, ReadsRegister, CommitsRegister, RollsBack DEF Execute, Registers!Next

LEMMA RegisterProcessors ==
  ASSUME Inv, NEW c \in Connections, Processor(c) PROVE [Registers!Next]_(Registers!vars)
<1>1. CASE opens(c)
  <2>1. PICK stmt \in Call : call' = [call EXCEPT ![c] = stmt]
    <3>1. call[c] \in Call /\ call' = [call EXCEPT ![c] = call[c]]
      BY <1>1 DEF opens, open, Inv, TypeOK, SettingsTypeOK
    <3> QED
      BY <3>1
  <2>2. Registers!begin(c, stmt)
    BY <1>1, <2>1, Begins DEF opens, open
  <2> QED
    BY <2>2 DEF Call, Registers!Statement, Registers!Next
<1>2. ASSUME NEW r \in Rows, take_voice(c, r) PROVE Registers!Next
  <2> DEFINE stmt == [stmt |-> "select", row |-> r, language |-> Default]
  <2>1. stmt \in Call
    BY SettingsAssumption DEF Call
  <2>2. Registers!begin(c, stmt)
    BY <1>2, <2>1, Begins DEF take_voice, get_language_code_by_id, exec
  <2> QED
    BY <2>1, <2>2 DEF Call, Registers!Statement, Registers!Next
<1>3. ASSUME NEW r \in Rows, NEW l \in Languages, take_button(c, r, l) PROVE Registers!Next
  <2> DEFINE stmt == [stmt |-> "insert", row |-> r, language |-> l]
  <2>1. stmt \in Call
    BY DEF Call
  <2>2. Registers!begin(c, stmt)
    BY <1>3, <2>1, Begins DEF take_button, insert_chat_settings, exec
  <2> QED
    BY <2>1, <2>2 DEF Call, Registers!Statement, Registers!Next
<1>4. CASE take_command(c) \/ process_bot_command(c) \/ process_callback_query(c)
           \/ get_google_recognize_req(c)
  BY <1>4, SameSettings
     DEF take_command, process_bot_command, process_callback_query, get_google_recognize_req, Done
<1> QED
  BY <1>1, <1>2, <1>3, <1>4, RegisterStatements DEF Processor, Statement

\* To the processors, however many, the settings are a register per row: the locks of
\* SQLite let a statement have its effect in one step or none, and refuse it only for
\* another one that is on the file.
THEOREM SettingsRefineRegisters == Spec => ImplementsRegisters
<1>1. Init => Registers!Init
  <2> SUFFICES ASSUME Init PROVE Registers!Init
    OBVIOUS
  <2> USE DEF Init, SettingsInit
  <2>1. Create \in Call
    BY SettingsAssumption DEF Create, Call
  <2> QED
    BY <2>1 DEF found, Call, Registers!Init, Registers!Statement
<1>2. Inv /\ [Next]_vars => [Registers!Next]_(Registers!vars)
  <2> SUFFICES ASSUME Inv, [Next]_vars PROVE [Registers!Next]_(Registers!vars)
    OBVIOUS
  <2>1. CASE UNCHANGED vars
    BY <2>1, SameSettings DEF vars
  <2>2. CASE Users \/ Session
    BY <2>2, SameSettings DEF Users, Session, session, Ask, Speak, Press, Push
  <2> QED
    BY <2>1, <2>2, RegisterProcessors DEF Next
<1> QED
  BY <1>1, <1>2, Invariance, PTL DEF Spec, ImplementsRegisters, Registers!Spec
==============================================================================
