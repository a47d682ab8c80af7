---------------------------- MODULE ChatsSettings -----------------------------
(***************************************************************************)
(* chats_settings.cpp: one SQLite file, and a connection of its own for    *)
(* every processor.  A statement takes the locks of SQLite on its way; one *)
(* that is refused gives up at once, since no busy timeout is set.         *)
(***************************************************************************)
EXTENDS Naturals

CONSTANTS
  Connections,  \* one per processor
  Rows,         \* pairs of chat and user, the primary key
  Languages,
  Default,      \* "ru-RU"
  NoRow

ASSUME SettingsAssumption ==
  Default \in Languages /\ NoRow \notin Languages /\ Rows # {}

VARIABLES
  created,   \* the table exists
  table,     \* language_code of each row
  at,        \* where the statement of a connection is
  call,      \* the statement
  lock,      \* what the connection holds on the file
  language   \* what its last select returned

settingsVars == <<created, table, at, call, lock, language>>

Locks == {"none", "shared", "reserved", "pending", "exclusive"}

\* "closed" before open, "failed" when it returned false, "idle" between statements.
Places == {"closed", "failed", "idle", "begun", "shared", "reserved", "exclusive", "busy"}

Call == [stmt : {"create", "select", "insert"}, row : Rows, language : Languages]

SettingsTypeOK ==
  /\ created \in BOOLEAN
  /\ table \in [Rows -> Languages \cup {NoRow}]
  /\ at \in [Connections -> Places]
  /\ call \in [Connections -> Call]
  /\ lock \in [Connections -> Locks]
  /\ language \in [Connections -> Languages]

\* create table if not exists: the row and the language do not matter.
Create == [stmt |-> "create", row |-> CHOOSE r \in Rows : TRUE, language |-> Default]

SettingsInit ==
  /\ created \in BOOLEAN
  /\ table = [r \in Rows |-> NoRow]
  /\ at = [c \in Connections |-> "closed"]
  /\ call = [c \in Connections |-> Create]
  /\ lock = [c \in Connections |-> "none"]
  /\ language = [c \in Connections |-> Default]

------------------------------------------------------------------------------
(* The three calls of sqlite3_exec.                                        *)

open(c) ==
  /\ at[c] = "closed"
  /\ at' = [at EXCEPT ![c] = "begun"]
  /\ UNCHANGED <<created, table, call, lock, language>>

exec(c, stmt) ==
  /\ at[c] = "idle"
  /\ at' = [at EXCEPT ![c] = "begun"]
  /\ call' = [call EXCEPT ![c] = stmt]
  /\ UNCHANGED <<created, table, lock, language>>

insert_chat_settings(c, r, l) == exec(c, [stmt |-> "insert", row |-> r, language |-> l])

\* The language is "ru-RU" until the row gives another.
get_language_code_by_id(c, r) == exec(c, [stmt |-> "select", row |-> r, language |-> Default])

------------------------------------------------------------------------------
(* What SQLite does with a statement.                                      *)

Held(c, locks) == \E d \in Connections \ {c} : lock[d] \in locks

Move(c, place, l) ==
  /\ at' = [at EXCEPT ![c] = place]
  /\ lock' = [lock EXCEPT ![c] = l]

\* Variant with a fault: a busy handler that waits for the lock.
refused_waiting(c, held) == Move(c, at[c], lock[c])

\* No busy timeout is set: the statement ends with SQLITE_BUSY.
refused(c, held) == Move(c, "busy", held)

lock_shared(c) ==
  /\ at[c] = "begun"
  /\ IF Held(c, {"pending", "exclusive"}) THEN refused(c, "none") ELSE Move(c, "shared", "shared")
  /\ UNCHANGED <<created, table, call, language>>

Reads(c) == call[c].stmt = "select" \/ (call[c].stmt = "create" /\ created)

\* Variant with a fault: where chat_id = %1%, whoever the user is.
found_in_chat(r) ==
  LET rows == {table[other] : other \in Rows} \ {NoRow}
  IN  IF rows = {} THEN Default ELSE CHOOSE l \in rows : TRUE

\* The callback is called for the row that was found.
found(r) == IF table[r] = NoRow THEN Default ELSE table[r]

read(c) ==
  /\ at[c] = "shared" /\ Reads(c)
  /\ language' = IF call[c].stmt = "select" THEN [language EXCEPT ![c] = found(call[c].row)] ELSE language
  /\ Move(c, "idle", "none")
  /\ UNCHANGED <<created, table, call>>

lock_reserved(c) ==
  /\ at[c] = "shared" /\ ~Reads(c)
  /\ IF Held(c, {"reserved", "pending", "exclusive"})
     THEN refused(c, "shared") ELSE Move(c, "reserved", "reserved")
  /\ UNCHANGED <<created, table, call, language>>

\* A reader keeps the writer from its commit, the writer keeps further readers out.
lock_exclusive(c) ==
  /\ at[c] = "reserved"
  /\ IF Held(c, Locks \ {"none"})
     THEN refused(c, "pending") ELSE Move(c, "exclusive", "exclusive")
  /\ UNCHANGED <<created, table, call, language>>

\* Variant with a fault: on conflict do nothing.
upsert_first(c) ==
  IF table[call[c].row] = NoRow THEN [table EXCEPT ![call[c].row] = call[c].language] ELSE table

\* on conflict (chat_id, user_id) do update
upsert(c) == [table EXCEPT ![call[c].row] = call[c].language]

commit(c) ==
  /\ at[c] = "exclusive"
  /\ IF call[c].stmt = "create" THEN created' = TRUE /\ UNCHANGED table
                                ELSE table' = upsert(c) /\ UNCHANGED created
  /\ Move(c, "idle", "none")
  /\ UNCHANGED <<call, language>>

\* Variant with a fault: whatever statement fails ends the processor.
rollback_and_close(c) ==
  /\ at[c] = "busy"
  /\ Move(c, "failed", "none")
  /\ UNCHANGED <<created, table, call, language>>

\* Variant with a fault: what the statement has locked stays locked.
rollback_keeping_lock(c) ==
  /\ at[c] = "busy"
  /\ Move(c, IF call[c].stmt = "create" THEN "failed" ELSE "idle", lock[c])
  /\ language' = IF call[c].stmt = "select" THEN [language EXCEPT ![c] = Default] ELSE language
  /\ UNCHANGED <<created, table, call>>

\* The statement failed: the error is logged, open returns false, the language
\* is the default, and nobody looks at what insert_chat_settings returns.
rollback(c) ==
  /\ at[c] = "busy"
  /\ Move(c, IF call[c].stmt = "create" THEN "failed" ELSE "idle", "none")
  /\ language' = IF call[c].stmt = "select" THEN [language EXCEPT ![c] = Default] ELSE language
  /\ UNCHANGED <<created, table, call>>

Execute(c) ==
  lock_shared(c) \/ read(c) \/ lock_reserved(c) \/ lock_exclusive(c) \/ commit(c) \/ rollback(c)

------------------------------------------------------------------------------
\* A refused select has its answer, the default, when it is refused.
Registers == INSTANCE SettingsRegisters WITH
  register <- [r \in Rows |-> found(r)],
  statement <- call,
  under_way <- {c \in Connections : at[c] \notin {"closed", "failed", "idle"}},
  failed <- {c \in Connections : at[c] = "busy"},
  answer <- [c \in Connections |->
               IF at[c] = "busy" /\ call[c].stmt = "select" THEN Default ELSE language[c]]

\* What SQLite does under its locks is, to the processors, a register per row: a
\* statement that fails has changed nothing, and it fails only while another one
\* that is on the file is in its way.
ImplementsRegisters == Registers!Spec
==============================================================================
