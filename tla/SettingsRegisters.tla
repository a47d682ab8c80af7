-------------------------- MODULE SettingsRegisters ---------------------------
(***************************************************************************)
(* What the processors take the settings to be: a register for the         *)
(* language of every user in every chat.  A statement has its effect in    *)
(* one step or none at all, and it fails only while a statement of another *)
(* processor is under way, one of the two being more than a select.  No    *)
(* file, no table and no lock.                                             *)
(***************************************************************************)
CONSTANTS Connections, Rows, Languages, Default

VARIABLES
  register,   \* the language of each row
  statement,  \* the statement that each connection began last
  under_way,  \* the connections whose statement has not ended
  failed,     \* those of them whose statement has failed
  answer      \* what the last select of a connection gave

vars == <<register, statement, under_way, failed, answer>>

Statement == [stmt : {"create", "select", "insert"}, row : Rows, language : Languages]

Init ==
  /\ register = [r \in Rows |-> Default]
  /\ statement \in [Connections -> Statement]
  /\ under_way = {} /\ failed = {}
  /\ answer = [c \in Connections |-> Default]

begin(c, stmt) ==
  /\ c \notin under_way
  /\ statement' = [statement EXCEPT ![c] = stmt]
  /\ under_way' = under_way \cup {c}
  /\ UNCHANGED <<register, failed, answer>>

Runs(c, stmt) == c \in under_way \ failed /\ statement[c].stmt = stmt

get_language_code_by_id(c) ==
  /\ Runs(c, "select")
  /\ answer' = [answer EXCEPT ![c] = register[statement[c].row]]
  /\ under_way' = under_way \ {c}
  /\ UNCHANGED <<register, statement, failed>>

insert_chat_settings(c) ==
  /\ Runs(c, "insert")
  /\ register' = [register EXCEPT ![statement[c].row] = statement[c].language]
  /\ under_way' = under_way \ {c}
  /\ UNCHANGED <<statement, failed, answer>>

open(c) ==
  /\ Runs(c, "create")
  /\ under_way' = under_way \ {c}
  /\ UNCHANGED <<register, statement, failed, answer>>

\* A select does not disturb a select.
InTheWay(c, d) == d \in under_way \ {c} /\ {statement[c].stmt, statement[d].stmt} # {"select"}

fail(c) ==
  /\ c \in under_way \ failed
  /\ \E d \in Connections : InTheWay(c, d)
  /\ failed' = failed \cup {c}
  /\ answer' = IF statement[c].stmt = "select" THEN [answer EXCEPT ![c] = Default] ELSE answer
  /\ UNCHANGED <<register, statement, under_way>>

end(c) ==
  /\ c \in failed
  /\ failed' = failed \ {c} /\ under_way' = under_way \ {c}
  /\ UNCHANGED <<register, statement, answer>>

Next ==
  \E c \in Connections :
    \/ get_language_code_by_id(c) \/ insert_chat_settings(c) \/ open(c) \/ fail(c) \/ end(c)
    \/ \E stmt \in Statement : begin(c, stmt)

Spec == Init /\ [][Next]_vars
==============================================================================
