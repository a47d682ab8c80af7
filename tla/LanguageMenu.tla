----------------------------- MODULE LanguageMenu -----------------------------
(***************************************************************************)
(* The language of recognition: a user asks for the menu, presses its      *)
(* buttons, and sends voice messages that are recognized in the language   *)
(* of the settings.  Processors take the objects from one queue; sessions  *)
(* are single steps, see SessionStep.                                      *)
(***************************************************************************)
EXTENDS ChatsSettings, Sequences

CONSTANTS
  NoJob,
  MaxCommands, MaxPresses, MaxVoices  \* bounds: objects of each kind

VARIABLES
  q,         \* the queue
  job,       \* what a processor has taken from it
  menu,      \* the message with the buttons: "none", "shown" or "deleted"
  sessions,  \* requests under way: "sendMessage", "deleteMessage"
  sent,      \* objects pushed so far, by kind
  choices,   \* history: the languages of a row in the order they were taken
  overlaps,  \* history: the job of a processor met that of another
  unsure     \* history: the last button of a row is not done, or met another job

menuVars == <<q, job, menu, sessions, sent, choices, overlaps, unsure>>
vars == <<menuVars, settingsVars>>

Command == [kind : {"command"}]
Button == [kind : {"callback_query"}, row : Rows, language : Languages]
Voice == [kind : {"recognize"}, row : Rows]
Job == Command \cup Button \cup Voice

ASSUME MenuAssumption == NoJob \notin Job

TypeOK ==
  /\ SettingsTypeOK
  /\ q \in Seq(Job)
  /\ job \in [Connections -> Job \cup {NoJob}]
  /\ menu \in {"none", "shown", "deleted"}
  /\ sessions \in [{"sendMessage", "deleteMessage"} -> Nat]
  /\ sent \in [{"command", "callback_query", "recognize"} -> Nat]
  /\ choices \in [Rows -> Seq(Languages)]
  /\ overlaps \in [Connections -> BOOLEAN]
  /\ unsure \in [Rows -> BOOLEAN]
  /\ \A c \in Connections : job[c] # NoJob => at[c] \notin {"closed", "failed"}

Init ==
  /\ SettingsInit
  /\ q = <<>>
  /\ job = [c \in Connections |-> NoJob]
  /\ menu = "none"
  /\ sessions = [sendMessage |-> 0, deleteMessage |-> 0]
  /\ sent = [command |-> 0, callback_query |-> 0, recognize |-> 0]
  /\ choices = [r \in Rows |-> <<>>]
  /\ overlaps = [c \in Connections |-> FALSE]
  /\ unsure = [r \in Rows |-> FALSE]

------------------------------------------------------------------------------
(* The users.                                                              *)

Push(j, bound) ==
  /\ sent[j.kind] < bound
  /\ q' = Append(q, j)
  /\ sent' = [sent EXCEPT ![j.kind] = @ + 1]
  /\ UNCHANGED <<settingsVars, job, menu, sessions, choices, overlaps, unsure>>

Ask == Push([kind |-> "command"], MaxCommands)

\* Everybody in the chat may press, until the message has been deleted.
Press(r, l) ==
  /\ menu = "shown"
  /\ Push([kind |-> "callback_query", row |-> r, language |-> l], MaxPresses)

Speak(r) == Push([kind |-> "recognize", row |-> r], MaxVoices)

------------------------------------------------------------------------------
(* The processors.                                                         *)

Handles(d, kind) == job[d] # NoJob /\ job[d].kind = kind
Opening(d) == call[d].stmt = "create" /\ at[d] \notin {"closed", "failed", "idle"}
Writes(d) == Opening(d) \/ Handles(d, "callback_query")

\* Opening needs the file like every statement.
opens(c) ==
  /\ open(c)
  /\ overlaps' = [d \in Connections |->
                    overlaps[d] \/ Handles(d, "callback_query") \/ Handles(d, "recognize")]
  /\ UNCHANGED <<q, job, menu, sessions, sent, choices, unsure>>

\* Those that j meets: jobs that need the file, from when they are taken until
\* they are done, and of which one writes.  A reader does not disturb a reader.
Met(c, j) ==
  {d \in Connections \ {c} :
     \/ j.kind = "recognize" /\ Writes(d)
     \/ j.kind = "callback_query" /\ (Writes(d) \/ Handles(d, "recognize"))}

\* wait_and_pop and, in process_callback_query and get_google_recognize_req,
\* the call of sqlite3_exec.
Take(c, j) ==
  /\ at[c] = "idle" /\ job[c] = NoJob /\ q # <<>> /\ j = Head(q)
  /\ q' = Tail(q)
  /\ job' = [job EXCEPT ![c] = j]
  /\ overlaps' = [d \in Connections |->
                    IF d = c THEN Met(c, j) # {} ELSE overlaps[d] \/ d \in Met(c, j)]
  /\ UNCHANGED <<menu, sessions, sent>>

take_command(c) ==
  /\ Take(c, [kind |-> "command"])
  /\ UNCHANGED <<settingsVars, choices, unsure>>

take_button(c, r, l) ==
  /\ Take(c, [kind |-> "callback_query", row |-> r, language |-> l])
  /\ insert_chat_settings(c, r, l)
  /\ choices' = [choices EXCEPT ![r] = Append(@, l)]
  /\ unsure' = [unsure EXCEPT ![r] = TRUE]

take_voice(c, r) ==
  /\ Take(c, [kind |-> "recognize", row |-> r])
  /\ get_language_code_by_id(c, r)
  /\ UNCHANGED <<choices, unsure>>

Done(c, kind) ==
  /\ at[c] = "idle" /\ Handles(c, kind)
  /\ job' = [job EXCEPT ![c] = NoJob]
  /\ UNCHANGED <<settingsVars, q, menu, sent, choices, overlaps>>

process_bot_command(c) ==
  /\ Done(c, "command")
  /\ sessions' = [sessions EXCEPT !["sendMessage"] = @ + 1]
  /\ UNCHANGED unsure

process_callback_query(c) ==
  /\ Done(c, "callback_query")
  /\ sessions' = [sessions EXCEPT !["deleteMessage"] = @ + 1]
  /\ unsure' = [unsure EXCEPT ![job[c].row] = overlaps[c]]

\* The request to Google has the language.
get_google_recognize_req(c) ==
  /\ Done(c, "recognize")
  /\ UNCHANGED <<sessions, unsure>>

Statement(c) == Execute(c) /\ UNCHANGED menuVars

------------------------------------------------------------------------------
\* A session fails, or Telegram does what it is asked.
session(method) ==
  /\ sessions[method] > 0
  /\ sessions' = [sessions EXCEPT ![method] = @ - 1]
  /\ \/ UNCHANGED menu
     \/ method = "sendMessage" /\ menu' = "shown"
     \/ method = "deleteMessage" /\ menu' = "deleted"
  /\ UNCHANGED <<settingsVars, q, job, sent, choices, overlaps, unsure>>

Processor(c) ==
  \/ opens(c) \/ take_command(c) \/ Statement(c)
  \/ \E r \in Rows : take_voice(c, r) \/ \E l \in Languages : take_button(c, r, l)
  \/ process_bot_command(c) \/ process_callback_query(c) \/ get_google_recognize_req(c)

Users == Ask \/ \E r \in Rows : Speak(r) \/ \E l \in Languages : Press(r, l)

Session == \E method \in {"sendMessage", "deleteMessage"} : session(method)

Next == Users \/ Session \/ \E c \in Connections : Processor(c)

Spec ==
  /\ Init /\ [][Next]_vars
  /\ WF_vars(Session)
  /\ \A c \in Connections : WF_vars(Processor(c))

------------------------------------------------------------------------------
Recognizing(c) == at[c] = "idle" /\ Handles(c, "recognize")

\* What the user of a row wants to be understood in.
Chosen(r) == IF choices[r] = <<>> THEN Default ELSE choices[r][Len(choices[r])]

\* A voice message is recognized in the language its sender chose last, unless
\* its job, or that of the choice, met the job of another processor, or the
\* opening of its settings: jobs meet from when they are taken until they are done.
LastChoiceUsed ==
  \A c \in Connections :
    (Recognizing(c) /\ ~overlaps[c] /\ ~unsure[job[c].row]) => language[c] = Chosen(job[c].row)

\* The choice that was made last is stored when all the buttons of its row have
\* been handled.  The code does not keep this: nobody looks at the result of
\* insert_chat_settings, and processors write in any order.
ChoiceIsStored ==
  \A r \in Rows :
    (\A c \in Connections : Handles(c, "callback_query") => job[c].row # r) => found(r) = Chosen(r)

WasChosen(r, l) == \E i \in 1..Len(choices[r]) : choices[r][i] = l

\* However the processors meet, a language in a request was chosen by that user
\* in that chat, or it is the default.
OwnLanguage ==
  \A c \in Connections : Recognizing(c) =>
    language[c] = Default \/ WasChosen(job[c].row, language[c])

\* Processors that have met on the file get on, and the queue is emptied, unless
\* none of them could open it.
EveryObjectHandled ==
  \/ <>[](q = <<>> /\ \A c \in Connections : job[c] = NoJob)
  \/ <>[](\A c \in Connections : at[c] = "failed")
==============================================================================
