--------------------------- MODULE TelegramRequest ---------------------------
(***************************************************************************)
(* From a bot command, a transcript or a pressed button to the target of   *)
(* the request that Telegram receives: bot_commands_processor, get_tg_req  *)
(* and the replacements of bot_utility, one turn of their loop in a step.  *)
(* Strings are sequences of characters; a word that no replacement can     *)
(* touch counts as one character.                                          *)
(***************************************************************************)
EXTENDS Integers, Sequences, SequencesExt

CONSTANTS
  Messages,    \* kind: "command", "transcript" or "button"
  Languages,   \* text_callback_data_arr_: the codes on the buttons, in order
  HelpText,    \* what /help shows
  Words        \* the words of these texts and of the transcripts

\* What a string is made of.
Character ==
  Words \cup {" ", "\n", "+", "%", "20", "0A", "2B", "&", "=", "[", "]", "?", "sendMessage?",
             "chat_id", "message_id", "reply_to_message_id", "reply_markup", "text",
             "chat", "id", "Please", "select"}

ASSUME RequestAssumption ==
  /\ \A m \in Messages : m.kind = "transcript" => m.text \in Seq(Character)
  /\ Languages \in Seq(Character)
  /\ HelpText \in Seq(Character)

Groups == {"group", "supergroup"}

VARIABLES
  message,     \* what is answered
  stage,       \* "new", "help", "query" or "sent"
  params,      \* query_json: pairs of key and value
  str,         \* the string that get_correct_encoded_url_str works on
  round,       \* which of its replacements is under way
  start_pos,   \* where the next search begins
  target       \* the target of the request

requestVars == <<message, stage, params, str, round, start_pos, target>>

RequestTypeOK ==
  /\ message \in Messages
  /\ stage \in {"new", "help", "query", "sent"}
  /\ params \in Seq(Character \X Seq(Character))
  /\ str \in Seq(Character)
  /\ round \in 1..4
  /\ start_pos \in 1..(Len(str) + 1)
  /\ target \in Seq(Character)

------------------------------------------------------------------------------
(* process_bot_command.                                                    *)

get_command_text(chat_type, command) ==
  CASE chat_type \in Groups -> <<"/", command, "@bot">>
    [] chat_type = "private" -> <<"/", command>>
    [] OTHER -> <<command>>

count_of_items_in_row == 2

\* The loop over the buttons, which starts a new row after every second one.
after_button[n \in 0..Len(Languages)] ==
  IF n = 0 THEN [buttons_arr |-> <<>>, btns_row |-> <<>>]
  ELSE LET before == after_button[n - 1]
           row == Append(before.btns_row, Languages[n])
       IN  IF n % count_of_items_in_row = 0
           THEN [buttons_arr |-> Append(before.buttons_arr, row), btns_row |-> <<>>]
           ELSE [before EXCEPT !.btns_row = row]

\* Variant with a fault: a last row that is not full is left out.
full_rows == after_button[Len(Languages)].buttons_arr

keyboard ==
  LET last == after_button[Len(Languages)]
  IN  last.buttons_arr \o IF last.btns_row = <<>> THEN <<>> ELSE <<last.btns_row>>

\* JSON, as far as it matters: the brackets around each row.
serialize(rows) == FlattenSeq([i \in 1..Len(rows) |-> <<"[">> \o rows[i] \o <<"]">>])

Asks(m, command) ==
  /\ m.entities # <<>> /\ m.entities[1] = "bot_command"
  /\ m.text = get_command_text(m.chat_type, command)

\* The parameters as they are meant, before anything is encoded.
Meant(m) ==
  CASE m.kind = "transcript" ->
         << <<"chat_id", <<"chat">>>>, <<"reply_to_message_id", <<"id">>>>, <<"text", m.text>> >>
    [] m.kind = "button" -> << <<"chat_id", <<"chat">>>>, <<"message_id", <<"id">>>> >>
    [] m.kind = "command" /\ Asks(m, "language") ->
         << <<"chat_id", <<"chat">>>>, <<"message_id", <<"id">>>>, <<"text", <<"Please", " ", "select">>>>,
            <<"reply_markup", serialize(keyboard)>> >>
    [] m.kind = "command" /\ Asks(m, "help") ->
         << <<"chat_id", <<"chat">>>>, <<"reply_to_message_id", <<"id">>>>, <<"text", HelpText>> >>
    [] OTHER -> <<>>

------------------------------------------------------------------------------
(* get_tg_req and bot_utility.                                             *)

\* Variant with a fault: a line break is sent as it is.
without_newline == << <<" ", <<"%", "20">>>>, <<"+", <<"%", "2B">>>>, <<"+", <<"%", "2B">>>> >>

\* The three replacements in get_correct_encoded_url_str.
replacements == << <<" ", <<"%", "20">>>>, <<"\n", <<"%", "0A">>>>, <<"+", <<"%", "2B">>>> >>

\* key=value& for every parameter.
query_str(ps) ==
  <<"sendMessage?">> \o
  FlattenSeq([i \in 1..Len(ps) |-> <<ps[i][1], "=">> \o ps[i][2] \o <<"&">>])

RequestInit ==
  /\ message \in Messages
  /\ stage = "new"
  /\ params = <<>>
  /\ str = <<>>
  /\ round = 1
  /\ start_pos = 1
  /\ target = <<>>

\* A call of get_correct_encoded_url_str begins.
Encode(s, where) ==
  /\ str' = s
  /\ stage' = where
  /\ round' = 1
  /\ start_pos' = 1

\* The help text is encoded once by process_bot_command and once with the query.
process_bot_command ==
  /\ stage = "new"
  /\ params' = Meant(message)
  /\ IF message.kind = "command" /\ Asks(message, "help")
     THEN Encode(HelpText, "help")
     ELSE Encode(query_str(params'), "query")
  /\ UNCHANGED <<message, target>>

Found(k) == k \in start_pos..Len(str) /\ str[k] = replacements[round][1]

\* Variant with a fault: the search goes on at what has been put in.
replace_again ==
  /\ stage \in {"help", "query"} /\ round <= 3
  /\ LET to == replacements[round][2]
     IN  IF \E k \in 1..Len(str) : Found(k)
         THEN \E k \in 1..Len(str) :
                /\ Found(k) /\ \A j \in 1..(k - 1) : ~Found(j)
                /\ str' = SubSeq(str, 1, k - 1) \o to \o SubSeq(str, k + 1, Len(str))
                /\ start_pos' = k
                /\ UNCHANGED round
         ELSE round' = round + 1 /\ start_pos' = 1 /\ UNCHANGED str
  /\ UNCHANGED <<message, stage, params, target>>

\* Variant with a fault: the search skips a character behind what has been put in.
replace_skipping ==
  /\ stage \in {"help", "query"} /\ round <= 3
  /\ LET to == replacements[round][2]
     IN  IF \E k \in 1..Len(str) : Found(k)
         THEN \E k \in 1..Len(str) :
                /\ Found(k) /\ \A j \in 1..(k - 1) : ~Found(j)
                /\ str' = SubSeq(str, 1, k - 1) \o to \o SubSeq(str, k + 1, Len(str))
                /\ start_pos' = k + Len(to) + 1
                /\ UNCHANGED round
         ELSE round' = round + 1 /\ start_pos' = 1 /\ UNCHANGED str
  /\ UNCHANGED <<message, stage, params, target>>

\* One turn of the loop of replace, or the end of it.
replace ==
  /\ stage \in {"help", "query"} /\ round <= 3
  /\ LET to == replacements[round][2]
     IN  IF \E k \in 1..Len(str) : Found(k)
         THEN \E k \in 1..Len(str) :
                /\ Found(k) /\ \A j \in 1..(k - 1) : ~Found(j)
                /\ str' = SubSeq(str, 1, k - 1) \o to \o SubSeq(str, k + 1, Len(str))
                /\ start_pos' = k + Len(to)
                /\ UNCHANGED round
         ELSE round' = round + 1 /\ start_pos' = 1 /\ UNCHANGED str
  /\ UNCHANGED <<message, stage, params, target>>

get_tg_req ==
  /\ stage = "help" /\ round = 4
  /\ params' = [params EXCEPT ![3] = <<"text", str>>]
  /\ Encode(query_str(params'), "query")
  /\ UNCHANGED <<message, target>>

\* The last '&' is taken off again.
send ==
  /\ stage = "query" /\ round = 4
  /\ target' = IF Last(str) = "&" THEN Front(str) ELSE str
  /\ stage' = "sent"
  /\ UNCHANGED <<message, params, str, round, start_pos>>

RequestNext == process_bot_command \/ replace \/ get_tg_req \/ send

RequestSpec == RequestInit /\ [][RequestNext]_requestVars /\ WF_requestVars(RequestNext)

------------------------------------------------------------------------------
(* What Telegram reads in the target, character by character.              *)

\* The parameters that have been read, and the name and the value under way.
Unread == [got |-> <<>>, name |-> "", value |-> <<>>, part |-> "path"]

Unescaped(c) == CASE c = "20" -> " " [] c = "0A" -> "\n" [] c = "2B" -> "+" [] OTHER -> "?"

\* The request line ends the target at a space or a line break; '&' ends a
\* parameter; '%' and two digits are a character, '+' is a space.
Read(r, c) ==
  IF r.part = "over" \/ c \in {" ", "\n"} THEN [r EXCEPT !.part = "over"]
  ELSE CASE r.part = "path" -> [r EXCEPT !.part = "name"]
         [] r.part # "path" /\ c = "&" ->
              [got |-> Append(r.got, <<r.name, r.value>>), name |-> "", value |-> <<>>, part |-> "name"]
         [] r.part = "name" /\ c = "=" -> [r EXCEPT !.part = "value"]
         [] r.part = "name" /\ c \notin {"&", "="} -> [r EXCEPT !.name = c]
         [] r.part = "escape" /\ c # "&" ->
              [r EXCEPT !.value = Append(r.value, Unescaped(c)), !.part = "value"]
         [] r.part = "value" /\ c = "%" -> [r EXCEPT !.part = "escape"]
         [] r.part = "value" /\ c \notin {"&", "%"} ->
              [r EXCEPT !.value = Append(r.value, IF c = "+" THEN " " ELSE c)]

\* After the first k characters of s.
Reading(s) ==
  LET read[k \in 0..Len(s)] == IF k = 0 THEN Unread ELSE Read(read[k - 1], s[k])
  IN  read

Received ==
  LET r == Reading(target)[Len(target)]
  IN  IF r.name = "" THEN r.got ELSE Append(r.got, <<r.name, r.value>>)

Reserved == {"&", "%", "#"}

\* Telegram receives the parameters that are meant, spaces, line breaks and
\* pluses included, however often a text has been encoded; the characters that
\* the code leaves alone though a query gives them a meaning are excepted.
ParamsArrive ==
  LET meant == Meant(message)
  IN  stage = "sent" /\ (\A i \in 1..Len(meant) : ToSet(meant[i][2]) \cap Reserved = {})
        => Received = meant

\* Row i of two languages, the last one of one if there is no other.
Row(i) == SubSeq(Languages, 2*i - 1, IF 2*i <= Len(Languages) THEN 2*i ELSE Len(Languages))

\* A user who asks for the language sees every language once, in the order of
\* the table, in rows that are full but for the last.
KeyboardOffersEveryLanguage ==
  stage = "sent" /\ message.kind = "command" /\ Asks(message, "language") =>
    params[4] = <<"reply_markup", serialize([i \in 1..((Len(Languages) + 1) \div 2) |-> Row(i)])>>

\* A turn of the loop leaves less of the string to be searched, whatever it puts
\* in; with nothing to be found the next replacement begins.
TurnAdvances ==
  stage' = stage =>
    \/ round' = round + 1
    \/ round' = round /\ Len(str') - start_pos' < Len(str) - start_pos

EveryTurnAdvances == [][TurnAdvances]_requestVars

\* Nothing that is to be replaced is left.
TargetIsClean == \A k \in 1..Len(target) : target[k] \notin {" ", "\n", "+"}

\* Every request is sent, and nothing the code replaces is left in a target: the
\* loops come to an end, since what they put in is never searched again.
RequestIsSent == <>(stage = "sent" /\ TargetIsClean)
==============================================================================
