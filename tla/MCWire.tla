-------------------------------- MODULE MCWire --------------------------------
(* The parts that work alone, side by side: a behaviour goes through base64,  *)
(* through one request to Telegram, through one session or through the queue, *)
(* and the others stay as they are. The bytes have the bits of both ends set  *)
(* and give the last two letters of the alphabet; the texts hold every        *)
(* character that is replaced; one session has a callback and the other has   *)
(* none. Two io threads push into the queue, an array of two objects, a       *)
(* single object or an empty array, and two processor threads pop.            *)
EXTENDS Base64, Session, TelegramRequest, ThreadsafeQueue

CONSTANTS
  getFile, sendMessage, \* sessions
  obj1, obj2, obj3      \* objects for the queue

VARIABLE part

MCInputs == UNION {[1..n -> {0, 62, 251, 255}] : n \in 0..4}

\* Padding anywhere among letters, and a character outside the alphabet.
MCGivenTexts ==
  UNION {[1..n -> {65, 61}] : n \in 0..8} \cup UNION {[1..n -> {65, 61, 45}] : n \in 0..4}

Texts == UNION {[1..n -> {"a", " ", "+", "\n"}] : n \in 0..3}

MCMessages ==
  [kind : {"transcript"}, text : Texts \cup {<<"R", "&", "B">>, <<"%">>}]
    \cup {[kind |-> "button"]}
    \cup [kind : {"command"}, chat_type : {"group", "private", "channel"},
          entities : {<<>>, <<"bot_command">>, <<"url", "bot_command">>},
          text : {<<"/", "help", "@bot">>, <<"/", "help">>, <<"help">>, <<"a">>,
                  <<"/", "language", "@bot">>, <<"/", "language">>, <<"language">>}]

MCLanguages == <<"ru-Ru", "en-US", "fr-FR", "es-ES", "de-DE">>
MCHelp == <<"It", " ", "\n", "\n", "+", " ">>

MCWords == {"a", "R", "B", "It"} \cup ToSet(MCLanguages)

MCObjects == {obj1, obj2, obj3}
MCBatches == {<<obj1, obj2>>, <<obj3>>, <<>>}

\* The parts that a behaviour leaves alone begin with the simplest input.
WireInit ==
  /\ part \in {"base64", "request", "session", "queue"}
  /\ Init
  /\ data = <<>> \/ text = <<>>
  /\ part = "base64" \/ (data = <<>> /\ text = <<>>)
  /\ RequestInit /\ SessionInit /\ QueueInit
  /\ part = "request" \/ message = [kind |-> "button"]

SingleSession(s) == started \subseteq {s} /\ Act(s)

WireNext ==
  /\ UNCHANGED part
  /\ \/ part = "base64" /\ Next /\ UNCHANGED <<requestVars, sessionVars, queueVars>>
     \/ part = "request" /\ RequestNext /\ UNCHANGED <<vars, sessionVars, queueVars>>
     \/ /\ part = "session" /\ UNCHANGED <<vars, requestVars, queueVars>>
        /\ \E s \in Sessions : SingleSession(s)
     \/ part = "queue" /\ QueueNext /\ UNCHANGED <<vars, requestVars, sessionVars>>

\* The fairness of the queue, where it is at work: see QueueFairness.
QueuePartFairness ==
  /\ \A p \in Producers :
       WF_queueVars(part = "queue" /\ (append_element(p) \/ notify_all(p) \/ unlock(p)))
  /\ \A c \in Consumers : WF_queueVars(part = "queue" /\ wait_and_pop(c))

WireSpec ==
  /\ WireInit /\ [][WireNext]_<<part, vars, requestVars, sessionVars, queueVars>>
  /\ WF_requestVars(part = "request" /\ RequestNext)
  /\ SessionFairness
  /\ QueuePartFairness

\* Every request that is worked on is sent, and nothing that the code replaces is
\* left in it, see RequestIsSent.
RequestPartIsSent == part = "request" => RequestIsSent
================================================================================
