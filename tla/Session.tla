------------------------------- MODULE Session --------------------------------
(***************************************************************************)
(* session.cpp: the chain of handlers of a session.  The session lives as  *)
(* long as somebody holds a shared_ptr to it: the statement that made it   *)
(* and called run, the operation under way, the handler that io threads    *)
(* execute.  run and a handler go on after the operation they started, so  *)
(* the next handler may run beside them.                                   *)
(***************************************************************************)
EXTENDS Naturals

CONSTANTS
  Sessions,
  WithCallback  \* those that were given a callback

VARIABLES
  started,   \* sessions that have been made
  holders,   \* whose shared_ptr to the session there are
  pending,   \* the handler that the operation under way will call
  entered,   \* functions of the session before their last statement
  leaving,   \* functions that only have to return
  request,   \* how far the request has got: "here", "written", "served"
  response,  \* the answer has been read
  called     \* calls of the callback

sessionVars == <<started, holders, pending, entered, leaving, request, response, called>>

Functions == {"run", "on_resolve", "on_connect", "on_handshake", "on_write", "on_read", "on_shutdown"}

NoOperation == "no operation"

\* The handler bound to the operation that a function starts.
bind_front_handler ==
  [run |-> "on_resolve", on_resolve |-> "on_connect", on_connect |-> "on_handshake",
   on_handshake |-> "on_write", on_write |-> "on_read", on_read |-> "on_shutdown"]

destroyed(s) == s \in started /\ holders[s] = {}

SessionTypeOK ==
  /\ started \subseteq Sessions
  /\ holders \in [Sessions -> SUBSET Functions]
  /\ pending \in [Sessions -> Functions \cup {NoOperation}]
  /\ entered \in [Sessions -> SUBSET Functions]
  /\ leaving \in [Sessions -> SUBSET Functions]
  /\ request \in [Sessions -> {"here", "written", "served"}]
  /\ response \in [Sessions -> BOOLEAN]
  /\ called \in [Sessions -> 0..1]

SessionInit ==
  /\ started = {}
  /\ holders = [s \in Sessions |-> {}]
  /\ pending = [s \in Sessions |-> NoOperation]
  /\ entered = [s \in Sessions |-> {}]
  /\ leaving = [s \in Sessions |-> {}]
  /\ request = [s \in Sessions |-> "here"]
  /\ response = [s \in Sessions |-> FALSE]
  /\ called = [s \in Sessions |-> 0]

------------------------------------------------------------------------------
\* make_shared<session>(...)->run(service)
run(s) ==
  /\ s \notin started
  /\ started' = started \cup {s}
  /\ holders' = [holders EXCEPT ![s] = {"run"}]
  /\ entered' = [entered EXCEPT ![s] = {"run"}]
  /\ UNCHANGED <<pending, leaving, request, response, called>>

Leave(s, f) ==
  /\ entered' = [entered EXCEPT ![s] = @ \ {f}]
  /\ leaving' = [leaving EXCEPT ![s] = @ \cup {f}]

\* Variant with a fault: the handler is bound to this.
start_unheld(s, f) ==
  /\ pending' = [pending EXCEPT ![s] = bind_front_handler[f]]
  /\ UNCHANGED holders

\* The next operation, its handler bound to shared_from_this().
start(s, f) ==
  /\ pending' = [pending EXCEPT ![s] = bind_front_handler[f]]
  /\ holders' = [holders EXCEPT ![s] = @ \cup {bind_front_handler[f]}]

\* What has to be done before a function starts the next operation.
Ready(s, f) == f = "on_read" => response[s] /\ (s \in WithCallback => called[s] > 0)

\* The host name has been set, or the handler has seen no error.
go_on(s, f) ==
  /\ f \in entered[s] \ {"on_shutdown"} /\ Ready(s, f)
  /\ start(s, f)
  /\ Leave(s, f)
  /\ UNCHANGED <<started, request, response, called>>

\* Variant with a fault: the callback is called whatever the error is.
callback_always(s) ==
  /\ "on_read" \in entered[s] /\ s \in WithCallback /\ called[s] = 0
  /\ called' = [called EXCEPT ![s] = @ + 1]
  /\ UNCHANGED <<started, holders, pending, entered, leaving, request, response>>

\* Variant with a fault: nothing tells that it has been called.
callback_again(s) ==
  /\ "on_read" \in entered[s] /\ response[s] /\ s \in WithCallback
  /\ called' = [called EXCEPT ![s] = @ + 1]
  /\ UNCHANGED <<started, holders, pending, entered, leaving, request, response>>

callback(s) ==
  /\ "on_read" \in entered[s] /\ response[s] /\ s \in WithCallback /\ called[s] = 0
  /\ called' = [called EXCEPT ![s] = @ + 1]
  /\ UNCHANGED <<started, holders, pending, entered, leaving, request, response>>

\* The error is logged.  Nothing follows on_shutdown, error or not.
give_up(s, f) ==
  /\ f \in entered[s] /\ (f = "on_read" => ~response[s])
  /\ Leave(s, f)
  /\ UNCHANGED <<started, holders, pending, request, response, called>>

\* Variant with a fault: the last shared_ptr is kept somewhere.
return_holding(s, f) ==
  /\ f \in leaving[s]
  /\ leaving' = [leaving EXCEPT ![s] = @ \ {f}]
  /\ UNCHANGED <<started, holders, pending, entered, request, response, called>>

return(s, f) ==
  /\ f \in leaving[s]
  /\ leaving' = [leaving EXCEPT ![s] = @ \ {f}]
  /\ holders' = [holders EXCEPT ![s] = @ \ {f}]
  /\ UNCHANGED <<started, pending, entered, request, response, called>>

------------------------------------------------------------------------------
(* The io_context, the network and the service.                            *)

\* The operation ends, well or badly; the answer is read only if there is one.
complete(s) ==
  /\ pending[s] # NoOperation
  /\ entered' = [entered EXCEPT ![s] = @ \cup {pending[s]}]
  /\ pending' = [pending EXCEPT ![s] = NoOperation]
  /\ \/ UNCHANGED response
     \/ pending[s] = "on_read" /\ request[s] = "served" /\ response' = [response EXCEPT ![s] = TRUE]
  /\ UNCHANGED <<started, holders, leaving, request, called>>

\* The whole request has gone out, before async_write ends or fails.
transmit(s) ==
  /\ pending[s] = "on_write" /\ request[s] = "here"
  /\ request' = [request EXCEPT ![s] = "written"]
  /\ UNCHANGED <<started, holders, pending, entered, leaving, response, called>>

serve(s) ==
  /\ request[s] = "written"
  /\ request' = [request EXCEPT ![s] = "served"]
  /\ UNCHANGED <<started, holders, pending, entered, leaving, response, called>>

Execute(s) ==
  \/ \E f \in Functions : go_on(s, f) \/ give_up(s, f) \/ return(s, f)
  \/ callback(s)

Act(s) == run(s) \/ Execute(s) \/ complete(s) \/ transmit(s) \/ serve(s)

SessionNext == \E s \in Sessions : Act(s)

\* Threads execute what they have begun and operations end; nobody has to
\* start a session and no service has to answer.
SessionFairness ==
  \A s \in Sessions : WF_sessionVars(Execute(s)) /\ WF_sessionVars(complete(s))

SessionSpec == SessionInit /\ [][SessionNext]_sessionVars /\ SessionFairness

------------------------------------------------------------------------------
\* While a function of the session is executed or an operation will call one,
\* the session exists: each of them holds a shared_ptr of its own.
NotUsedAfterDestruction ==
  \A s \in Sessions :
    /\ entered[s] \cup leaving[s] \subseteq holders[s]
    /\ pending[s] # NoOperation => pending[s] \in holders[s]

\* The answer has taken effect: by the callback, or when there is none to call.
Answered(s) == IF s \in WithCallback THEN called[s] > 0 ELSE response[s]

Step == INSTANCE SessionStep WITH
  state <- [s \in Sessions |->
              IF s \notin started THEN "new"
              ELSE IF Answered(s) THEN "answered"
              ELSE IF destroyed(s) THEN "failed"
              ELSE "running"],
  served <- [s \in Sessions |-> request[s] = "served"]

\* The chain of handlers is one step to everybody else: a callback once at most,
\* with the answer to this request, and never after a failure.
ImplementsSessionStep == Step!Spec

\* A session that has been started is destroyed in the end.
EverySessionEnds == \A s \in Sessions : s \in started ~> destroyed(s)
==============================================================================
