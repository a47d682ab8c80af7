--------------------------- MODULE UpdatesReceiver ---------------------------
(***************************************************************************)
(* updates_receiver: one chain of asynchronous operations that polls the   *)
(* Telegram method getUpdates over one TLS connection, pushes what it gets *)
(* into the queue and acknowledges it with the offset of the next request. *)
(* Any error, and a server that closes the connection, starts a new        *)
(* connection with a request that has no offset.                           *)
(* The Telegram server is not part of the repository: it is modelled from  *)
(* what the code expects of getUpdates, and marked external.               *)
(***************************************************************************)
EXTENDS Integers, FiniteSets

CONSTANTS
  FirstId, LastId, \* the update ids the server may hand out, in this order
  Limit,           \* the server answers with at most this many updates
  IntMax,          \* INT_MAX
  Indeterminate,   \* what offset_, which no constructor sets, may hold at first
  NoOffset,        \* the target of a request without the offset parameter
  NoReply,         \* the server has not answered the current request
  MaxDisturbances  \* bound: I/O errors, closed connections, refused requests

Ids == FirstId..LastId
Offsets == -(IntMax + 1)..IntMax
Targets == Offsets \cup {NoOffset}
Replies == [kind : {"updates", "refused", "malformed"},
            updates : SUBSET Ids, close : BOOLEAN]

ASSUME ReceiverAssumption ==
  /\ FirstId \in Nat \ {0} /\ LastId \in Nat /\ FirstId <= LastId
  /\ Limit \in Nat \ {0}
  /\ IntMax \in Nat \ {0}
  /\ Indeterminate \subseteq Offsets
  /\ NoOffset \notin Int /\ NoReply \notin Replies
  /\ MaxDisturbances \in Nat

\* calculate_offset returns an int: its result is exact only under this bound.
IdsFitInt == LastId < IntMax

VARIABLES
  newest,       \* server: the last id handed out
  pending,      \* server: the updates it still holds
  orphans,      \* server: requests of broken connections it may still serve
  reply,        \* server: its answer to the current request
  peer_gone,    \* server: it has closed the connection the client still uses
  conn,         \* the operation of the chain that is under way
  is_offset,    \* is_offset_
  offset,       \* offset_
  target,       \* the offset in request_'s target
  pushed,       \* history: the updates pushed into the queue
  since_reset,  \* history: those pushed since the last reset
  disturbances  \* disturbances so far

server == <<newest, pending, orphans>>
history == <<pushed, since_reset>>
receiverVars == <<newest, pending, orphans, reply, peer_gone, conn, is_offset, offset,
          target, pushed, since_reset, disturbances>>

Issued == FirstId..newest
Steps == {"resolving", "connecting", "handshaking", "writing", "reading"}

ReceiverTypeOK ==
  /\ newest \in (FirstId - 1)..LastId
  /\ pending \subseteq Issued
  /\ orphans \subseteq Targets
  /\ reply \in Replies \cup {NoReply}
  /\ reply # NoReply =>
       /\ conn = "reading"
       /\ reply.updates \subseteq Issued
       /\ reply.kind # "updates" => reply.updates = {}
  /\ peer_gone \in BOOLEAN
  /\ conn \in Steps \cup {"stopped", "terminated"}
  /\ is_offset \in BOOLEAN
  /\ offset \in Offsets
  /\ target \in Targets
  /\ since_reset \subseteq pushed /\ pushed \subseteq Issued
  /\ disturbances \in 0..MaxDisturbances

Disturb == disturbances < MaxDisturbances /\ disturbances' = disturbances + 1
Calm == UNCHANGED disturbances

------------------------------------------------------------------------------
(* The Telegram server.                                                    *)

\* An offset confirms the updates below it; a negative one, all but the last.
Unconfirmed(S, t) ==
  IF t = NoOffset THEN S
  ELSE IF t >= 0 THEN {u \in S : u >= t}
  ELSE {u \in S : Cardinality({v \in S : v > u}) < -t}

Oldest(S) == {u \in S : Cardinality({v \in S : v < u}) < Limit}

Issue ==
  /\ newest < LastId
  /\ newest' = newest + 1
  /\ pending' = pending \cup {newest + 1}
  /\ UNCHANGED <<orphans, reply, peer_gone, conn, is_offset, offset, target,
                 history, disturbances>>

Answer(kind, updates) ==
  \E close \in BOOLEAN :
    /\ reply' = [kind |-> kind, updates |-> updates, close |-> close]
    /\ IF close \/ kind = "refused" THEN Disturb ELSE Calm

\* The request of the current connection reaches the server.
Serve ==
  /\ conn = "reading" /\ reply = NoReply /\ ~peer_gone
  /\ \/ /\ pending' = Unconfirmed(pending, target)
        /\ Answer("updates", Oldest(pending'))
     \/ /\ UNCHANGED pending
        /\ \E kind \in {"refused", "malformed"} : Answer(kind, {})
  /\ UNCHANGED <<newest, orphans, peer_gone, conn, is_offset, offset, target, history>>

\* So does, late, one whose connection the client has given up.
ServeOrphan ==
  /\ \E t \in orphans :
       /\ pending' = Unconfirmed(pending, t)
       /\ orphans' = orphans \ {t}
  /\ UNCHANGED <<newest, reply, peer_gone, conn, is_offset, offset, target,
                 history, disturbances>>

------------------------------------------------------------------------------
(* get_method, get_target, run and reset.                                  *)

\* Variant with a fault: is_offset_ is not consulted.
get_target_unguarded(with, o) == o

get_target(with, o) == IF with THEN o ELSE NoOffset

\* The connection starts over.  If the TLS host name cannot be set, run logs
\* the error and returns: the request has no target and nothing is under way.
run ==
  \/ conn' = "resolving" /\ target' = get_target(is_offset', offset')
  \/ conn' = "stopped" /\ target' = NoOffset

reset ==
  /\ is_offset' = FALSE
  /\ reply' = NoReply
  /\ peer_gone' = FALSE
  /\ since_reset' = {}

\* A request that was sent and not answered may be served after the reset.
Abandon ==
  orphans' = IF conn \in {"writing", "reading"} /\ reply = NoReply /\ ~peer_gone
             THEN orphans \cup {target} ELSE orphans

\* The branch if(ec) of every handler.
Fail ==
  /\ IF peer_gone THEN Calm ELSE Disturb
  /\ Abandon
  /\ reset
  /\ UNCHANGED offset
  /\ run
  /\ UNCHANGED <<newest, pending, pushed>>

Proceed(step) ==
  /\ conn' = step
  /\ UNCHANGED <<server, reply, peer_gone, is_offset, offset, target, history, disturbances>>

------------------------------------------------------------------------------
(* The completion handlers.                                                *)

on_resolve == conn = "resolving" /\ (Fail \/ Proceed("connecting"))

on_connect == conn = "connecting" /\ (Fail \/ Proceed("handshaking"))

on_handshake == conn = "handshaking" /\ (Fail \/ Proceed("writing"))

on_write == conn = "writing" /\ (Fail \/ Proceed("reading"))

\* Conversion of a 64 bit integer to int.
ToInt(n) == ((n + IntMax + 1) % (2 * (IntMax + 1))) - (IntMax + 1)

\* Variant with a fault: the largest id itself.
calculate_offset_of_last(updates) ==
  {ToInt(max) : max \in {m \in updates : \A u \in updates : u <= m}}

\* The one id that follows the largest.
calculate_offset(updates) ==
  {ToInt(max + 1) : max \in {m \in updates : \A u \in updates : u <= m}}

\* Variant with a fault: calculate_offset does not set is_offset_.
is_offset_never_set == is_offset

\* calculate_offset also sets is_offset_.
is_offset_after_read == is_offset \/ reply.updates # {}

\* What on_read does with a well formed body: push, then the offset.
handle_body ==
  IF reply.kind = "updates" /\ reply.updates # {}
  THEN pushed' = pushed \cup reply.updates /\ offset' \in calculate_offset(reply.updates)
  ELSE UNCHANGED <<pushed, offset>>

\* Variant with a fault: the response is not cleared.
response_kept ==
  /\ handle_body
  /\ is_offset' = is_offset_after_read
  /\ target' = get_target(is_offset', offset')
  /\ conn' = "writing"
  /\ peer_gone' = reply.close
  /\ since_reset' = since_reset \cup reply.updates
  /\ UNCHANGED <<orphans, reply>>

\* The next request goes out on the same connection.  The header field that is
\* compared with "close" is a view into the response that has just been
\* assigned over, so the comparison may miss that the server has closed.
write_again ==
  /\ handle_body
  /\ is_offset' = is_offset_after_read
  /\ target' = get_target(is_offset', offset')
  /\ conn' = "writing"
  /\ reply' = NoReply
  /\ peer_gone' = reply.close
  /\ since_reset' = since_reset \cup reply.updates
  /\ UNCHANGED orphans

\* The offset that has just been calculated does not survive the reset.
reset_and_run ==
  /\ reply.close
  /\ handle_body
  /\ reset
  /\ run
  /\ UNCHANGED orphans

\* parse, as_object, as_bool or as_array throws in an io_context thread.
terminate ==
  /\ reply.kind = "malformed"
  /\ conn' = "terminated"
  /\ reply' = NoReply
  /\ UNCHANGED <<orphans, peer_gone, is_offset, offset, target, history>>

on_read ==
  /\ conn = "reading"
  /\ \/ Fail
     \/ /\ reply # NoReply
        /\ \/ terminate
           \/ reply.kind # "malformed" /\ (write_again \/ reset_and_run)
        /\ Calm
        /\ UNCHANGED <<newest, pending>>

------------------------------------------------------------------------------
ReceiverInit ==
  /\ newest = FirstId - 1
  /\ pending = {} /\ orphans = {}
  /\ reply = NoReply /\ peer_gone = FALSE
  /\ is_offset = FALSE /\ offset \in Indeterminate
  /\ conn \in {"resolving", "stopped"} /\ target = NoOffset
  /\ pushed = {} /\ since_reset = {}
  /\ disturbances = 0

handlers == on_resolve \/ on_connect \/ on_handshake \/ on_write \/ on_read

ReceiverNext == Issue \/ Serve \/ ServeOrphan \/ handlers

\* The io_context runs every completed handler, and a server with a request
\* on a live connection answers it.  Telegram need not hand out any update.
ReceiverSpec ==
  /\ ReceiverInit /\ [][ReceiverNext]_receiverVars
  /\ WF_receiverVars(handlers) /\ WF_receiverVars(Serve)

------------------------------------------------------------------------------
\* The server forgets an update only after it has been pushed into the queue,
\* whatever connections break and however late an abandoned request is served.
ConfirmedWerePushed == Issued \ pending \subseteq pushed

\* Between two resets no update is answered, hence pushed, a second time: the
\* offset of every request is above all that the connection has delivered.
NoRepeatWithinConnection ==
  reply # NoReply => reply.updates \cap since_reset = {}

Dead == conn \in {"stopped", "terminated"}

\* When disturbances cease, every update is pushed and then acknowledged, so
\* the server stops sending it, unless the receiver has died on the way.
EveryUpdateAcknowledged ==
  \A u \in Ids : u \in pending ~> (u \in pushed /\ u \notin pending) \/ Dead
==============================================================================
