------------------------ MODULE UpdatesReceiverProofs ------------------------
(***************************************************************************)
(* For any ids that fit an int, any limit of the server and any number of  *)
(* disturbances: the receiver is well typed, the server never forgets an   *)
(* update that has not been pushed, and no connection delivers one twice.  *)
(***************************************************************************)
EXTENDS UpdatesReceiver, FiniteSetTheorems, TLAPS

\* A target confirms only what has been pushed, and nothing still to come.
Sound(t) ==
  t \in Int => t \in FirstId..(newest + 1) /\ FirstId..(t - 1) \subseteq pushed

\* An answer has no holes: what it leaves out below its last update has been
\* pushed before.
Gapless(r) ==
  \A u \in pending : (\E m \in r.updates : u <= m) => u \in r.updates \cup pushed

OffsetInv ==
  /\ is_offset => Sound(offset)
  /\ Sound(target)
  /\ \A t \in orphans : Sound(t)
  /\ conn \in Steps => target = get_target(is_offset, offset)
  /\ reply # NoReply => Gapless(reply)

\* The offset of the next request is above all the connection has delivered.
RepeatInv ==
  /\ since_reset # {} => is_offset /\ \A u \in since_reset : u < offset
  /\ reply # NoReply /\ target \in Int => \A u \in reply.updates : u >= target

Inv == ReceiverTypeOK /\ ConfirmedWerePushed /\ OffsetInv /\ RepeatInv

------------------------------------------------------------------------------
(* Arithmetic of the offset.                                               *)

\* A number that fits an int is not changed by the conversion.
LEMMA ToIntExact ==
  ASSUME NEW n \in Nat, n <= IntMax PROVE ToInt(n) = n
<1>1. IntMax \in Nat \ {0}
  BY ReceiverAssumption
<1>2. n + IntMax + 1 \in 0..(2 * (IntMax + 1) - 1)
  BY <1>1
<1>3. (n + IntMax + 1) % (2 * (IntMax + 1)) = n + IntMax + 1
  BY <1>1, <1>2
<1> QED
  BY <1>1, <1>3 DEF ToInt

\* Whatever is converted, an int comes out.
LEMMA ToIntType == ASSUME NEW n \in Int PROVE ToInt(n) \in Offsets
<1>1. IntMax \in Nat \ {0}
  BY ReceiverAssumption
<1>2. (n + IntMax + 1) % (2 * (IntMax + 1)) \in 0..(2 * (IntMax + 1) - 1)
  BY <1>1
<1> QED
  BY <1>1, <1>2 DEF ToInt, Offsets

\* calculate_offset returns the id after the largest.
LEMMA OffsetExact ==
  ASSUME IdsFitInt, NEW updates \in SUBSET Ids, NEW o \in calculate_offset(updates)
  PROVE  /\ o \in FirstId..(LastId + 1)
         /\ \A u \in updates : u < o
         /\ o - 1 \in updates
<1>1. PICK max \in updates : (\A u \in updates : u <= max) /\ o = ToInt(max + 1)
  BY DEF calculate_offset
<1>2. max \in Nat /\ max + 1 \in Nat /\ max + 1 <= IntMax
  BY ReceiverAssumption DEF IdsFitInt, Ids
<1>3. o = max + 1
  BY <1>1, <1>2, ToIntExact
<1> QED
  BY <1>1, <1>3, ReceiverAssumption DEF Ids

------------------------------------------------------------------------------
(* The server's answer.                                                    *)

\* What is older than an update of the answer is in the answer too.
LEMMA OldestFirst ==
  ASSUME NEW S \in SUBSET Ids, NEW m \in Oldest(S), NEW u \in S, u <= m
  PROVE  u \in Oldest(S)
<1> DEFINE below(x) == {v \in S : v < x}
<1>1. IsFiniteSet(Ids)
  BY FS_Interval, ReceiverAssumption DEF Ids
<1>2. IsFiniteSet(below(m))
  BY <1>1, FS_Subset
<1>3. below(u) \subseteq below(m)
  <2>1. S \subseteq Int /\ m \in S
    BY ReceiverAssumption DEF Oldest, Ids
  <2>2. u \in Int /\ m \in Int /\ \A v \in S : v \in Int
    BY <2>1
  <2>3. \A v \in S : v < u => v < m
    BY <2>2
  <2> QED
    BY <2>3
<1>4. Cardinality(below(u)) <= Cardinality(below(m))
  BY <1>2, <1>3, FS_Subset
<1>5. IsFiniteSet(below(u))
  BY <1>2, <1>3, FS_Subset
<1>6. Cardinality(below(u)) \in Nat /\ Cardinality(below(m)) \in Nat
  BY <1>2, <1>5, FS_CardinalityType
<1>7. Cardinality(below(m)) < Limit
  BY DEF Oldest
<1> QED
  BY <1>4, <1>6, <1>7, ReceiverAssumption DEF Oldest

\* A sound target makes the server forget pushed updates only.
LEMMA ConfirmsPushed ==
  ASSUME ReceiverTypeOK, NEW t \in Targets, Sound(t)
  PROVE  /\ Unconfirmed(pending, t) \subseteq pending
         /\ pending \ Unconfirmed(pending, t) \subseteq pushed
         /\ t \in Int => \A u \in Unconfirmed(pending, t) : u >= t
<1>1. CASE t = NoOffset
  BY <1>1, ReceiverAssumption DEF Unconfirmed
<1>2. CASE t \in Int
  <2>1. t >= 0
    BY <1>2, ReceiverAssumption DEF Sound
  <2>2. Unconfirmed(pending, t) = {u \in pending : u >= t}
    BY <1>2, <2>1, ReceiverAssumption DEF Unconfirmed
  <2>3. \A u \in pending : u < t => u \in FirstId..(t - 1)
    BY <1>2, ReceiverAssumption DEF ReceiverTypeOK, Issued
  <2>4. FirstId..(t - 1) \subseteq pushed
    BY <1>2 DEF Sound
  <2>5. \A u \in pending : u \in Int
    BY ReceiverAssumption DEF ReceiverTypeOK, Issued
  <2> QED
    BY <1>2, <2>2, <2>3, <2>4, <2>5
<1> QED
  BY <1>1, <1>2 DEF Targets, Offsets

------------------------------------------------------------------------------
(* Types.                                                                  *)

LEMMA TypeStep == ASSUME ReceiverTypeOK, [ReceiverNext]_receiverVars PROVE ReceiverTypeOK'
<1> USE ReceiverAssumption DEF ReceiverTypeOK, Issued, Ids, Targets, Replies, Steps
<1>1. CASE Issue
  BY <1>1 DEF Issue, history
<1>2. CASE Serve
  <2>1. Unconfirmed(pending, target) \subseteq pending
    BY DEF Unconfirmed
  <2>2. Oldest(pending') \subseteq pending'
    BY DEF Oldest
  <2>3. pending' \subseteq pending
    BY <1>2, <2>1 DEF Serve
  <2>4. /\ reply' \in Replies
        /\ reply'.updates \subseteq pending'
        /\ reply'.kind # "updates" => reply'.updates = {}
    <3>1. PICK kind \in {"updates", "refused", "malformed"},
               updates \in SUBSET pending', close \in BOOLEAN :
            /\ reply' = [kind |-> kind, updates |-> updates, close |-> close]
            /\ kind # "updates" => updates = {}
      BY <1>2, <2>2 DEF Serve, Answer
    <3>2. updates \in SUBSET Ids
      BY <2>3
    <3> QED
      BY <3>1, <3>2
  <2>5. disturbances' \in 0..MaxDisturbances
    BY <1>2 DEF Serve, Answer, Disturb, Calm
  <2> QED
    BY <1>2, <2>3, <2>4, <2>5 DEF Serve, history
<1>3. CASE ServeOrphan
  <2>1. \A t \in orphans : Unconfirmed(pending, t) \subseteq pending
    BY DEF Unconfirmed
  <2> QED
    BY <1>3, <2>1 DEF ServeOrphan, history
<1>4. CASE Fail
  <2>1. disturbances' \in 0..MaxDisturbances
    BY <1>4 DEF Fail, Disturb, Calm
  <2>2. orphans' \subseteq Targets
    BY <1>4 DEF Fail, Abandon
  <2>3. conn' \in {"resolving", "stopped"} /\ target' = NoOffset
    BY <1>4 DEF Fail, reset, run, get_target
  <2> QED
    BY <1>4, <2>1, <2>2, <2>3 DEF Fail, reset
<1>5. ASSUME NEW step \in Steps, conn \in Steps \ {"reading"}, Proceed(step) PROVE ReceiverTypeOK'
  BY <1>5 DEF Proceed, server, history
<1>6. CASE on_read /\ ~Fail
  <2>1. \A o \in calculate_offset(reply.updates) :
          reply # NoReply => o \in Offsets
    BY ToIntType DEF calculate_offset
  <2>2. handle_body /\ reply # NoReply
          => /\ offset' \in Offsets /\ pushed' \subseteq Issued
             /\ pushed \subseteq pushed' /\ reply.updates \subseteq pushed'
    BY <2>1 DEF handle_body
  <2>3. CASE write_again
    BY <1>6, <2>2, <2>3 DEF on_read, write_again, Calm, get_target, is_offset_after_read
  <2>4. CASE reset_and_run
    BY <1>6, <2>2, <2>4 DEF on_read, reset_and_run, reset, run, Calm, get_target
  <2>5. CASE terminate
    BY <1>6, <2>5 DEF on_read, terminate, Calm, history
  <2> QED
    BY <1>6, <2>3, <2>4, <2>5 DEF on_read
<1>7. CASE UNCHANGED receiverVars
  BY <1>7 DEF receiverVars
<1> QED
  BY <1>1, <1>2, <1>3, <1>4, <1>5, <1>6, <1>7
  DEF ReceiverNext, handlers, on_resolve, on_connect, on_handshake, on_write

------------------------------------------------------------------------------
(* What on_read does to the offset and to the history.                     *)

LEMMA NothingRead ==
  ASSUME ReceiverTypeOK, reply # NoReply, handle_body, reply.updates = {}
  PROVE  UNCHANGED <<pushed, offset>>
  BY DEF handle_body

\* The new offset confirms the answer, which has been pushed, and what lies
\* below it, which had been pushed before or is in the answer too.
LEMMA SomethingRead ==
  ASSUME IdsFitInt, Inv, reply # NoReply, handle_body, reply.updates # {}
  PROVE  /\ pushed' = pushed \cup reply.updates
         /\ offset' \in FirstId..(newest + 1)
         /\ FirstId..(offset' - 1) \subseteq pushed'
         /\ \A u \in reply.updates : u < offset'
         /\ offset' - 1 \in reply.updates
<1> USE DEF Inv, ReceiverTypeOK
<1>1. pushed' = pushed \cup reply.updates /\ offset' \in calculate_offset(reply.updates)
  BY DEF handle_body
<1>2. reply.updates \in SUBSET Ids /\ reply.updates \subseteq Issued
  BY ReceiverAssumption DEF Replies
<1>3. PICK o \in FirstId..(LastId + 1) :
        o = offset' /\ (\A u \in reply.updates : u < o) /\ o - 1 \in reply.updates
  BY <1>1, <1>2, OffsetExact
<1>4. o \in FirstId..(newest + 1)
  BY <1>2, <1>3, ReceiverAssumption DEF Issued
<1>5. ASSUME NEW u \in FirstId..(o - 1) PROVE u \in pushed'
  <2>1. u \in Issued /\ u <= o - 1
    BY <1>4, ReceiverAssumption DEF Issued
  <2>2. CASE u \notin pending
    BY <1>1, <2>1, <2>2 DEF ConfirmedWerePushed
  <2>3. CASE u \in pending
    BY <1>1, <1>3, <2>1, <2>3 DEF OffsetInv, Gapless
  <2> QED
    BY <2>2, <2>3
<1> QED
  BY <1>1, <1>3, <1>4, <1>5

------------------------------------------------------------------------------
(* The server forgets only what has been pushed.                           *)

LEMMA InitInv == ReceiverInit => Inv
<1> SUFFICES ASSUME ReceiverInit PROVE Inv
  OBVIOUS
<1> USE ReceiverAssumption DEF ReceiverInit
<1>1. Issued = {}
  BY DEF Issued
<1>2. ReceiverTypeOK
  <2>1. newest \in (FirstId - 1)..LastId
    OBVIOUS
  <2>2. offset \in Offsets /\ target \in Targets
    BY DEF Targets
  <2>3. disturbances \in 0..MaxDisturbances
    OBVIOUS
  <2> QED
    BY <1>1, <2>1, <2>2, <2>3 DEF ReceiverTypeOK, Steps
<1>3. OffsetInv
  BY DEF OffsetInv, Sound, get_target
<1>4. ConfirmedWerePushed /\ RepeatInv
  BY <1>1 DEF ConfirmedWerePushed, RepeatInv
<1> QED
  BY <1>2, <1>3, <1>4 DEF Inv

LEMMA ConfirmStep ==
  ASSUME IdsFitInt, Inv, ReceiverTypeOK', [ReceiverNext]_receiverVars
  PROVE  ConfirmedWerePushed' /\ OffsetInv'
<1> USE ReceiverAssumption DEF Inv, OffsetInv
<1>1. CASE Issue
  <2>1. newest \in Int /\ newest' = newest + 1 /\ pending' = pending \cup {newest'}
    BY <1>1 DEF Issue, ReceiverTypeOK
  <2>2. UNCHANGED <<orphans, reply, conn, is_offset, offset, target, pushed>>
    BY <1>1 DEF Issue, history
  <2>3. ConfirmedWerePushed'
    BY <2>1, <2>2 DEF ConfirmedWerePushed, Issued
  <2>4. \A t : Sound(t) => Sound(t)'
    BY <2>1, <2>2 DEF Sound
  <2>5. reply # NoReply => Gapless(reply)'
    BY <2>1, <2>2 DEF Gapless, ReceiverTypeOK, Issued
  <2> QED
    BY <2>2, <2>3, <2>4, <2>5 DEF get_target
<1>2. CASE Serve
  <2>1. UNCHANGED <<newest, orphans, conn, is_offset, offset, target, pushed>>
    BY <1>2 DEF Serve, history
  <2>2. \A t : Sound(t) => Sound(t)'
    BY <2>1 DEF Sound
  <2>3. target \in Targets
    BY DEF ReceiverTypeOK
  <2>4. pending' \subseteq pending /\ pending \ pending' \subseteq pushed
    BY <1>2, <2>3, ConfirmsPushed DEF Serve
  <2>5. ConfirmedWerePushed'
    BY <2>1, <2>4 DEF ConfirmedWerePushed, Issued
  <2>6. reply'.updates = {} \/ reply'.updates = Oldest(pending')
    BY <1>2 DEF Serve, Answer
  <2>7. pending' \in SUBSET Ids
    BY <2>4 DEF ReceiverTypeOK, Issued, Ids
  <2>8. Gapless(reply)'
    BY <2>6, <2>7, OldestFirst DEF Gapless
  <2> QED
    BY <2>1, <2>2, <2>5, <2>8 DEF get_target
<1>3. CASE ServeOrphan
  <2>1. UNCHANGED <<newest, reply, conn, is_offset, offset, target, pushed>>
    BY <1>3 DEF ServeOrphan, history
  <2>2. \A t : Sound(t) => Sound(t)'
    BY <2>1 DEF Sound
  <2>3. orphans' \subseteq orphans /\ orphans \subseteq Targets
    BY <1>3 DEF ServeOrphan, ReceiverTypeOK
  <2>4. pending' \subseteq pending /\ pending \ pending' \subseteq pushed
    BY <1>3, <2>3, ConfirmsPushed DEF ServeOrphan
  <2>5. ConfirmedWerePushed'
    BY <2>1, <2>4 DEF ConfirmedWerePushed, Issued
  <2>6. reply # NoReply => Gapless(reply)'
    BY <2>1, <2>4 DEF Gapless
  <2> QED
    BY <2>1, <2>2, <2>3, <2>5, <2>6 DEF get_target
<1>4. CASE Fail
  <2>1. UNCHANGED <<newest, pending, offset, pushed>> /\ is_offset' = FALSE
        /\ reply' = NoReply /\ target' = NoOffset
    BY <1>4 DEF Fail, reset, run, get_target
  <2>2. \A t : Sound(t) => Sound(t)'
    BY <2>1 DEF Sound
  <2>3. orphans' \subseteq orphans \cup {target}
    BY <1>4 DEF Fail, Abandon
  <2>4. Sound(NoOffset)'
    BY DEF Sound
  <2> QED
    BY <2>1, <2>2, <2>3, <2>4 DEF ConfirmedWerePushed, Issued, get_target
<1>5. ASSUME NEW step \in Steps, conn \in Steps, Proceed(step)
      PROVE ConfirmedWerePushed' /\ OffsetInv'
  BY <1>5 DEF Proceed, server, history, ConfirmedWerePushed, Issued, Sound, Gapless, get_target
<1>6. CASE on_read /\ ~Fail
  <2>1. reply # NoReply /\ conn = "reading" /\ UNCHANGED <<newest, pending, orphans>>
        /\ reply' = NoReply
    BY <1>6 DEF on_read, write_again, reset_and_run, reset, terminate
  <2>2. CASE terminate
    BY <2>1, <2>2
    DEF terminate, history, ConfirmedWerePushed, Issued, Sound, Steps
  <2>3. ASSUME handle_body
        PROVE  /\ pushed \subseteq pushed'
               /\ (is_offset \/ reply.updates # {}) => Sound(offset)'
    <3>1. CASE reply.updates = {}
      BY <2>1, <2>3, <3>1, NothingRead DEF Sound
    <3>2. CASE reply.updates # {}
      BY <2>1, <2>3, <3>2, SomethingRead DEF Sound
    <3> QED
      BY <3>1, <3>2
  <2>4. ASSUME handle_body PROVE ConfirmedWerePushed' /\ \A t : Sound(t) => Sound(t)'
    BY <2>1, <2>3, <2>4 DEF ConfirmedWerePushed, Issued, Sound
  <2>5. Sound(NoOffset)'
    BY DEF Sound
  <2>6. CASE write_again
    BY <2>1, <2>3, <2>4, <2>5, <2>6 DEF write_again, get_target, is_offset_after_read
  <2>7. CASE reset_and_run
    BY <2>1, <2>3, <2>4, <2>5, <2>7 DEF reset_and_run, reset, run, get_target
  <2> QED
    BY <1>6, <2>2, <2>6, <2>7 DEF on_read
<1>7. CASE UNCHANGED receiverVars
  BY <1>7 DEF receiverVars, ConfirmedWerePushed, Issued, Sound, Gapless, get_target
<1> QED
  BY <1>1, <1>2, <1>3, <1>4, <1>5, <1>6, <1>7
  DEF ReceiverNext, handlers, on_resolve, on_connect, on_handshake, on_write, Steps

------------------------------------------------------------------------------
(* No connection delivers an update twice.                                 *)

LEMMA RepeatStep == ASSUME IdsFitInt, Inv, ReceiverTypeOK', [ReceiverNext]_receiverVars PROVE RepeatInv'
<1> USE ReceiverAssumption DEF Inv, RepeatInv
<1>1. CASE Issue
  BY <1>1 DEF Issue, history
<1>2. CASE Serve
  <2>1. UNCHANGED <<is_offset, offset, target, since_reset>>
    BY <1>2 DEF Serve, history
  <2>2. target \in Targets /\ Sound(target)
    BY DEF ReceiverTypeOK, OffsetInv
  <2>3. \/ reply'.updates = {}
        \/ /\ reply'.updates = Oldest(pending')
           /\ pending' = Unconfirmed(pending, target)
    BY <1>2 DEF Serve, Answer
  <2>4. Oldest(pending') \subseteq pending'
    BY DEF Oldest
  <2>5. target \in Int => \A u \in reply'.updates : u >= target
    BY <2>2, <2>3, <2>4, ConfirmsPushed
  <2> QED
    BY <2>1, <2>5
<1>3. CASE ServeOrphan
  BY <1>3 DEF ServeOrphan, history
<1>4. CASE Fail
  BY <1>4 DEF Fail, reset
<1>5. ASSUME NEW step \in Steps, conn \in Steps, Proceed(step) PROVE RepeatInv'
  BY <1>5 DEF Proceed, history
<1>6. CASE on_read /\ ~Fail
  <2>1. reply # NoReply /\ conn = "reading"
    BY <1>6 DEF on_read
  <2>2. CASE terminate
    BY <2>2 DEF terminate, history
  <2>3. CASE reset_and_run
    BY <2>3 DEF reset_and_run, reset
  <2>4. CASE write_again
    <3>1. /\ handle_body /\ reply' = NoReply
          /\ is_offset' = (is_offset \/ reply.updates # {})
          /\ since_reset' = since_reset \cup reply.updates
      BY <2>4 DEF write_again, is_offset_after_read
    <3>2. CASE reply.updates = {}
      BY <2>1, <3>1, <3>2, NothingRead
    <3>3. CASE reply.updates # {}
      <4>1. PICK o \in Int :
              o = offset' /\ (\A u \in reply.updates : u < o) /\ o - 1 \in reply.updates
        BY <2>1, <3>1, <3>3, SomethingRead
      <4>2. ASSUME NEW u \in since_reset PROVE u < o
        <5>1. is_offset /\ u < offset /\ target = offset
          BY <2>1 DEF OffsetInv, Steps, get_target
        <5>2. offset \in Int /\ u \in Int
          BY DEF ReceiverTypeOK, Offsets, Issued
        <5>3. o - 1 >= offset
          BY <2>1, <4>1, <5>1, <5>2
        <5> QED
          BY <5>1, <5>2, <5>3
      <4> QED
        BY <3>1, <3>3, <4>1, <4>2
    <3> QED
      BY <3>2, <3>3
  <2> QED
    BY <1>6, <2>2, <2>3, <2>4 DEF on_read
<1>7. CASE UNCHANGED receiverVars
  BY <1>7 DEF receiverVars
<1> QED
  BY <1>1, <1>2, <1>3, <1>4, <1>5, <1>6, <1>7
  DEF ReceiverNext, handlers, on_resolve, on_connect, on_handshake, on_write, Steps

------------------------------------------------------------------------------
\* The variables of updates_receiver and of the server stay what they are
\* declared to be, whether or not the ids fit an int.
THEOREM TypeCorrect == ReceiverSpec => []ReceiverTypeOK
<1>1. ReceiverInit => ReceiverTypeOK
  BY InitInv DEF Inv
<1>2. ReceiverTypeOK /\ [ReceiverNext]_receiverVars => ReceiverTypeOK'
  BY TypeStep
<1> QED
  BY <1>1, <1>2, PTL DEF ReceiverSpec

\* The inductive invariant holds in every reachable state.
LEMMA Invariance == ASSUME IdsFitInt PROVE ReceiverSpec => []Inv
<1>1. Inv /\ [ReceiverNext]_receiverVars => Inv'
  BY TypeStep, ConfirmStep, RepeatStep DEF Inv
<1> QED
  BY <1>1, InitInv, PTL DEF ReceiverSpec

\* The offset never confirms an update that has not been pushed into the
\* queue: not after a reset, and not when an abandoned request arrives late.
THEOREM NothingForgottenUnseen == ASSUME IdsFitInt PROVE ReceiverSpec => []ConfirmedWerePushed
<1>1. Inv => ConfirmedWerePushed
  BY DEF Inv
<1> QED
  BY <1>1, Invariance, PTL

\* Between two resets the server never answers with an update it has already
\* delivered, so none is pushed twice.
THEOREM NothingRepeated == ASSUME IdsFitInt PROVE ReceiverSpec => []NoRepeatWithinConnection
<1>1. Inv => NoRepeatWithinConnection
  <2> SUFFICES ASSUME Inv, reply # NoReply, NEW u \in reply.updates \cap since_reset
               PROVE FALSE
    BY DEF NoRepeatWithinConnection
  <2>1. is_offset /\ u < offset /\ target = offset
    BY DEF Inv, ReceiverTypeOK, OffsetInv, RepeatInv, Steps, get_target
  <2>2. offset \in Int /\ u \in Int
    BY ReceiverAssumption DEF Inv, ReceiverTypeOK, Offsets, Issued
  <2> QED
    BY <2>1, <2>2 DEF Inv, RepeatInv
<1> QED
  BY <1>1, Invariance, PTL
==============================================================================
