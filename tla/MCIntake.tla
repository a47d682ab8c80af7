-------------------------------- MODULE MCIntake --------------------------------
(* The receiver and the way of the voice messages, side by side: a behaviour  *)
(* goes through one of them.  Telegram has three updates, which it answers    *)
(* two at a time, and an int just holds their offsets; offset_ starts as zero *)
(* or as a value that would confirm updates nobody has seen.                  *)
EXTENDS MCVoicePipeline, UpdatesReceiver

VARIABLE part

MCIndeterminate == {0, LastId + 1}

ASSUME IdsFit == IdsFitInt

IntakeInit ==
  /\ part \in {"receiver", "voice"}
  /\ ReceiverInit /\ Init
  /\ part = "receiver" \/ (offset = 0 /\ conn = "resolving")

IntakeNext ==
  /\ UNCHANGED part
  /\ \/ part = "receiver" /\ ReceiverNext /\ UNCHANGED vars
     \/ part = "voice" /\ Next /\ UNCHANGED receiverVars

\* The fairness of the receiver, where it is at work: see ReceiverSpec.  What is
\* fair to the pipeline is never enabled while it has no message.
IntakeSpec ==
  /\ IntakeInit /\ [][IntakeNext]_<<part, receiverVars, vars>>
  /\ WF_receiverVars(part = "receiver" /\ handlers)
  /\ WF_receiverVars(part = "receiver" /\ Serve)
  /\ Fairness
================================================================================
