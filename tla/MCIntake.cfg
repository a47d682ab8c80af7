SPECIFICATION IntakeSpec
CONSTANTS
  d1 = d1
  d2 = d2
  d3 = d3
  v1 = v1
  v2 = v2
  v3 = v3
  ann = ann
  bob = bob
  Deliveries = {d1, d2, d3}
  Voice <- MCVoice
  Sender <- MCSender
  Date <- MCDate
  Duration <- MCDuration
  Buffered = {}
  Processors = {proc1, proc2}
  IoThreads = {io1}
  None = None
  Empty = Empty
  Garbled = Garbled
  TooLong = TooLong
  NotRecognized = NotRecognized
  FirstId = 4
  LastId = 6
  Limit = 2
  IntMax = 7
  Indeterminate <- MCIndeterminate
  NoOffset = NoOffset
  NoReply = NoReply
  MaxDisturbances = 2
INVARIANTS
  TypeOK
  NoForeignTranscript
  CompleteVoiceRead
  ReceiverTypeOK
  ConfirmedWerePushed
  NoRepeatWithinConnection
PROPERTIES
  EveryDeliveryEnds
  EveryUpdateAcknowledged
\* Every message is answered or dropped in the end, or the process has crashed; a
\* stopped or terminated receiver does nothing more.
CHECK_DEADLOCK FALSE
